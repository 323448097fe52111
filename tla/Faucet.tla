------------------------------- MODULE Faucet -------------------------------
(***************************************************************************)
(* A faucet transfer: one signed transaction with no fee that both miners  *)
(* are told to prefer, so that the next block carries it.  Three actors    *)
(* work on it: the faucet job (run_faucet_job, and recover_faucet_job      *)
(* after a failed cleanup or a restart), the delivery guard, which polls   *)
(* the ledger every two seconds, and the miners, which work whenever no    *)
(* mining lease is held.  The job table and the ledger are separate files. *)
(*                                                                         *)
(* start_faucet refuses a transfer while another is pending or any job is  *)
(* active, so the module follows one transfer from its request on.         *)
(***************************************************************************)
EXTENDS Naturals, Sequences

CONSTANTS
  Funds,      \* wallets: functions from miner to its coins, largest first
  Amount,     \* what the recipients get
  MinChange,  \* 546 satoshi
  Reserve,    \* wallet_reserve_sats
  MaxFaults   \* bound: failures injected in one behaviour

Miners == {"node2", "node3"}
Nodes == Miners \cup {"node1"}

ASSUME FaucetConstants ==
  /\ Funds \subseteq [Miners -> Seq(Nat)]
  /\ Amount \in Nat /\ MinChange \in Nat /\ Reserve \in Nat
  /\ MaxFaults \in Nat

VARIABLES
  funds,   \* the wallets' coins
  job,     \* the faucet job in memory: its state, lane and recovery context
  jdisk,   \* the same in the job table's file
  at,      \* what the job's thread does next
  run,     \* its outcome, whether its cleanup failed, whether it recovers
  abort,   \* the abort flag
  ledger,  \* delivery state of the transfer in memory
  ldisk,   \* the same in the ledger's file
  guard,   \* what the delivery guard does next
  pool,    \* miners with the transaction in their mempool
  prio,    \* miners that prefer it
  locked,  \* the source wallet keeps the inputs for it
  lease,   \* who holds a mining lease: "job", "guard"
  mined,   \* nodes whose active chain has the transaction
  conflict,  \* the inputs were spent by another transaction
  upset,   \* a miner lost its mempool, or the chain lost the transaction
  faults   \* failures still to come

jobVars == <<job, jdisk, at, run, abort>>
ledgerVars == <<ledger, ldisk>>
nodeVars == <<pool, prio, locked, mined, conflict, upset>>
vars == <<funds, jobVars, ledgerVars, guard, nodeVars, lease, faults>>

Fault == faults > 0 /\ faults' = faults - 1
NoFault == UNCHANGED faults

-----------------------------------------------------------------------------
\* Choice of the inputs.

Total(coins) ==
  LET sum[i \in 0..Len(coins)] == IF i = 0 THEN 0 ELSE sum[i - 1] + coins[i]
  IN sum[Len(coins)]

CanFund(coins) == Total(coins) >= Reserve + Amount + MinChange

Available(coins) ==
  IF Total(coins) >= Reserve THEN Total(coins) - Reserve ELSE 0

\* FaucetSource::Auto; {} if neither wallet can pay.
ChooseFaucetSource(f) ==
  IF CanFund(f.node2) /\ Available(f.node2) >= Available(f.node3)
  THEN {"node2"}
  ELSE IF CanFund(f.node3) THEN {"node3"} ELSE {}

\* The first coins, largest first, that pay for the transfer and its change
\* and leave the reserve; {} if no such prefix does.
SelectInputs(coins) ==
  LET fits(k) ==
        /\ Total(SubSeq(coins, 1, k)) >= Amount + MinChange
        /\ Total(coins) - Total(SubSeq(coins, 1, k)) >= Reserve
      prefixes == {k \in 1..Len(coins) : fits(k)}
  IN {SubSeq(coins, 1, k) :
        k \in {n \in prefixes : \A o \in prefixes : n <= o}}

\* What the transaction pays: the recipients, and the change of its inputs.
\* There is no fee.
PreparedOutputs(coins) ==
  <<Amount, IF Total(coins) >= Amount THEN Total(coins) - Amount ELSE 0>>

VerifyPrepared(coins, outputs) ==
  outputs[2] >= MinChange /\ Total(outputs) = Total(coins)

-----------------------------------------------------------------------------
\* The ledger.

Pending == {"armed", "recovering"}
LedgerStates == Pending \cup {"none", "confirmed", "delivery_failed",
                              "aborted_after_submission", "orphaned"}

\* update and arm: memory changes first, then the file is written.
WriteLedger(state) == ledger' = state /\ ldisk' = state /\ NoFault
LedgerUnsaved(state) == ledger' = state /\ UNCHANGED ldisk /\ Fault
WriteLedgerBestEffort(state) == WriteLedger(state) \/ LedgerUnsaved(state)

-----------------------------------------------------------------------------
\* The job's record.  Its context lists the selected coins, whether the
\* signed transaction is kept, and the miners known to have accepted it.

NoJob == [state |-> "none", active |-> FALSE,
          source |-> "none", coins |-> <<>>, raw |-> FALSE, submitted |-> {}]

Go(a) == at' = a

Save(j) == job' = j /\ jdisk' = j /\ NoFault
Unsaved(j) == job' = j /\ UNCHANGED jdisk /\ Fault
SaveBestEffort(j) == Save(j) \/ Unsaved(j)

\* An error ends the execution, or the recovery's round.
Error ==
  IF run.recovers THEN Go("confirmed?") /\ UNCHANGED run
  ELSE Go("unprioritise") /\ run' = [run EXCEPT !.outcome = "error"]

\* update_faucet_context: a context that cannot be saved is an error.
UpdateContext(j, next) ==
  \/ Save(j) /\ Go(next) /\ UNCHANGED run
  \/ Unsaved(j) /\ Error

\* A step that fails without leaving a trace.
StepFails ==
  /\ Error /\ Fault
  /\ UNCHANGED <<job, jdisk, abort, ledgerVars, nodeVars, lease>>

\* finish_job.
FinishJob(state, failed) ==
  /\ SaveBestEffort([job EXCEPT !.state = state, !.active = failed])
  /\ abort' = FALSE
  /\ Go(IF failed THEN "confirmed?" ELSE "idle")
  /\ run' = [outcome |-> "ok", errors |-> FALSE, recovers |-> failed]

-----------------------------------------------------------------------------
\* run_faucet_job up to its mining lease.

StartFaucet ==
  /\ job.state = "none" /\ ledger \notin Pending /\ guard = "poll"
  /\ Save([job EXCEPT !.state = "running", !.active = TRUE])
  /\ Go("preflight")
  /\ UNCHANGED <<run, abort, ledgerVars, nodeVars, lease>>

\* The chain is ready and the nodes agree; a transfer that cannot start is
\* over at once.
Preflight ==
  /\ at = "preflight"
  /\ \/ abort /\ FinishJob("aborted", FALSE)
     \/ ~abort /\ Go("lease") /\ NoFault /\ UNCHANGED <<job, jdisk, run, abort>>
     \/ faults > 0 /\ ~abort /\ FinishJob("failed", FALSE)
  /\ UNCHANGED <<ledgerVars, nodeVars, lease>>

AcquireLease ==
  /\ at = "lease"
  /\ lease' = lease \cup {"job"}
  /\ Go("select")
  /\ NoFault
  /\ UNCHANGED <<job, jdisk, run, abort, ledgerVars, nodeVars>>

\* The job ends without a cleanup, although a call whose answer is lost may
\* have taken effect.
AcquireLeaseFails ==
  /\ at = "lease" /\ faults > 0
  /\ lease' \in {lease, lease \cup {"job"}}
  /\ FinishJob("failed", FALSE)
  /\ UNCHANGED <<ledgerVars, nodeVars>>

-----------------------------------------------------------------------------
\* execute_faucet.

Aborted ==
  /\ at \in {"select", "prepare", "submit2", "submit3"} /\ abort
  /\ ~run.recovers
  /\ Error /\ NoFault
  /\ UNCHANGED <<job, jdisk, abort, ledgerVars, nodeVars, lease>>

MayGoOn == abort => run.recovers

Select ==
  /\ at = "select" /\ MayGoOn
  /\ \E s \in ChooseFaucetSource(funds) : \E coins \in SelectInputs(funds[s]) :
       UpdateContext([job EXCEPT !.source = s, !.coins = coins], "lock")
  /\ UNCHANGED <<abort, ledgerVars, nodeVars, lease>>

\* Neither wallet can pay and keep its reserve.
InsufficientFunds ==
  /\ at = "select" /\ MayGoOn
  /\ \A s \in ChooseFaucetSource(funds) : SelectInputs(funds[s]) = {}
  /\ Error /\ NoFault
  /\ UNCHANGED <<job, jdisk, abort, ledgerVars, nodeVars, lease>>

\* lock_inputs, and the context that says so.
LockInputs ==
  /\ at = "lock"
  /\ locked' = TRUE
  /\ UpdateContext(job, "prepare")
  /\ UNCHANGED <<abort, ledgerVars, pool, prio, mined, conflict, upset, lease>>

\* The transaction is signed, checked against the request, and kept.
PrepareTransaction ==
  /\ at = "prepare" /\ MayGoOn
  /\ IF VerifyPrepared(job.coins, PreparedOutputs(job.coins))
     THEN UpdateContext([job EXCEPT !.raw = TRUE], "prioritise2")
     ELSE Error /\ NoFault /\ UNCHANGED <<job, jdisk>>
  /\ UNCHANGED <<abort, ledgerVars, nodeVars, lease>>

-----------------------------------------------------------------------------
\* arm_prepared, for the job and for its recovery.

Armed(m) == m \in pool /\ m \in prio

\* set_priority brings a miner's preference to what is wanted, whatever it was.
Prefer(m) == prio' = prio \cup {m}

SetPriority(m, here, next) ==
  /\ at = here
  /\ Prefer(m)
  /\ UpdateContext(job, next)
  /\ UNCHANGED <<abort, ledgerVars, pool, locked, mined, conflict, upset, lease>>

\* testmempoolaccept refuses a transaction that is in the mempool, in the
\* chain or in conflict with it.
Acceptable(m) == m \notin pool /\ m \notin mined /\ ~conflict

TestAccept ==
  /\ at = "test"
  /\ IF \A m \in Miners : Acceptable(m) THEN Go("submit2") /\ UNCHANGED run
                                        ELSE Error
  /\ NoFault
  /\ UNCHANGED <<job, jdisk, abort, ledgerVars, nodeVars, lease>>

\* submit finds the transaction there or sends it.
Submit(m, here, next) ==
  /\ at = here /\ MayGoOn /\ m \notin mined /\ ~conflict
  /\ pool' = pool \cup {m}
  /\ UpdateContext([job EXCEPT !.submitted = @ \cup {m}], next)
  /\ UNCHANGED <<abort, ledgerVars, prio, locked, mined, conflict, upset, lease>>

\* The miner does not accept it in time, or its answer stays out.
SubmitFails(m, here) ==
  /\ at = here /\ MayGoOn
  /\ \/ pool' \in {pool, IF Acceptable(m) THEN pool \cup {m} ELSE pool} /\ Fault
     \/ (m \in mined \/ conflict) /\ UNCHANGED pool /\ NoFault
  /\ Error
  /\ UNCHANGED <<job, jdisk, abort, ledgerVars, prio, locked, mined, conflict,
                 upset, lease>>

VerifyMiners == \A m \in Miners : Armed(m)

Verify ==
  /\ at = "verify"
  /\ IF VerifyMiners THEN Go("arm") /\ UNCHANGED run ELSE Error
  /\ NoFault
  /\ UNCHANGED <<job, jdisk, abort, ledgerVars, nodeVars, lease>>

\* faucet_store.arm, then the context; the recovery arms only a transfer the
\* ledger does not have.
Arm ==
  /\ at = "arm" /\ ~run.recovers
  /\ \/ WriteLedger("armed") /\ Go("armed") /\ UNCHANGED run
     \/ LedgerUnsaved("armed") /\ Error
  /\ UNCHANGED <<job, jdisk, abort, nodeVars, lease>>

ArmedInContext ==
  /\ at = "armed"
  /\ UpdateContext(job, "unprioritise")
  /\ UNCHANGED <<abort, ledgerVars, nodeVars, lease>>

-----------------------------------------------------------------------------
\* The end of run_faucet_job.

\* Mutant of Unprioritise: the priority is cleared after a success too.
UnprioritiseAlways ==
  /\ at = "unprioritise"
  /\ Go("release")
  /\ prio' = IF job.raw THEN {} ELSE prio
  /\ locked' = IF run.outcome = "error" \/ abort THEN FALSE ELSE locked
  /\ NoFault
  /\ UNCHANGED <<run, job, jdisk, abort, ledgerVars, pool, mined, conflict,
                 upset, lease>>

\* After an error or an abort the miners forget the priority and the wallet
\* its locks; what fails is an error of the cleanup.
Unprioritise ==
  /\ at = "unprioritise"
  /\ Go("release")
  /\ IF run.outcome = "error" \/ abort
     THEN \/ /\ prio' = IF job.raw THEN {} ELSE prio
             /\ locked' = IF job.coins # <<>> THEN FALSE ELSE locked
             /\ NoFault /\ UNCHANGED run
          \/ /\ prio' \in SUBSET prio
             /\ locked' \in {locked, FALSE}
             /\ Fault /\ run' = [run EXCEPT !.errors = TRUE]
     ELSE NoFault /\ UNCHANGED <<prio, locked, run>>
  /\ UNCHANGED <<job, jdisk, abort, ledgerVars, pool, mined, conflict, upset,
                 lease>>

ReleaseLease ==
  /\ at = "release"
  /\ Go("settle")
  /\ \/ lease' = lease \ {"job"} /\ NoFault /\ UNCHANGED run
     \/ /\ lease' \in {lease, lease \ {"job"}}
        /\ Fault /\ run' = [run EXCEPT !.errors = TRUE]
  /\ UNCHANGED <<job, jdisk, abort, ledgerVars, nodeVars>>

\* The job's last state and the transfer's: the flag is read again here.
Settlement ==
  IF abort
  THEN [state |-> "aborted",
        ledger |-> IF run.outcome = "ok" \/ job.submitted # {}
                   THEN "aborted_after_submission" ELSE ledger]
  ELSE IF run.outcome = "ok"
       THEN [state |-> "succeeded", ledger |-> ledger]
       ELSE [state |-> "failed", ledger |-> ledger]

\* mark_failed ignores that the ledger cannot be written; after an error the
\* transfer is armed in the ledger first, to be there at all.
SettleLedger ==
  /\ at = "settle"
  /\ IF Settlement.ledger = ledger
     THEN UNCHANGED ledgerVars /\ NoFault
     ELSE \/ WriteLedgerBestEffort(Settlement.ledger)
          \/ /\ run.outcome = "error"
             /\ ledger' = Settlement.ledger /\ ldisk' = "armed" /\ Fault
  /\ run' = [run EXCEPT !.outcome = Settlement.state]
  /\ Go("finish")
  /\ UNCHANGED <<job, jdisk, abort, nodeVars, lease>>

\* clear_faucet_job_recovery_material and finish_job.
Finish ==
  /\ at = "finish"
  /\ LET done == IF run.outcome = "succeeded"
                 THEN [job EXCEPT !.raw = FALSE, !.coins = <<>>] ELSE job
     IN SaveBestEffort([done EXCEPT !.state = run.outcome,
                                    !.active = run.errors])
  /\ abort' = FALSE
  /\ Go(IF run.errors THEN "confirmed?" ELSE "idle")
  /\ run' = [outcome |-> "ok", errors |-> FALSE, recovers |-> run.errors]
  /\ UNCHANGED <<ledgerVars, nodeVars, lease>>

-----------------------------------------------------------------------------
\* recover_faucet_job, every two seconds until it succeeds.

\* confirmation: node1 has the transaction in a block.
Confirmed == "node1" \in mined

\* A transfer that was never signed has only its inputs to give back.
RecoverUnsigned ==
  /\ at = "confirmed?" /\ ~job.raw
  /\ locked' = IF job.coins # <<>> THEN FALSE ELSE locked
  /\ Go("recovered")
  /\ NoFault
  /\ UNCHANGED <<job, jdisk, run, abort, ledgerVars, pool, prio, mined,
                 conflict, upset, lease>>

\* node1 has it in a block: ledger and job say so.
RecoverConfirmed ==
  /\ at = "confirmed?" /\ job.raw /\ Confirmed
  /\ \/ WriteLedger("confirmed") /\ Go("succeed") /\ UNCHANGED run
     \/ LedgerUnsaved("confirmed") /\ Error
  /\ UNCHANGED <<job, jdisk, abort, nodeVars, lease>>

RecoverUnconfirmed ==
  /\ at = "confirmed?" /\ job.raw /\ ~Confirmed
  /\ Go("inputs?")
  /\ NoFault
  /\ UNCHANGED <<job, jdisk, run, abort, ledgerVars, nodeVars, lease>>

InputsUnspent == job.source \notin mined /\ ~conflict

RecoverConflicted ==
  /\ at = "inputs?" /\ ~InputsUnspent
  /\ prio' = {}
  /\ UpdateContext([job EXCEPT !.state = "failed"], "recovered")
  /\ UNCHANGED <<abort, ledgerVars, pool, locked, mined, conflict, upset, lease>>

\* ensure_faucet_recovery_mining_lease and lock_inputs.
RecoverLease ==
  /\ at = "inputs?" /\ InputsUnspent
  /\ lease' = lease \cup {"job"}
  /\ locked' = TRUE
  /\ Go("prioritise2")
  /\ NoFault
  /\ UNCHANGED <<job, jdisk, run, abort, ledgerVars, pool, prio, mined,
                 conflict, upset>>

RecoverArm ==
  /\ at = "arm" /\ run.recovers
  /\ IF ledger # "none"
     THEN UNCHANGED ledgerVars /\ NoFault /\ Go("succeed") /\ UNCHANGED run
     ELSE \/ WriteLedger("armed") /\ Go("succeed") /\ UNCHANGED run
          \/ LedgerUnsaved("armed") /\ Error
  /\ UNCHANGED <<job, jdisk, abort, nodeVars, lease>>

\* mark_recovered_faucet_succeeded.
RecoverSucceed ==
  /\ at = "succeed"
  /\ UpdateContext([job EXCEPT !.state = "succeeded", !.raw = FALSE,
                               !.coins = <<>>], "recovered")
  /\ UNCHANGED <<abort, ledgerVars, nodeVars, lease>>

\* recover_worker_leases, and the end of recovery_loop.
Recovered ==
  /\ at = "recovered"
  /\ lease' = lease \ {"job"}
  /\ SaveBestEffort([job EXCEPT !.active = FALSE])
  /\ Go("idle")
  /\ run' = [run EXCEPT !.recovers = FALSE]
  /\ UNCHANGED <<abort, ledgerVars, nodeVars>>

\* A call of the recovery fails.
RecoveryFails ==
  /\ at \in {"confirmed?", "inputs?", "recovered"} /\ run.recovers
  /\ Go("confirmed?")
  /\ Fault
  /\ UNCHANGED <<job, jdisk, run, abort, ledgerVars, nodeVars, lease>>

-----------------------------------------------------------------------------
\* The delivery guard.

Watch(g) == guard' = g

\* poll_faucet_delivery asks node1 first.
PollConfirmed ==
  /\ guard = "poll" /\ ledger \in Pending /\ Confirmed
  /\ WriteLedgerBestEffort("confirmed")
  /\ UNCHANGED <<guard, nodeVars, lease>>

PollUnconfirmed ==
  /\ guard = "poll" /\ ledger \in Pending /\ ~Confirmed
  /\ Watch("verify")
  /\ NoFault
  /\ UNCHANGED <<ledgerVars, nodeVars, lease>>

\* Mutant of PollOrphaned: only a pending transfer is looked after.
PollPendingOnly ==
  /\ guard = "poll" /\ ledger \in Pending /\ ~Confirmed
  /\ WriteLedgerBestEffort("orphaned")
  /\ UNCHANGED <<guard, nodeVars, lease>>

\* poll_confirmed_faucet.
PollOrphaned ==
  /\ guard = "poll" /\ ledger = "confirmed" /\ ~Confirmed
  /\ WriteLedgerBestEffort("orphaned")
  /\ UNCHANGED <<guard, nodeVars, lease>>

\* Both miners are ready, or a job is active: nothing to do.  A miner that
\* does not answer counts as not ready.  The transfer may have ended since
\* it was read.
GuardVerify ==
  /\ guard = "verify"
  /\ \/ /\ VerifyMiners
        /\ IF ledger = "recovering" THEN WriteLedgerBestEffort("armed")
           ELSE UNCHANGED ledgerVars /\ NoFault
        /\ Watch("poll")
     \/ /\ IF VerifyMiners THEN Fault ELSE NoFault
        /\ Watch(IF job.active THEN "poll" ELSE "recover")
        /\ UNCHANGED ledgerVars
  /\ UNCHANGED <<nodeVars, lease>>

\* recover_pending_transfer: mark_recovering, then are the inputs there?
GuardRecover ==
  /\ guard = "recover"
  /\ \/ WriteLedger("recovering") /\ Watch("inputs?")
     \/ LedgerUnsaved("recovering") /\ Watch("poll")
  /\ UNCHANGED <<nodeVars, lease>>

GuardGivesUp ==
  /\ guard = "inputs?" /\ ~InputsUnspent
  /\ WriteLedgerBestEffort("delivery_failed")
  /\ Watch("poll")
  /\ UNCHANGED <<nodeVars, lease>>

GuardLease ==
  /\ guard = "inputs?" /\ InputsUnspent
  /\ \/ lease' = lease \cup {"guard"} /\ Watch("rearm2") /\ NoFault
     \/ lease' \in {lease, lease \cup {"guard"}} /\ Watch("poll") /\ Fault
  /\ UNCHANGED <<ledgerVars, nodeVars>>

\* Mutant of GuardRearm: the transaction returns without its priority.
GuardResubmits(m, here, next) ==
  /\ guard = here
  /\ IF Acceptable(m) THEN pool' = pool \cup {m} /\ Watch(next)
                      ELSE UNCHANGED pool /\ Watch("undo")
  /\ NoFault
  /\ UNCHANGED <<ledgerVars, prio, locked, mined, conflict, upset, lease>>

\* One miner: priority, testmempoolaccept, submission.
GuardRearm(m, here, next) ==
  /\ guard = here
  /\ Prefer(m)
  /\ IF Acceptable(m) THEN pool' = pool \cup {m} /\ Watch(next)
                      ELSE UNCHANGED pool /\ Watch("undo")
  /\ NoFault
  /\ UNCHANGED <<ledgerVars, locked, mined, conflict, upset, lease>>

GuardRearmFails ==
  /\ guard \in {"inputs?", "rearm2", "rearm3"}
  /\ Watch(IF guard = "inputs?" THEN "poll" ELSE "undo") /\ Fault
  /\ UNCHANGED <<ledgerVars, nodeVars, lease>>

\* The lease goes back; only a verified transfer is marked armed.
GuardDone ==
  /\ guard \in {"reverify", "undo"}
  /\ \/ lease' = lease \ {"guard"} /\ NoFault
     \/ lease' \in {lease, lease \ {"guard"}} /\ Fault
  /\ Watch(IF guard = "reverify" /\ VerifyMiners THEN "mark" ELSE "poll")
  /\ UNCHANGED <<ledgerVars, nodeVars>>

GuardMark ==
  /\ guard = "mark"
  /\ WriteLedgerBestEffort("armed")
  /\ Watch("poll")
  /\ UNCHANGED <<nodeVars, lease>>

-----------------------------------------------------------------------------
\* Clients, miners, nodes and processes.

\* A client's abort, and a renewal of the lease that fails.
RequestAbort ==
  /\ job.state = "running" /\ ~abort
  /\ at \notin {"idle", "confirmed?"} /\ ~run.recovers
  /\ abort' = TRUE
  /\ UNCHANGED <<job, jdisk, at, run, ledgerVars, guard, nodeVars, lease, faults>>

\* Miners mine while nobody holds a lease.  A preferred transaction comes
\* first; without the priority a transaction without fee may wait.
Mine(m) ==
  /\ lease = {} /\ m \in pool /\ mined = {}
  /\ mined' = {m}
  /\ pool' = pool \ {m} /\ prio' = prio \ {m}
  /\ UNCHANGED <<jobVars, ledgerVars, guard, locked, conflict, upset, lease,
                 faults>>

Propagate(n) ==
  /\ mined # {} /\ n \notin mined
  /\ mined' = mined \cup {n}
  /\ pool' = pool \ {n} /\ prio' = prio \ {n}
  /\ UNCHANGED <<jobVars, ledgerVars, guard, locked, conflict, upset, lease,
                 faults>>

\* A reorganisation drops the block; the miners may take the transaction
\* back into their mempools.
Orphan ==
  /\ mined = Nodes /\ ~job.active /\ Fault
  /\ mined' = {} /\ pool' \in SUBSET Miners /\ prio' = {} /\ upset' = TRUE
  /\ UNCHANGED <<jobVars, ledgerVars, guard, locked, conflict, lease>>

\* A miner starts anew: mempool, priorities and wallet locks are gone.
MinerRestarts(m) ==
  /\ Fault
  /\ pool' = pool \ {m} /\ prio' = prio \ {m} /\ upset' = TRUE
  /\ locked' = IF job.source = m THEN FALSE ELSE locked
  /\ UNCHANGED <<jobVars, ledgerVars, guard, mined, conflict, lease>>

\* Someone else spends the inputs.
SpendInputs ==
  /\ ~locked /\ mined = {} /\ job.coins # <<>> /\ Fault
  /\ conflict' = TRUE /\ pool' = {} /\ upset' = TRUE
  /\ UNCHANGED <<jobVars, ledgerVars, guard, prio, locked, mined, lease>>

\* A lease that is not renewed: the guard's, and the job's while it recovers
\* or after it has ended.
LeaseExpires(h) ==
  /\ h \in lease /\ (h = "job" => run.recovers \/ at = "idle")
  /\ lease' = lease \ {h}
  /\ UNCHANGED <<jobVars, ledgerVars, guard, nodeVars, faults>>

\* A mining worker that starts anew has no leases; a renewal does not miss
\* them.
WorkerRestarts ==
  /\ lease # {} /\ Fault
  /\ lease' = {}
  /\ UNCHANGED <<jobVars, ledgerVars, guard, nodeVars>>

\* The control plane ends and starts again from its two files.
Restart ==
  /\ Fault
  /\ job' = [jdisk EXCEPT !.state =
       IF jdisk.active /\ @ = "running" THEN "interrupted" ELSE @]
  /\ jdisk' = job'
  /\ Go(IF jdisk.active THEN "confirmed?" ELSE "idle")
  /\ run' = [outcome |-> "ok", errors |-> FALSE, recovers |-> jdisk.active]
  /\ abort' = FALSE
  /\ ledger' = ldisk
  /\ Watch("poll")
  /\ UNCHANGED <<ldisk, nodeVars, lease>>

-----------------------------------------------------------------------------
Init ==
  /\ funds \in Funds
  /\ job = NoJob /\ jdisk = NoJob
  /\ at = "idle"
  /\ run = [outcome |-> "ok", errors |-> FALSE, recovers |-> FALSE]
  /\ abort = FALSE
  /\ ledger = "none" /\ ldisk = "none"
  /\ guard = "poll"
  /\ pool = {} /\ prio = {} /\ locked = FALSE
  /\ lease = {} /\ mined = {} /\ conflict = FALSE /\ upset = FALSE
  /\ faults = MaxFaults

ArmPrepared ==
  \/ SetPriority("node2", "prioritise2", "prioritise3")
  \/ SetPriority("node3", "prioritise3", "test")
  \/ TestAccept
  \/ Submit("node2", "submit2", "submit3") \/ SubmitFails("node2", "submit2")
  \/ Submit("node3", "submit3", "verify") \/ SubmitFails("node3", "submit3")
  \/ Verify

ExecutorFails ==
  /\ at \in {"select", "lock", "prepare", "prioritise2", "prioritise3", "test",
             "verify"}
  /\ StepFails

RunFaucetJob ==
  \/ Preflight \/ AcquireLease \/ AcquireLeaseFails
  \/ Aborted \/ Select \/ InsufficientFunds \/ LockInputs \/ PrepareTransaction
  \/ ArmPrepared \/ Arm \/ ArmedInContext
  \/ ExecutorFails
  \/ Unprioritise \/ ReleaseLease \/ SettleLedger \/ Finish

RecoverFaucetJob ==
  \/ RecoverUnsigned \/ RecoverConfirmed \/ RecoverUnconfirmed
  \/ RecoverConflicted \/ RecoverLease \/ RecoverArm \/ RecoverSucceed
  \/ Recovered \/ RecoveryFails

Guard ==
  \/ PollConfirmed \/ PollUnconfirmed \/ PollOrphaned \/ GuardVerify
  \/ GuardRecover \/ GuardGivesUp \/ GuardLease
  \/ GuardRearm("node2", "rearm2", "rearm3")
  \/ GuardRearm("node3", "rearm3", "reverify")
  \/ GuardRearmFails \/ GuardDone \/ GuardMark

JobStep == (RunFaucetJob \/ RecoverFaucetJob) /\ UNCHANGED guard
GuardStep == Guard /\ UNCHANGED jobVars

Next ==
  /\ \/ StartFaucet /\ UNCHANGED guard
     \/ JobStep \/ GuardStep \/ RequestAbort
     \/ \E m \in Miners : Mine(m) \/ MinerRestarts(m)
     \/ \E n \in Nodes : Propagate(n)
     \/ \E h \in {"job", "guard"} : LeaseExpires(h)
     \/ Orphan \/ SpendInputs \/ WorkerRestarts \/ Restart
  /\ UNCHANGED funds

\* The job's thread and the guard go on.
ControlPlaneFairness ==
  /\ WF_vars(JobStep /\ UNCHANGED funds)
  /\ WF_vars(GuardStep /\ UNCHANGED funds)

\* A lease ends.  A preferred transaction is in the next block, and a block
\* that is due waits until the leases are gone, however often they return.
WorldFairness ==
  /\ \A m \in Miners : SF_vars(Mine(m) /\ m \in prio /\ UNCHANGED funds)
  /\ \A n \in Nodes : WF_vars(Propagate(n) /\ UNCHANGED funds)
  /\ \A h \in {"job", "guard"} : WF_vars(LeaseExpires(h) /\ UNCHANGED funds)

Spec == Init /\ [][Next]_vars
GuardedSpec == Spec /\ ControlPlaneFairness
FairSpec == GuardedSpec /\ WorldFairness

-----------------------------------------------------------------------------
\* What the faucet promises.

JobStates == {"none", "running", "succeeded", "failed", "aborted",
              "interrupted"}

\* Types of job, ledger and miners; a signed transfer has its coins, and one
\* that is mined is in no mempool.
TypeOK ==
  /\ job.state \in JobStates /\ job.active \in BOOLEAN
  /\ job.source \in Miners \cup {"none"} /\ job.submitted \subseteq Miners
  /\ job.raw => job.coins # <<>>
  /\ run.recovers => ~abort /\ job.active
  /\ ledger \in LedgerStates /\ ldisk \in LedgerStates
  /\ pool \cup prio \subseteq Miners /\ mined \subseteq Nodes
  /\ lease \subseteq {"job", "guard"}
  /\ pool \cap mined = {} /\ faults \in 0..MaxFaults

\* A transfer reported as armed is in the mempools of both miners with its
\* priority, or in a block already, unless a miner or the chain lost it
\* since: mining resumes only after both were verified.
SucceededMeansArmed ==
  job.state = "succeeded" /\ ledger = "armed" /\ ~upset
    => VerifyMiners \/ mined # {}

\* An abort before any miner had the transaction leaves no locked input and
\* no priority behind once the job has left its lane.
AbortBeforeSubmissionIsClean ==
  job.state = "aborted" /\ ~job.active /\ ledger = "none"
    => ~locked /\ prio = {}

\* The wallet keeps its reserve and the transfer pays its change: whatever
\* Auto selected, from whichever wallet.
ReserveIsKept ==
  job.coins # <<>> =>
    /\ Total(job.coins) >= Amount + MinChange
    /\ Total(funds[job.source]) - Total(job.coins) >= Reserve

\* What holds of a transfer in every state, of its job, its wallet and its
\* copies at the miners.
TransferInvariant ==
  TypeOK /\ SucceededMeansArmed /\ AbortBeforeSubmissionIsClean /\ ReserveIsKept

\* A delivered transfer that a reorganisation removes is noticed.
OrphanNoticed ==
  (ledger = "confirmed" /\ ~Confirmed)
    ~> (ledger # "confirmed" \/ Confirmed)

\* A pending transfer is delivered or given up in the end, whatever a miner,
\* the worker or the control plane lost on the way: until then no other
\* transfer starts.
PendingResolves == ledger \in Pending ~> ledger \notin Pending

\* Does not hold (see README, Disagreements).
\* "The control-plane delivery guard repairs a missing miner copy from its
\* private durable transaction before manual mining": a pending transfer is
\* armed on both miners again, or ends.
RepairsMissingCopy == ledger \in Pending ~> (ledger \notin Pending \/ VerifyMiners)
=============================================================================
