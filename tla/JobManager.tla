----------------------------- MODULE JobManager -----------------------------
(***************************************************************************)
(* The control plane's job manager: admission of jobs into the exclusive   *)
(* lane and the per-node degradation lanes, the executor threads with the  *)
(* leases they take in a fixed order, cleanup, and the recovery loop that  *)
(* runs after a failed cleanup, a panic or a restart.  The whole job table *)
(* is written to one file at every save, after memory has changed.         *)
(*                                                                         *)
(* What a job does to the chain is one bit here: it is in `unsettled` from *)
(* the first step that can leave the nodes apart until they are witnessed  *)
(* on one tip.  Rewind and Reorg model those steps.  Faucet and scenario   *)
(* jobs have modules of their own.                                         *)
(***************************************************************************)
EXTENDS Naturals, FiniteSets, Sequences

CONSTANTS
  Jobs,          \* identities of the jobs that are ever requested
  Nodes,         \* nodes with a network agent
  Requests,      \* the requests clients make: records [kind, node]
  MaxHistory,    \* MAX_JOB_HISTORY
  RequestLimit,  \* COMPLETED_REQUEST_LIMIT of the workers
  MaxFaults,     \* bound: failures injected in one behaviour
  None

Workers == {"spam", "mining"}
Components == Workers \cup Nodes
Kinds == {"reorg", "rewind", "mine", "spam_burst", "spam_prepare",
          "partition", "degrade"}
Terminal == {"succeeded", "failed", "aborted", "interrupted"}
JobStates ==
  Terminal \cup {"none", "starting", "running", "abort_requested", "trimmed"}

ASSUME JobConstants ==
  /\ None \notin Jobs
  /\ Nodes \cap Workers = {}
  /\ Requests \subseteq [kind : Kinds, node : Nodes]
  /\ MaxHistory \in Nat /\ MaxHistory > Cardinality(Nodes)
  /\ RequestLimit \in Nat \ {0}
  /\ MaxFaults \in Nat

VARIABLES
  mem,         \* PersistedJobs in memory
  disk,        \* PersistedJobs in the index file
  abort,       \* jobs whose abort flag is set
  thread,      \* per job, the thread working for it
  held,        \* per component, the jobs that own a lease there
  remembered,  \* per worker and job, for how many more requests the worker
               \* remembers the job's recovery release as completed
  unsettled,   \* jobs that may have left the nodes on different tips
  lost,        \* jobs that lost a lease they did not release
  faults       \* failures still to come

vars == <<mem, disk, abort, thread, held, remembered, unsettled, lost, faults>>

-----------------------------------------------------------------------------
\* What each kind of job does: the leases it takes, after which of them it
\* reads the abort flag, and whether it can leave the nodes apart.

ReorgJob(n) ==
  [leases |-> <<"spam", "mining">>, checks |-> {1, 2}, mutates |-> TRUE]

RewindJob(n) ==
  [leases |-> <<"spam", "mining">>, checks |-> {1, 2}, mutates |-> TRUE]

MineJob(n) ==
  [leases |-> <<"mining">>, checks |-> {1}, mutates |-> FALSE]

SpamBurstJob(n) ==
  [leases |-> <<"spam">>, checks |-> {1}, mutates |-> FALSE]

SpamPrepareJob(n) ==
  [leases |-> <<"spam">>, checks |-> {}, mutates |-> FALSE]

PartitionJob(n) ==
  [leases |-> <<"spam", "mining", n>>, checks |-> {2}, mutates |-> TRUE]

DegradeJob(n) ==
  [leases |-> <<n>>, checks |-> {}, mutates |-> FALSE]

Plan(kind, n) ==
  CASE kind = "reorg" -> ReorgJob(n)
    [] kind = "rewind" -> RewindJob(n)
    [] kind = "mine" -> MineJob(n)
    [] kind = "spam_burst" -> SpamBurstJob(n)
    [] kind = "spam_prepare" -> SpamPrepareJob(n)
    [] kind = "partition" -> PartitionJob(n)
    [] kind = "degrade" -> DegradeJob(n)

\* The state a job ends in, from how its execution ended and from the abort
\* flag, which is read after the cleanup.
FinalState(kind, outcome, aborted) ==
  CASE outcome = "aborted" -> "aborted"
    [] outcome = "ok" ->
         IF aborted /\ kind # "rewind" THEN "aborted" ELSE "succeeded"
    [] outcome = "unstarted" -> IF aborted THEN "aborted" ELSE "failed"
    [] outcome = "error" ->
         IF aborted /\ kind = "partition" THEN "aborted" ELSE "failed"

-----------------------------------------------------------------------------
\* The job table.

NoJob == [kind |-> "none", node |-> None, state |-> "none",
          cleanup |-> "pending", intents |-> {}, context |-> "none"]

\* A reorg is presumed to have changed the chain from its acceptance on.
NewJob(r) ==
  [kind |-> r.kind, node |-> r.node, state |-> "starting",
   cleanup |-> "pending", intents |-> {},
   context |-> IF r.kind = "reorg" THEN "possible" ELSE "none"]

Active(m) ==
  {j \in Jobs : m.lane = j \/ \E n \in Nodes : m.degraded[n] = j}

Stored(m) == {j \in Jobs : m.job[j].state \notin {"none", "trimmed"}}

ExclusiveKind(m) == IF m.lane = None THEN "none" ELSE m.job[m.lane].kind

\* Mutant of JobsAreCompatible: degradations do not hold back other jobs.
JobsAreCompatibleByLane(m, r) ==
  IF r.kind = "degrade"
  THEN ExclusiveKind(m) \in {"none", "mine"} /\ m.degraded[r.node] = None
  ELSE ExclusiveKind(m) = "none"

JobsAreCompatible(m, r) ==
  CASE r.kind = "mine" -> ExclusiveKind(m) = "none"
    [] r.kind = "degrade" ->
         /\ ExclusiveKind(m) \in {"none", "mine"}
         /\ m.degraded[r.node] = None
    [] OTHER ->
         ExclusiveKind(m) = "none" /\ \A n \in Nodes : m.degraded[n] = None

EnterLane(m, j, r) ==
  IF r.kind = "degrade"
  THEN [m EXCEPT !.degraded[r.node] = j] ELSE [m EXCEPT !.lane = j]

ClearActiveLane(m, j) ==
  [m EXCEPT !.lane = IF @ = j THEN None ELSE @,
            !.degraded = [n \in Nodes |-> IF @[n] = j THEN None ELSE @[n]]]

\* The tables that trimming one table can leave: while there are more than
\* MaxHistory jobs, a finished one that is not active goes.
TrimHistory(m) ==
  IF Cardinality(Stored(m)) > MaxHistory
  THEN {[m EXCEPT !.job[r] = [NoJob EXCEPT !.state = "trimmed"]] :
          r \in {j \in Stored(m) : /\ m.job[j].state \in Terminal
                                   /\ j \notin Active(m)}}
  ELSE {m}

\* Mutant of Interrupted: a finished job that is still active is interrupted.
InterruptedAgain(m) ==
  [m EXCEPT !.job = [j \in Jobs |->
     IF j \in Active(m)
     THEN [m.job[j] EXCEPT !.state = "interrupted", !.cleanup = "running"]
     ELSE m.job[j]]]

\* open_with_ttl: a job that was active and had not ended is interrupted.
Interrupted(m) ==
  [m EXCEPT !.job = [j \in Jobs |->
     IF j \in Active(m) /\ m.job[j].state \notin Terminal
     THEN [m.job[j] EXCEPT !.state = "interrupted", !.cleanup = "running"]
     ELSE m.job[j]]]

Fault == faults > 0 /\ faults' = faults - 1
NoFault == UNCHANGED faults

\* A save whose failure is logged and otherwise ignored.
SaveBestEffort(m) ==
  /\ mem' = m
  /\ \/ disk' = m /\ NoFault
     \/ UNCHANGED disk /\ Fault

-----------------------------------------------------------------------------
\* Threads.

Idle == [at |-> "idle", i |-> 1, todo |-> {}, outcome |-> "ok",
         errors |-> FALSE]

Kind(j) == mem.job[j].kind
Node(j) == mem.job[j].node
PlanOf(j) == Plan(Kind(j), Node(j))
LeaseOf(j) == PlanOf(j).leases[thread[j].i]

At(j, a) == thread[j].at = a
GoTo(j, a) == thread' = [thread EXCEPT ![j].at = a]

\* The order of the steps of a cleanup or a recovery round.
StepRank ==
  [network |-> 1, heal |-> 2, lease_spam |-> 3, lease_mining |-> 4,
   chain |-> 5, spam |-> 6, mining |-> 7, verify |-> 8]
Steps == DOMAIN StepRank

IsNext(j, s) ==
  s \in thread[j].todo /\ \A t \in thread[j].todo : StepRank[s] <= StepRank[t]

\* cleanup_leases works on the leases it is given.
CleanupSteps(j, leases) ==
  LET networked == Node(j) \in leases
  IN (IF networked THEN {"network"} ELSE {})
       \cup (IF networked /\ Kind(j) # "degrade" THEN {"heal"} ELSE {})
       \cup (leases \cap Workers)

StartCleanup(j, leases, outcome) ==
  thread' = [thread EXCEPT ![j] =
    [@ EXCEPT !.at = "cleanup", !.todo = CleanupSteps(j, leases),
              !.outcome = outcome, !.errors = FALSE]]

\* Mutant of RecoverySteps: the workers' leases are given back at once.
RecoveryStepsWithoutChain(m, j) ==
  {"network", "spam", "mining", "verify"}

\* recover_job_resources: every agent is asked; a recorded network lease
\* needs the nodes reconnected, a recorded mutation the chain recovered
\* under leases, which come back last and are verified to be gone.
RecoverySteps(m, j) ==
  LET rec == m.job[j]
  IN {"network", "spam", "mining", "verify"}
       \cup (IF rec.node \in rec.intents /\ rec.kind # "degrade"
             THEN {"heal"} ELSE {})
       \cup (IF rec.context # "none"
             THEN {"lease_spam", "lease_mining", "chain"} ELSE {})

Recovering(m, j) ==
  [Idle EXCEPT !.at = "recover", !.todo = RecoverySteps(m, j)]

\* The leases an executor has been granted, as its local list has them.
Granted(j) == {PlanOf(j).leases[k] : k \in 1..(thread[j].i - 1)}

-----------------------------------------------------------------------------
\* Admission.  The job is in memory, in its lane, before it is saved.

Admitted(j, r) ==
  /\ mem.job[j].state = "none" /\ disk.job[j].state = "none" /\ At(j, "idle")
  /\ JobsAreCompatible(mem, r)

WithJob(m, j, r) == EnterLane([m EXCEPT !.job[j] = NewJob(r)], j, r)

ReserveActionJob(j, r) ==
  /\ Admitted(j, r)
  /\ \E m \in TrimHistory(WithJob(mem, j, r)) : mem' = m /\ disk' = m
  /\ GoTo(j, "new")
  /\ UNCHANGED <<abort, held, remembered, unsettled, lost, faults>>

\* The save fails: the caller gets an error, and the job stays in its lane
\* in memory without a thread.
ReserveUnsaved(j, r) ==
  /\ Admitted(j, r)
  /\ Fault
  /\ \E m \in TrimHistory(WithJob(mem, j, r)) : mem' = m
  /\ UNCHANGED <<disk, abort, thread, held, remembered, unsettled, lost>>

StartReorg(j, r) == r.kind = "reorg" /\ ReserveActionJob(j, r)
StartRewind(j, r) == r.kind = "rewind" /\ ReserveActionJob(j, r)
StartMine(j, r) == r.kind = "mine" /\ ReserveActionJob(j, r)
StartSpamBurst(j, r) == r.kind = "spam_burst" /\ ReserveActionJob(j, r)
StartSpamPrepare(j, r) == r.kind = "spam_prepare" /\ ReserveActionJob(j, r)
StartPartition(j, r) == r.kind = "partition" /\ ReserveActionJob(j, r)
StartDegrade(j, r) == r.kind = "degrade" /\ ReserveActionJob(j, r)

Start(j, r) ==
  \/ StartReorg(j, r) \/ StartRewind(j, r) \/ StartMine(j, r)
  \/ StartSpamBurst(j, r) \/ StartSpamPrepare(j, r)
  \/ StartPartition(j, r) \/ StartDegrade(j, r)
  \/ ReserveUnsaved(j, r)

\* Mutant of FinishJob: the lane is freed even when the cleanup failed.
FinishJobFreesLane(j, state, cleanup) ==
  LET done == [mem EXCEPT !.job[j] =
                [@ EXCEPT !.state = state, !.cleanup = cleanup]]
  IN /\ SaveBestEffort(ClearActiveLane(done, j))
     /\ abort' = abort \ {j}
     /\ thread' = [thread EXCEPT ![j] =
          IF cleanup = "failed" THEN Recovering(done, j) ELSE Idle]

\* finish_job: the lane is cleared unless the cleanup failed, which starts
\* the recovery loop instead.
FinishJob(j, state, cleanup) ==
  LET done == [mem EXCEPT !.job[j] =
                [@ EXCEPT !.state = state, !.cleanup = cleanup]]
  IN /\ SaveBestEffort(IF cleanup = "failed" THEN done
                       ELSE ClearActiveLane(done, j))
     /\ abort' = abort \ {j}
     /\ thread' = [thread EXCEPT ![j] =
          IF cleanup = "failed" THEN Recovering(done, j) ELSE Idle]

\* The "created" event cannot be stored, or the thread cannot be started.
FailBeforeThread(j) ==
  /\ At(j, "new") /\ mem.job[j].state \in {"starting", "abort_requested"}
  /\ faults > 0
  /\ FinishJob(j, "failed", "succeeded")
  /\ UNCHANGED <<held, remembered, unsettled, lost>>

-----------------------------------------------------------------------------
\* The executor.

\* set_running unless the flag is up already, which ends the job at once.
Begin(j) ==
  /\ At(j, "new")
  /\ \/ /\ j \in abort
        /\ FinishJob(j, "aborted", "succeeded")
     \/ /\ j \notin abort
        /\ SaveBestEffort([mem EXCEPT !.job[j].state =
             IF @ = "abort_requested" THEN @ ELSE "running"])
        /\ GoTo(j, "intend")
        /\ UNCHANGED abort
  /\ UNCHANGED <<held, remembered, unsettled, lost>>

\* finish_failed_before_mutation cleans every recorded intent, answered or not.
FailBeforeMutation(j, m) ==
  StartCleanup(j, m.job[j].intents, "unstarted")

\* persist_lease_intent.
PersistLeaseIntent(j) ==
  LET m == [mem EXCEPT !.job[j].intents = @ \cup {LeaseOf(j)}]
  IN /\ At(j, "intend")
     /\ mem' = m
     /\ \/ disk' = m /\ GoTo(j, "call") /\ NoFault
        \/ UNCHANGED disk /\ FailBeforeMutation(j, m) /\ Fault
     /\ UNCHANGED <<abort, held, remembered, unsettled, lost>>

\* A check of the executor before its next lease fails: partition validates
\* that the nodes agree, before the first lease and before the third.
ValidationFails(j) ==
  /\ At(j, "intend") /\ Kind(j) = "partition" /\ thread[j].i \in {1, 3}
  /\ FailBeforeMutation(j, mem)
  /\ Fault
  /\ UNCHANGED <<mem, disk, abort, held, remembered, unsettled, lost>>

\* Acquiring worker leases is never refused; an agent has one lease.
MayAcquire(j, c) == c \in Nodes => held[c] \subseteq {j}

\* The component grants the lease; a partition cuts its node off.
AcquireTakesEffect(j) ==
  /\ At(j, "call") /\ MayAcquire(j, LeaseOf(j))
  /\ held' = [held EXCEPT ![LeaseOf(j)] = @ \cup {j}]
  /\ unsettled' = IF LeaseOf(j) \in Nodes /\ PlanOf(j).mutates
                  THEN unsettled \cup {j} ELSE unsettled
  /\ GoTo(j, "answer")
  /\ UNCHANGED <<mem, disk, abort, remembered, lost, faults>>

AcquireAnswered(j) ==
  /\ At(j, "answer")
  /\ thread' = [thread EXCEPT ![j].at = "granted", ![j].i = @ + 1]
  /\ UNCHANGED <<mem, disk, abort, held, remembered, unsettled, lost, faults>>

\* The call fails, or its answer is lost after it took effect.
AcquireFails(j) ==
  /\ thread[j].at \in {"call", "answer"}
  /\ FailBeforeMutation(j, mem)
  /\ Fault
  /\ UNCHANGED <<mem, disk, abort, held, remembered, unsettled, lost>>

\* The abort check after a grant, the next lease, or the execution.
Proceed(j) ==
  /\ At(j, "granted")
  /\ IF thread[j].i - 1 \in PlanOf(j).checks /\ j \in abort
     THEN StartCleanup(j, Granted(j), "aborted")
     ELSE GoTo(j, IF thread[j].i <= Len(PlanOf(j).leases)
                  THEN "intend" ELSE "execute")
  /\ UNCHANGED <<mem, disk, abort, held, remembered, unsettled, lost, faults>>

\* The renewal thread cannot be started.
RenewerFails(j) ==
  /\ At(j, "execute")
  /\ FailBeforeMutation(j, mem)
  /\ Fault
  /\ UNCHANGED <<mem, disk, abort, held, remembered, unsettled, lost>>

\* The renewer of reorg and rewind renews by lease identity and so notices a
\* lease that is gone; the others renew the leases the worker reports.
RenewsReported(j) == Kind(j) \notin {"reorg", "rewind"}

\* A failed renewal raises the abort flag.
RenewalFails(j) ==
  /\ thread[j].at \in {"execute", "mutating"} /\ j \notin abort
  /\ \/ /\ ~RenewsReported(j)
        /\ \E c \in Granted(j) : j \notin held[c]
        /\ NoFault
     \/ Fault
  /\ abort' = abort \cup {j}
  /\ UNCHANGED <<mem, disk, thread, held, remembered, unsettled, lost>>

\* Before the first invalidation: rewind must save its context, reorg tries
\* to (record_reorg_recovery logs a failure).
RecordRecovery(j) ==
  LET m == [mem EXCEPT !.job[j].context = "known"]
  IN \/ /\ SaveBestEffort(m)
        /\ Kind(j) = "rewind" => disk' = m
        /\ GoTo(j, "mutating")
        /\ unsettled' = unsettled \cup {j}
     \/ /\ Kind(j) = "rewind"
        /\ mem' = m /\ UNCHANGED <<disk, unsettled>> /\ Fault
        /\ StartCleanup(j, Granted(j), "error")

BeginMutation(j) ==
  /\ At(j, "execute") /\ Kind(j) \in {"reorg", "rewind"} /\ j \notin abort
  /\ RecordRecovery(j)
  /\ UNCHANGED <<abort, held, remembered, lost>>

\* execute_partition has mined its branches: it releases its network lease.
HealPartition(j) ==
  /\ At(j, "execute") /\ Kind(j) = "partition"
  /\ held' = [held EXCEPT ![Node(j)] = @ \ {j}]
  /\ GoTo(j, "mutating")
  /\ UNCHANGED <<mem, disk, abort, remembered, unsettled, lost, faults>>

\* The execution ends well: the nodes were witnessed on one tip.  An executor
\* that sees the flag before it mutates returns early.
ExecutionEnds(j) ==
  /\ \/ At(j, "mutating")
     \/ At(j, "execute") /\ ~PlanOf(j).mutates
     \/ At(j, "execute") /\ Kind(j) \in {"reorg", "rewind"} /\ j \in abort
  /\ unsettled' = unsettled \ {j}
  /\ \E outcome \in {"ok"} \cup (IF Kind(j) = "rewind" /\ j \in abort
                                 THEN {"aborted"} ELSE {}) :
       StartCleanup(j, Granted(j), outcome)
  /\ UNCHANGED <<mem, disk, abort, held, remembered, lost, faults>>

\* The execution fails.  reorg and rewind first bring the nodes back to one
\* tip, however long it takes; a partition, which also gives up when it sees
\* the flag, is left to the cleanup.
ExecutionFails(j) ==
  /\ thread[j].at \in {"execute", "mutating"} /\ Kind(j) # "degrade"
  /\ unsettled' = IF Kind(j) = "partition" THEN unsettled ELSE unsettled \ {j}
  /\ StartCleanup(j, Granted(j), "error")
  /\ \/ Fault
     \/ Kind(j) = "partition" /\ j \in abort /\ NoFault
  /\ UNCHANGED <<mem, disk, abort, held, remembered, lost>>

\* catch_unwind: a panicking executor leaves everything to the recovery.
HandleExecutorPanic(j) ==
  /\ thread[j].at \notin {"idle", "recover"} /\ faults > 0
  /\ FinishJob(j, "failed", "failed")
  /\ UNCHANGED <<held, remembered, unsettled, lost>>

-----------------------------------------------------------------------------
\* Cleanup and recovery.

\* set_cleanup_running and the last step, finish_job.
FinishCleanup(j) ==
  /\ At(j, "cleanup") /\ thread[j].todo = {}
  /\ FinishJob(j, FinalState(Kind(j), thread[j].outcome, j \in abort),
               IF thread[j].errors THEN "failed" ELSE "succeeded")
  /\ UNCHANGED <<held, remembered, unsettled, lost>>

Working(j) == thread[j].at \in {"cleanup", "recover"}

StepDone(j, s) == thread' = [thread EXCEPT ![j].todo = @ \ {s}]

\* Mutant of StepFails: a recovery that fails is not tried again.
StepFailsForGood(j, s) ==
  /\ Working(j) /\ IsNext(j, s)
  /\ thread' = [thread EXCEPT ![j] =
       IF @.at = "cleanup"
       THEN [@ EXCEPT !.todo = thread[j].todo \ {s}, !.errors = TRUE]
       ELSE Idle]

\* A cleanup notes the error and goes on; a recovery starts over.
StepFails(j, s) ==
  /\ Working(j) /\ IsNext(j, s)
  /\ thread' = [thread EXCEPT ![j] =
       IF @.at = "cleanup"
       THEN [@ EXCEPT !.todo = thread[j].todo \ {s}, !.errors = TRUE]
       ELSE Recovering(mem, j)]

\* The network lease is released if it is still this job's.
ReleaseNetwork(j) ==
  /\ Working(j) /\ IsNext(j, "network")
  /\ held' = [c \in Components |->
       IF c \in Nodes THEN held[c] \ {j} ELSE held[c]]
  /\ StepDone(j, "network")
  /\ UNCHANGED <<mem, disk, abort, remembered, unsettled, lost, faults>>

\* reconnect_target and wait_for_convergence.
Heal(j) ==
  /\ Working(j) /\ IsNext(j, "heal") /\ j \notin held[Node(j)]
  /\ unsettled' = IF Kind(j) = "partition" THEN unsettled \ {j} ELSE unsettled
  /\ StepDone(j, "heal")
  /\ UNCHANGED <<mem, disk, abort, held, remembered, lost, faults>>

\* Convergence cannot be witnessed while the node is still cut off.
HealFails(j) ==
  /\ StepFails(j, "heal")
  /\ \/ j \in held[Node(j)] /\ NoFault
     \/ Fault
  /\ UNCHANGED <<mem, disk, abort, held, remembered, unsettled, lost>>

Forget(w, j) == IF remembered[w][j] = 0 THEN 0 ELSE remembered[w][j] - 1

LeaseStep(w) == IF w = "spam" THEN "lease_spam" ELSE "lease_mining"

\* ensure_recovery_leases: renew the job's lease, or take it again, with a
\* request the worker has not seen before.
EnsureRecoveryLease(j, w) ==
  LET m == [mem EXCEPT !.job[j].intents = @ \cup {w}]
  IN /\ At(j, "recover") /\ IsNext(j, LeaseStep(w))
     /\ IF j \in held[w] THEN UNCHANGED <<mem, disk>>
                         ELSE mem' = m /\ disk' = m
     /\ held' = [held EXCEPT ![w] = @ \cup {j}]
     /\ remembered' = [remembered EXCEPT ![w][j] = Forget(w, j)]
     /\ StepDone(j, LeaseStep(w))
     /\ UNCHANGED <<abort, unsettled, lost, faults>>

\* Reorg and rewind recovery.  A reorg whose block is not known can only
\* wait for the tips to agree.
RecoverChain(j) ==
  /\ At(j, "recover") /\ IsNext(j, "chain")
  /\ j \in unsettled => mem.job[j].context = "known"
  /\ unsettled' = unsettled \ {j}
  /\ StepDone(j, "chain")
  /\ UNCHANGED <<mem, disk, abort, held, remembered, lost, faults>>

\* cleanup_leases releases with a request of its own.
CleanupRelease(j, w) ==
  /\ At(j, "cleanup") /\ IsNext(j, w)
  /\ held' = [held EXCEPT ![w] = @ \ {j}]
  /\ StepDone(j, w)
  /\ UNCHANGED <<mem, disk, abort, remembered, unsettled, lost, faults>>

\* recover_worker_leases repeats one request identity in every round: while
\* the worker remembers it as completed, it is answered and does nothing.
RecoveryRelease(j, w) ==
  /\ At(j, "recover") /\ IsNext(j, w)
  /\ IF j \in held[w] /\ remembered[w][j] = 0
     THEN /\ held' = [held EXCEPT ![w] = @ \ {j}]
          /\ remembered' = [remembered EXCEPT ![w][j] = RequestLimit]
     ELSE UNCHANGED <<held, remembered>>
  /\ StepDone(j, w)
  /\ UNCHANGED <<mem, disk, abort, unsettled, lost, faults>>

\* Another step fails with an error: a status or a command.
CallFails(j, s) ==
  /\ s # "heal" /\ Fault
  /\ StepFails(j, s)
  /\ UNCHANGED <<mem, disk, abort, held, remembered, unsettled, lost>>

\* "worker leases are still present": the next round starts.
VerifyFails(j) ==
  /\ At(j, "recover") /\ IsNext(j, "verify")
  /\ \E w \in Workers : j \in held[w]
  /\ thread' = [thread EXCEPT ![j] = Recovering(mem, j)]
  /\ UNCHANGED <<mem, disk, abort, held, remembered, unsettled, lost, faults>>

VerifyLeases(j) == \A w \in Workers : j \notin held[w]

RecoveryComplete(j) ==
  /\ At(j, "recover") /\ IsNext(j, "verify") /\ VerifyLeases(j)
  /\ SaveBestEffort(ClearActiveLane(
       [mem EXCEPT !.job[j].cleanup = "succeeded"], j))
  /\ thread' = [thread EXCEPT ![j] = Idle]
  /\ UNCHANGED <<abort, held, remembered, unsettled, lost>>

-----------------------------------------------------------------------------
\* Clients, time and failures.

Abort(j) ==
  /\ mem.job[j].state \in {"starting", "running"}
  /\ SaveBestEffort([mem EXCEPT !.job[j].state = "abort_requested"])
  /\ abort' = IF At(j, "idle") THEN abort ELSE abort \cup {j}
  /\ UNCHANGED <<thread, held, remembered, unsettled, lost>>

\* A lease is not renewed in time.
LeaseExpires(j, c) ==
  /\ j \in held[c] /\ Fault
  /\ held' = [held EXCEPT ![c] = @ \ {j}]
  /\ lost' = lost \cup {j}
  /\ UNCHANGED <<mem, disk, abort, thread, remembered, unsettled>>

\* A worker process starts anew, without leases or history.
WorkerRestarts(w) ==
  /\ Fault
  /\ held' = [held EXCEPT ![w] = {}]
  /\ remembered' = [remembered EXCEPT ![w] = [j \in Jobs |-> 0]]
  /\ lost' = lost \cup held[w]
  /\ UNCHANGED <<mem, disk, abort, thread, unsettled>>

\* The control plane ends and opens its job table again.
Restart ==
  LET m == Interrupted(disk)
  IN /\ Fault
     /\ mem' = m /\ disk' = m
     /\ thread' = [j \in Jobs |->
          IF j \in Active(m) THEN Recovering(m, j) ELSE Idle]
     /\ abort' = {}
     /\ UNCHANGED <<held, remembered, unsettled, lost>>

Init ==
  /\ mem = [lane |-> None, degraded |-> [n \in Nodes |-> None],
            job |-> [j \in Jobs |-> NoJob]]
  /\ disk = mem
  /\ abort = {}
  /\ thread = [j \in Jobs |-> Idle]
  /\ held = [c \in Components |-> {}]
  /\ remembered = [w \in Workers |-> [j \in Jobs |-> 0]]
  /\ unsettled = {}
  /\ lost = {}
  /\ faults = MaxFaults

\* The steps a thread takes of its own accord.
Execute(j) ==
  \/ Begin(j) \/ PersistLeaseIntent(j) \/ AcquireTakesEffect(j)
  \/ AcquireAnswered(j) \/ Proceed(j) \/ BeginMutation(j)
  \/ HealPartition(j) \/ ExecutionEnds(j) \/ FinishCleanup(j)

Recover(j) ==
  \/ ReleaseNetwork(j) \/ Heal(j) \/ HealFails(j) \/ RecoverChain(j)
  \/ \E w \in Workers : \/ EnsureRecoveryLease(j, w)
                        \/ CleanupRelease(j, w) \/ RecoveryRelease(j, w)
  \/ VerifyFails(j) \/ RecoveryComplete(j)

Fail(j) ==
  \/ FailBeforeThread(j) \/ ValidationFails(j) \/ AcquireFails(j)
  \/ RenewerFails(j) \/ RenewalFails(j) \/ ExecutionFails(j)
  \/ HandleExecutorPanic(j)
  \/ \E s \in Steps : CallFails(j, s)
  \/ \E c \in Components : LeaseExpires(j, c)

Next ==
  \/ \E j \in Jobs, r \in Requests : Start(j, r)
  \/ \E j \in Jobs : Abort(j) \/ Execute(j) \/ Recover(j) \/ Fail(j)
  \/ \E w \in Workers : WorkerRestarts(w)
  \/ Restart

\* Threads and RPC calls make progress; clients and failures need not.
Fairness == \A j \in Jobs : WF_vars(Execute(j)) /\ WF_vars(Recover(j))

Spec == Init /\ [][Next]_vars
FairSpec == Spec /\ Fairness

-----------------------------------------------------------------------------
(***************************************************************************)
(* Properties.                                                             *)
(***************************************************************************)

JobRecords ==
  [kind : Kinds \cup {"none"}, node : Nodes \cup {None}, state : JobStates,
   cleanup : {"pending", "running", "succeeded", "failed"},
   intents : SUBSET Components, context : {"none", "possible", "known"}]

Tables == [lane : Jobs \cup {None}, degraded : [Nodes -> Jobs \cup {None}],
           job : [Jobs -> JobRecords]]

Threads ==
  [at : {"idle", "new", "intend", "call", "answer", "granted", "execute",
         "mutating", "cleanup", "recover"},
   i : 1..4, todo : SUBSET Steps,
   outcome : {"ok", "error", "unstarted", "aborted"}, errors : BOOLEAN]

\* Types of the manager's tables, threads and of the components' leases.
TypeOK ==
  /\ mem \in Tables /\ disk \in Tables
  /\ abort \subseteq Jobs
  /\ thread \in [Jobs -> Threads]
  /\ held \in [Components -> SUBSET Jobs]
  /\ remembered \in [Workers -> [Jobs -> 0..RequestLimit]]
  /\ unsettled \subseteq Jobs /\ lost \subseteq Jobs
  /\ faults \in 0..MaxFaults

\* Whatever a component holds for a job can be given back after a restart:
\* the saved table has the job in a lane and the lease among its intents,
\* with saves, calls and answers lost anywhere (persist_lease_intent before
\* the call, finish_job and the recovery loop freeing the lane after it).
HeldLeasesRecoverable ==
  \A c \in Components : \A j \in held[c] :
    j \in Active(disk) /\ c \in disk.job[j].intents

\* A partition, a reorg or a rewind that may have left the nodes on different
\* tips is in the saved table, with what its recovery goes by: the network
\* lease, or a recovery context (of a reorg, that one may exist).
UnsettledChainRecorded ==
  \A j \in unsettled :
    LET rec == disk.job[j]
    IN /\ j \in Active(disk)
       /\ CASE rec.kind = "partition" -> rec.node \in rec.intents
            [] rec.kind = "rewind" -> rec.context = "known"
            [] OTHER -> rec.kind = "reorg" /\ rec.context # "none"

\* While the nodes may be on different tips because of a reorg or a rewind,
\* both workers are held by it, through failures, panics and restarts, unless
\* a worker dropped the lease by itself ("It holds them through a required
\* node1 convergence witness", docs/REORGS.md).
LeasesCoverMutation ==
  \A j \in unsettled \ lost :
    Kind(j) \in {"reorg", "rewind"} => \A w \in Workers : j \in held[w]

\* The invariant of the lanes run: the types and the hold on both workers.
LaneInvariant == TypeOK /\ LeasesCoverMutation

\* The invariant a restart relies on: what is out there is in the saved table.
RecoveryInvariant == HeldLeasesRecoverable /\ UnsettledChainRecorded

Footprint == unsettled \cup UNION {held[c] : c \in Components}

\* Jobs that touch the system at the same time are a degradation and a mine
\* job, or degradations of different nodes, whatever was saved when
\* (jobs_are_compatible over the lanes, which a restart reads back).
ConflictingJobsNeverOverlap ==
  \A j \in Footprint : \A k \in Footprint \ {j} :
    \/ {Kind(j), Kind(k)} = {"mine", "degrade"}
    \/ Kind(j) = "degrade" /\ Kind(k) = "degrade" /\ Node(j) # Node(k)

\* A saved outcome is not taken back by a restart or by the recovery of the
\* job's resources, which report on the cleanup only.
DurableOutcomeIsFinal ==
  [][\A j \in Jobs : disk.job[j].state \in Terminal =>
       disk'.job[j].state \in {disk.job[j].state, "trimmed"}]_vars

\* A reorg interrupted while its block was neither saved nor in memory.
BlockUnknown(j) == j \in unsettled /\ mem.job[j].context = "possible"

\* A worker holds a lease again whose release by the recovery it remembers as
\* completed: releasing it again does nothing.
ReleaseSpent(j) == \E w \in Workers : j \in held[w] /\ remembered[w][j] > 0

\* Every job that has a thread leaves its lane once failures stop: threads
\* end, and cleanups that failed are recovered.  The two cases in which it may
\* not are a reorg whose block is unknown, which has to wait for the operator,
\* and a lease taken again after its recovery release (RecoveryEnds).
EveryJobLeavesItsLane ==
  \A j \in Jobs :
    (j \in Active(mem) /\ ~At(j, "idle"))
      ~> (j \notin Active(mem) \/ BlockUnknown(j) \/ ReleaseSpent(j))

\* Does not hold (see README, Disagreements).
\* After a restart the control plane "heals each job's impairment, and
\* releases only that job's worker leases" (docs/PARTITIONS.md): a recovery
\* comes to its end once failures stop.  One that fails between the two
\* workers takes the first lease again and repeats a release the worker has
\* already answered.
RecoveryEnds ==
  \A j \in Jobs : At(j, "recover") ~> (~At(j, "recover") \/ BlockUnknown(j))

\* Does not hold (see README, Disagreements).
\* "Network healing is first and is witnessed before either worker can
\* resume" (jobs.rs, cleanup_leases): a partition's workers are held until
\* the nodes agree again.
HealedBeforeResume ==
  \A j \in unsettled \ lost :
    Kind(j) = "partition" => \A w \in Workers : j \in held[w]
=============================================================================
