------------------------------ MODULE Scenario ------------------------------
(***************************************************************************)
(* A scenario job: the engine runs the steps of a script one after the     *)
(* other, each step takes and gives back leases of the workers and of a    *)
(* network agent, a second thread renews the leases the first one holds,   *)
(* clients abort the job or release its checkpoints, and the settings that *)
(* steps have changed are restored at the end.  Cleanup and the recovery   *)
(* loop are those of JobManager, for one job and with the order of their   *)
(* steps kept; what a reorg does to the nodes is in Reorg, a faucet        *)
(* transfer in Faucet, a settings update in ConfigApply.                   *)
(***************************************************************************)
EXTENDS Naturals, FiniteSets, Sequences

CONSTANTS
  Scripts,    \* the scenarios that are run: records [steps, restore]
  MaxFaults   \* bound: failures injected in one behaviour

Workers == {"spam", "mining"}
Components == Workers \cup {"network"}
StepTypes == {"wait", "assert", "mine", "spam_burst", "pause_mining",
              "resume_mining", "reorg", "partition", "degrade", "faucet",
              "set_config", "checkpoint", "milestone"}
Terminal == {"succeeded", "failed", "aborted", "interrupted"}

ASSUME ScenarioConstants ==
  /\ \A s \in Scripts : /\ s.steps \in Seq(StepTypes) /\ Len(s.steps) > 0
                        /\ s.restore \in BOOLEAN
  /\ MaxFaults \in Nat

VARIABLES
  script,    \* the scenario that is submitted
  mem,       \* the job, its lane and its settings backup in memory
  disk,      \* the same in the index file
  thread,    \* the executor, or the recovery loop
  rt,        \* ScenarioRuntime: the leases the steps hold
  renewer,   \* OwnedLeaseRenewer
  held,      \* the leases that workers and agent have granted
  abort,     \* the abort flag
  split,     \* what has set the nodes apart: "no", "reorg" or "partition"
  untold,    \* the chain has changed and spam has not been told
  lost,      \* a component has dropped a lease by itself
  desired,   \* the desired settings
  faults     \* failures still to come

vars == <<script, mem, disk, thread, rt, renewer, held, abort, split, untold,
          lost, desired, faults>>

-----------------------------------------------------------------------------
\* What each type of step does, as the operations it consists of.

PauseMining == <<"take_mining", "mark_paused">>
ResumeMining == <<"free_mining", "mark_resumed">>
RunReorg == <<"take_spam", "take_mining", "prepare", "mutate", "settle",
              "mark_safe", "free_spam", "free_mining">>
RunPartition == <<"take_spam", "take_mining", "impair", "split", "heal",
                  "converge", "forget", "free_spam", "free_mining">>
Degrade == <<"impair", "observe", "heal", "forget">>
FaucetStep == <<"preflight", "take_mining", "transfer", "free_mining",
                "confirm">>
SetConfig == <<"apply", "fund">>
ReachCheckpoint == <<"reach", "hold">>

Program(type) ==
  CASE type = "pause_mining" -> PauseMining
    [] type = "resume_mining" -> ResumeMining
    [] type = "reorg" -> RunReorg
    [] type = "partition" -> RunPartition
    [] type = "degrade" -> Degrade
    [] type = "faucet" -> FaucetStep
    [] type = "set_config" -> SetConfig
    [] type = "checkpoint" -> ReachCheckpoint
    [] type = "milestone" -> <<"reach">>
    [] type = "spam_burst" -> <<"burst">>
    [] OTHER -> <<type>>

\* Mutant of Tolerated: a partition goes on when the nodes do not converge.
ToleratedConvergence(type) ==
  CASE type = "reorg" -> {"settle", "free_spam", "free_mining"}
    [] type = "partition" -> {"converge", "free_spam", "free_mining"}
    [] type = "degrade" -> {"observe"}
    [] type = "faucet" -> {"transfer"}
    [] OTHER -> {}

\* Operations after whose failure the step goes on, to give back its leases.
Tolerated(type) ==
  CASE type = "reorg" -> {"settle", "free_spam", "free_mining"}
    [] type = "partition" -> {"free_spam", "free_mining"}
    [] type = "degrade" -> {"observe"}
    [] type = "faucet" -> {"transfer"}
    [] OTHER -> {}

-----------------------------------------------------------------------------
\* State.

NoRuntime == [spam |-> 0, mining |-> 0, network |-> 0, seq |-> 0,
              paused |-> FALSE, changed |-> FALSE]

NoThread == [at |-> "idle", step |-> 1, op |-> 1, acquired |-> {},
             failed |-> FALSE, hold |-> "look", outcome |-> "ok",
             todo |-> {}, errors |-> FALSE]

NoBackup == [phase |-> "none", value |-> "initial"]

\* Checkpoint names are unique: each step of that type has its record.
NoJob == [active |-> FALSE, state |-> "none", cleanup |-> "pending",
          intents |-> {}, context |-> "none", backup |-> NoBackup,
          checkpoints |-> [k \in 1..Len(script.steps) |-> "pending"]]

Fault == faults > 0 /\ faults' = faults - 1
NoFault == UNCHANGED faults

\* A save whose failure is only logged.
SaveBestEffort(m) ==
  /\ mem' = m
  /\ \/ disk' = m /\ NoFault
     \/ UNCHANGED disk /\ Fault

StepType == script.steps[thread.step]
Ops == Program(StepType)
Op(o) == thread.at = "step" /\ Ops[thread.op] = o

\* Memory is not changed while the executor has the lock between looking at
\* its checkpoint and waiting for the condition variable.
Unlocked == thread.hold # "locked"

EndStep(failed) ==
  [thread EXCEPT !.at = "boundary", !.op = 1, !.acquired = {},
                 !.failed = failed, !.hold = "look"]

NextOp ==
  IF thread.op = Len(Ops) THEN EndStep(thread.failed)
  ELSE [thread EXCEPT !.op = @ + 1]

FailOp ==
  IF Ops[thread.op] \in Tolerated(StepType)
  THEN IF thread.op = Len(Ops) THEN EndStep(TRUE)
       ELSE [thread EXCEPT !.op = @ + 1, !.failed = TRUE]
  ELSE EndStep(TRUE)

-----------------------------------------------------------------------------
\* Starting the job.

\* The backup is captured under the apply lock, together with the admission.
NewJob ==
  [NoJob EXCEPT !.active = TRUE, !.state = "starting",
     !.backup = IF script.restore THEN [phase |-> "captured", value |-> desired]
                ELSE NoBackup]

StartScenario ==
  /\ mem.state = "none"
  /\ mem' = NewJob
  /\ \/ disk' = mem' /\ thread' = [NoThread EXCEPT !.at = "new"] /\ NoFault
     \/ UNCHANGED <<disk, thread>> /\ Fault
  /\ UNCHANGED <<script, rt, renewer, held, abort, split, untold, lost,
                 desired>>

RecoverySteps(m) ==
  {"network", "spam", "mining", "verify"}
    \cup (IF \E l \in m.intents : l.c = "network" THEN {"converge"} ELSE {})
    \cup (IF m.context # "none"
          THEN {"lease_spam", "lease_mining", "chain"} ELSE {})
    \cup (IF m.backup.phase \in {"captured", "running"}
          THEN {"restore", "record"} ELSE {})

Recovering(m) ==
  [NoThread EXCEPT !.at = "recover", !.todo = RecoverySteps(m)]

\* finish_job.
FinishJob(state, cleanup) ==
  LET done == [mem EXCEPT !.state = state, !.cleanup = cleanup,
                          !.active = cleanup = "failed"]
  IN /\ SaveBestEffort(done)
     /\ thread' = IF cleanup = "failed" THEN Recovering(done) ELSE NoThread
     /\ abort' = FALSE

FailBeforeThread ==
  /\ thread.at = "new" /\ mem.state \in {"starting", "abort_requested"}
  /\ faults > 0
  /\ FinishJob("failed", "succeeded")
  /\ UNCHANGED <<script, rt, renewer, held, split, untold, lost, desired>>

\* run_scenario_job: an abort this early ends the job at once.
Begin ==
  /\ thread.at = "new"
  /\ \/ abort /\ FinishJob("aborted", "succeeded")
     \/ /\ ~abort
        /\ SaveBestEffort([mem EXCEPT !.state =
             IF @ = "abort_requested" THEN @ ELSE "running"])
        /\ thread' = [thread EXCEPT !.at = "spawn"]
        /\ UNCHANGED abort
  /\ UNCHANGED <<script, rt, renewer, held, split, untold, lost, desired>>

\* OwnedLeaseRenewer::start_for_scenario.
StartRenewer ==
  /\ thread.at = "spawn"
  /\ \/ /\ renewer' = [renewer EXCEPT !.at = "parked"]
        /\ thread' = [thread EXCEPT !.at = "bootstrap"]
        /\ UNCHANGED <<mem, disk, abort, faults>>
     \/ faults > 0 /\ FinishJob("failed", "succeeded") /\ UNCHANGED renewer
  /\ UNCHANGED <<script, rt, held, split, untold, lost, desired>>

\* The bootstrap height is waited for and the burst engines are funded.
Bootstrap ==
  /\ thread.at = "bootstrap"
  /\ \/ /\ thread' = [thread EXCEPT !.at = IF abort THEN "stop" ELSE "step",
                                    !.outcome = IF abort THEN "aborted" ELSE @]
        /\ NoFault
     \/ thread' = [thread EXCEPT !.at = "stop", !.outcome = "error"] /\ Fault
  /\ UNCHANGED <<script, mem, disk, rt, renewer, held, abort, split, untold,
                 lost, desired>>

\* engine::run between two steps; record_scenario_progress saves.
Boundary ==
  LET outcome == IF thread.failed THEN "error"
                 ELSE IF abort THEN "aborted" ELSE "ok"
      last == thread.step = Len(script.steps)
  IN /\ thread.at = "boundary"
     /\ SaveBestEffort([mem EXCEPT !.state =
          IF @ = "abort_requested" THEN @ ELSE "running"])
     /\ thread' = IF outcome = "ok" /\ ~last
                  THEN [thread EXCEPT !.at = "step", !.step = @ + 1]
                  ELSE [thread EXCEPT !.at = "summary", !.outcome = outcome]
     /\ UNCHANGED <<script, rt, renewer, held, abort, split, untold, lost,
                    desired>>

\* live_summary: without it a success is an error.
Summary ==
  /\ thread.at = "summary"
  /\ \/ thread' = [thread EXCEPT !.at = "stop"] /\ NoFault
     \/ /\ thread' = [thread EXCEPT !.at = "stop",
                        !.outcome = IF @ = "ok" THEN "error" ELSE @]
        /\ Fault
  /\ UNCHANGED <<script, mem, disk, rt, renewer, held, abort, split, untold,
                 lost, desired>>

-----------------------------------------------------------------------------
\* Operations that hold nothing.

Passes == thread' = NextOp /\ NoFault
Fails == thread' = FailOp /\ Fault

Elsewhere == UNCHANGED <<script, mem, disk, rt, renewer, held, abort, split,
                         untold, lost, desired>>

\* wait_until: the condition is met, or an abort ends the wait, or it is over
\* time.
Wait == Op("wait") /\ (Passes \/ Fails) /\ Elsewhere

\* Assertions on heights, settings and components read and compare once.
Assert == Op("assert") /\ (Passes \/ Fails) /\ Elsewhere

Mine == Op("mine") /\ (Passes \/ Fails) /\ Elsewhere

\* A burst needs branches that were confirmed before, not a lease.
SpamBurst == Op("burst") /\ (Passes \/ Fails) /\ Elsewhere

\* wait_height, which a degradation and the bootstrap use.
WaitHeight == Op("observe") /\ (Passes \/ Fails) /\ Elsewhere

FaucetPreflight == Op("preflight") /\ (Passes \/ Fails) /\ Elsewhere

\* execute_faucet fails when it sees the flag.
Transfer ==
  /\ Op("transfer")
  /\ \/ Passes \/ Fails
     \/ abort /\ thread' = FailOp /\ NoFault
  /\ Elsewhere

WaitFaucetConfirmation == Op("confirm") /\ (Passes \/ Fails) /\ Elsewhere

BurstsAhead ==
  \E k \in (thread.step + 1)..Len(script.steps) : script.steps[k] = "spam_burst"

\* ensure_mining_can_confirm_burst_funding.
MiningConfirms == \A l \in held : l.c # "mining"

\* prepare_remaining_spam_bursts: the branches for the bursts ahead must be
\* confirmed.
PrepareBursts ==
  LET needed == BurstsAhead /\ ~abort
  IN /\ Op("fund")
     /\ \/ (needed => MiningConfirms) /\ Passes
        \/ needed /\ MiningConfirms /\ Fails
        \/ needed /\ ~MiningConfirms /\ thread' = FailOp /\ NoFault
     /\ Elsewhere

\* set_config; a failed apply has been rolled back.
Apply ==
  /\ Op("apply")
  /\ \/ desired' = "changed" /\ thread' = NextOp /\ NoFault
     \/ UNCHANGED desired /\ thread' = FailOp /\ Fault
  /\ UNCHANGED <<script, mem, disk, rt, renewer, held, abort, split, untold,
                 lost>>

-----------------------------------------------------------------------------
\* Leases.

Lease(c, id) == [c |-> c, id |-> id]

\* A fresh identity, the saved intent, the call, the handle.  The save can
\* fail, and so can the call, before or after it took effect.
Acquire(c) ==
  LET l == Lease(c, rt.seq + 1)
      m == [mem EXCEPT !.intents = @ \cup {l}]
  IN /\ mem' = m
     /\ \/ /\ disk' = m /\ held' = held \cup {l}
           /\ rt' = [rt EXCEPT !.seq = @ + 1, ![c] = l.id]
           /\ thread' = [NextOp EXCEPT !.acquired = @ \cup {c}]
           /\ NoFault
        \/ /\ disk' = m /\ held' \in {held, held \cup {l}}
           /\ rt' = [rt EXCEPT !.seq = @ + 1]
           /\ thread' = FailOp /\ Fault
        \/ /\ UNCHANGED <<disk, held>>
           /\ rt' = [rt EXCEPT !.seq = @ + 1]
           /\ thread' = FailOp /\ Fault

TakeOp(c) == CASE c = "spam" -> "take_spam" [] c = "mining" -> "take_mining"
               [] c = "network" -> "impair"

\* ensure_spam_lease, ensure_mining_lease: a handle that is there will do.
Take(c) ==
  /\ Op(TakeOp(c))
  /\ IF c \in Workers /\ rt[c] # 0
     THEN thread' = NextOp /\ UNCHANGED <<mem, disk, rt, held, faults>>
     ELSE Acquire(c)
  /\ UNCHANGED <<script, renewer, abort, split, untold, lost, desired>>

\* A step frees what it took itself; mining not while a step has paused it.
GivesBack(w) ==
  \/ StepType = "resume_mining"
  \/ w \in thread.acquired /\ (w = "mining" => ~rt.paused)

FreeOp(w) == CASE w = "spam" -> "free_spam" [] w = "mining" -> "free_mining"

Told(w) == IF w = "spam" /\ rt.changed THEN FALSE ELSE untold

\* release_component takes the handle, and puts it back if the call fails.
Free(w) ==
  LET l == Lease(w, rt[w])
  IN /\ Op(FreeOp(w))
     /\ \/ /\ ~GivesBack(w) \/ rt[w] = 0
           /\ thread' = NextOp
           /\ UNCHANGED <<rt, held, untold, faults>>
        \/ /\ GivesBack(w) /\ rt[w] # 0
           /\ \/ /\ held' = held \ {l} /\ rt' = [rt EXCEPT ![w] = 0]
                 /\ untold' = Told(w)
                 /\ thread' = NextOp /\ NoFault
              \/ /\ \/ UNCHANGED <<held, untold>>
                    \/ held' = held \ {l} /\ untold' = Told(w)
                 /\ UNCHANGED rt /\ thread' = FailOp /\ Fault
     /\ UNCHANGED <<script, mem, disk, renewer, abort, split, lost, desired>>

\* set_mining_paused sets its flag after the lease was taken or freed.
MarkPaused ==
  /\ \/ Op("mark_paused") /\ rt' = [rt EXCEPT !.paused = TRUE]
     \/ Op("mark_resumed") /\ rt' = [rt EXCEPT !.paused = FALSE]
  /\ thread' = NextOp
  /\ UNCHANGED <<script, mem, disk, renewer, held, abort, split, untold, lost,
                 desired, faults>>

-----------------------------------------------------------------------------
\* Reorg and partition steps.

\* prepare_scenario_reorg.
PrepareReorg ==
  LET m == [mem EXCEPT !.context = "possible"]
  IN /\ Op("prepare")
     /\ mem' = m
     /\ \/ disk' = m /\ thread' = NextOp /\ NoFault
        \/ UNCHANGED disk /\ thread' = FailOp /\ Fault
     /\ UNCHANGED <<script, rt, renewer, held, abort, split, untold, lost,
                    desired>>

\* The executor announces the block, which is saved if possible, and
\* invalidates it; before that an abort or an error leaves the chain alone.
MutateReorg ==
  /\ Op("mutate")
  /\ \/ /\ ~abort
        /\ SaveBestEffort([mem EXCEPT !.context = "known"])
        /\ split' = "reorg" /\ untold' = TRUE
        /\ thread' = NextOp
     \/ /\ abort /\ thread' = NextOp /\ NoFault
        /\ UNCHANGED <<mem, disk, split, untold>>
     \/ /\ thread' = [NextOp EXCEPT !.failed = TRUE] /\ Fault
        /\ UNCHANGED <<mem, disk, split, untold>>
  /\ UNCHANGED <<script, rt, renewer, held, abort, lost, desired>>

\* It returns once the nodes are safe, on its error path too.
SettleReorg ==
  /\ Op("settle")
  /\ split' = "no"
  /\ rt' = [rt EXCEPT !.changed = @ \/ split = "reorg"]
  /\ \/ thread' = NextOp /\ NoFault
     \/ split = "reorg" /\ thread' = FailOp /\ Fault
  /\ UNCHANGED <<script, mem, disk, renewer, held, abort, untold, lost,
                 desired>>

MarkReorgSafe ==
  /\ Op("mark_safe")
  /\ SaveBestEffort([mem EXCEPT !.context = "none"])
  /\ thread' = NextOp
  /\ UNCHANGED <<script, rt, renewer, held, abort, split, untold, lost,
                 desired>>

\* execute_partition: validation, isolation, which an abort ends with an
\* error, and the two branches.
SplitNetwork ==
  /\ Op("split")
  /\ \/ /\ split' = "partition" /\ untold' = TRUE
        /\ rt' = [rt EXCEPT !.changed = TRUE]
        /\ \/ thread' = NextOp /\ NoFault
           \/ thread' = FailOp /\ Fault
     \/ /\ thread' = FailOp /\ UNCHANGED <<split, untold, rt>>
        /\ \/ abort /\ NoFault
           \/ Fault
  /\ UNCHANGED <<script, mem, disk, renewer, held, abort, lost, desired>>

\* release_network_lease; the handle is still remembered.
HealNetwork ==
  /\ Op("heal")
  /\ \/ /\ held' = held \ {Lease("network", rt.network)}
        /\ thread' = NextOp /\ NoFault
     \/ /\ held' \in {held, held \ {Lease("network", rt.network)}}
        /\ thread' = FailOp /\ Fault
  /\ UNCHANGED <<script, mem, disk, rt, renewer, abort, split, untold, lost,
                 desired>>

\* reconnect_target and wait_for_convergence.
ConvergePartition ==
  /\ Op("converge")
  /\ \/ split' = "no" /\ thread' = NextOp /\ NoFault
     \/ UNCHANGED split /\ thread' = FailOp /\ Fault
  /\ UNCHANGED <<script, mem, disk, rt, renewer, held, abort, untold, lost,
                 desired>>

\* forget_network_lease.
Forget ==
  /\ Op("forget")
  /\ rt' = [rt EXCEPT !.network = 0]
  /\ thread' = NextOp
  /\ UNCHANGED <<script, mem, disk, renewer, held, abort, split, untold, lost,
                 desired, faults>>

-----------------------------------------------------------------------------
\* Checkpoints.

\* The state of the current step's checkpoint.
Checkpoint == mem.checkpoints[thread.step]

\* reach_scenario_checkpoint up to the wait: the summary, then the record.  A
\* milestone does not wait.
Reach ==
  LET m == [mem EXCEPT !.checkpoints[thread.step] = "reached",
              !.state = IF @ = "abort_requested" \/ StepType = "milestone" THEN @
                        ELSE "waiting"]
  IN /\ Op("reach")
     /\ \/ mem' = m /\ disk' = m /\ thread' = NextOp /\ NoFault
        \/ mem' \in {mem, m} /\ UNCHANGED disk /\ thread' = FailOp /\ Fault
     /\ UNCHANGED <<script, rt, renewer, held, abort, split, untold, lost,
                    desired>>

\* The loop looks at the release first, then at the flag.
Look ==
  /\ Op("hold") /\ thread.hold = "look"
  /\ thread' = IF Checkpoint = "released" \/ abort THEN NextOp
               ELSE [thread EXCEPT !.hold = "locked"]
  /\ UNCHANGED <<script, mem, disk, rt, renewer, held, abort, split, untold,
                 lost, desired, faults>>

Sleep ==
  /\ Op("hold") /\ thread.hold = "locked"
  /\ thread' = [thread EXCEPT !.hold = "asleep"]
  /\ UNCHANGED <<script, mem, disk, rt, renewer, held, abort, split, untold,
                 lost, desired, faults>>

\* Mutant of TimeOut: a waiting executor has no deadline.
TimeOutNever ==
  /\ Op("hold") /\ thread.hold = "asleep"
  /\ Checkpoint = "released" \/ abort
  /\ thread' = NextOp
  /\ UNCHANGED <<script, mem, disk, rt, renewer, held, abort, split, untold,
                 lost, desired, faults>>

\* The deadline wakes it up, to look once more before it gives up.
TimeOut ==
  /\ Op("hold") /\ thread.hold = "asleep"
  /\ IF Checkpoint = "released" \/ abort
     THEN thread' = NextOp /\ UNCHANGED <<mem, disk, faults>>
     ELSE /\ SaveBestEffort([mem EXCEPT !.checkpoints[thread.step] = "timed_out",
                                        !.state = "running"])
          /\ thread' = FailOp
  /\ UNCHANGED <<script, rt, renewer, held, abort, split, untold, lost,
                 desired>>

Notify ==
  thread' = IF thread.hold = "asleep" THEN [thread EXCEPT !.hold = "look"]
            ELSE thread

\* Mutant of MayRelease: a checkpoint that timed out can still be released.
MayReleaseLate(k) ==
  script.steps[k] = "checkpoint" /\ mem.checkpoints[k] \in {"reached", "timed_out"}

\* The job is in its lane and the checkpoint is one that pauses it.
MayRelease(k) ==
  /\ script.steps[k] = "checkpoint" /\ mem.checkpoints[k] = "reached"
  /\ mem.active /\ mem.state \notin Terminal

\* release_checkpoint with the generation of this occurrence; another one is
\* refused.  A save that fails also leaves out the notification.
ReleaseCheckpoint(k) ==
  LET m == [mem EXCEPT !.checkpoints[k] = "released",
              !.state = IF @ = "waiting" THEN "running" ELSE @]
  IN /\ Unlocked /\ MayRelease(k)
     /\ mem' = m
     /\ \/ disk' = m /\ Notify /\ NoFault
        \/ UNCHANGED <<disk, thread>> /\ Fault
     /\ UNCHANGED <<script, rt, renewer, held, abort, split, untold, lost,
                    desired>>

AbortJob ==
  LET m == [mem EXCEPT !.state = "abort_requested"]
  IN /\ Unlocked
     /\ mem.state \in {"starting", "running", "waiting"}
     /\ mem' = m
     /\ abort' = (thread.at # "idle")
     /\ \/ disk' = m /\ Notify /\ NoFault
        \/ UNCHANGED <<disk, thread>> /\ Fault
     /\ UNCHANGED <<script, rt, renewer, held, split, untold, lost, desired>>

-----------------------------------------------------------------------------
\* renew_scenario_runtime_leases: the handles are copied, then renewed by
\* identity, spam before mining before the network.

Handles == {Lease(c, rt[c]) : c \in {d \in Components : rt[d] # 0}}

CopyHandles ==
  /\ renewer.at = "parked" /\ Handles # {}
  /\ thread.at \in {"step", "boundary", "summary"}
  /\ renewer' = [at |-> "renewing", todo |-> Handles]
  /\ UNCHANGED <<script, mem, disk, thread, rt, held, abort, split, untold,
                 lost, desired, faults>>

RenewRank == [spam |-> 1, mining |-> 2, network |-> 3]

\* A lease that is not there, or a call that fails, ends the round, raises
\* the flag and wakes a waiting executor; this thread does not take the lock.
Renew ==
  \E l \in renewer.todo :
    /\ renewer.at = "renewing"
    /\ \A k \in renewer.todo : RenewRank[l.c] <= RenewRank[k.c]
    /\ \/ /\ l \in held
          /\ renewer' = IF renewer.todo = {l} THEN [at |-> "parked", todo |-> {}]
                        ELSE [renewer EXCEPT !.todo = @ \ {l}]
          /\ UNCHANGED <<thread, abort, faults>>
       \/ /\ renewer' = [at |-> "parked", todo |-> {}]
          /\ abort' = TRUE /\ Notify
          /\ \/ l \notin held /\ NoFault
             \/ l \in held /\ Fault
    /\ UNCHANGED <<script, mem, disk, rt, held, split, untold, lost, desired>>

-----------------------------------------------------------------------------
\* Cleanup and recovery.

CleanupSteps ==
  LET recorded == {l.c : l \in mem.intents}
  IN (recorded \cap Workers)
       \cup (IF "network" \in recorded THEN {"network", "converge"} ELSE {})
       \cup (IF mem.backup.phase \in {"captured", "running"}
             THEN {"restore", "record"} ELSE {})

\* The renewer is joined before the cleanup begins.
StopRenewer ==
  /\ thread.at = "stop" /\ renewer.at = "parked"
  /\ renewer' = [at |-> "off", todo |-> {}]
  /\ thread' = [thread EXCEPT !.at = "cleanup", !.todo = CleanupSteps]
  /\ UNCHANGED <<script, mem, disk, rt, held, abort, split, untold, lost,
                 desired, faults>>

StepRank ==
  [network |-> 1, converge |-> 2, lease_spam |-> 3, lease_mining |-> 4,
   chain |-> 5, spam |-> 6, mining |-> 7, verify |-> 8, restore |-> 9,
   record |-> 10]

IsNext(s) ==
  /\ thread.at \in {"cleanup", "recover"} /\ s \in thread.todo
  /\ \A t \in thread.todo : StepRank[s] <= StepRank[t]

StepDone(s) == thread' = [thread EXCEPT !.todo = @ \ {s}]

\* Mutant of StepFails: a cleanup does not report what has gone wrong.
StepFailsUnnoticed(s) ==
  thread' = IF thread.at = "cleanup" THEN [thread EXCEPT !.todo = @ \ {s}]
            ELSE Recovering(mem)

\* A cleanup notes the error and goes on; a recovery starts over.
StepFails(s) ==
  thread' = IF thread.at = "cleanup"
            THEN [thread EXCEPT !.errors = TRUE,
                    !.todo = @ \ (IF s = "restore" THEN {"restore", "record"}
                                  ELSE {s})]
            ELSE Recovering(mem)

CallFails(s) ==
  /\ IsNext(s) /\ Fault
  /\ StepFails(s)
  /\ UNCHANGED <<script, mem, disk, rt, renewer, held, abort, split, untold,
                 lost, desired>>

OfComponent(c) == {l \in held : l.c = c}

CleanNetwork ==
  /\ IsNext("network")
  /\ held' = held \ OfComponent("network")
  /\ StepDone("network")
  /\ UNCHANGED <<script, mem, disk, rt, renewer, abort, split, untold, lost,
                 desired, faults>>

\* The nodes must be seen on one tip, whatever has set them apart.
CleanConverge ==
  /\ IsNext("converge")
  /\ IF split = "reorg" \/ OfComponent("network") # {}
     THEN StepFails("converge") /\ UNCHANGED split
     ELSE StepDone("converge") /\ split' = "no"
  /\ UNCHANGED <<script, mem, disk, rt, renewer, held, abort, untold, lost,
                 desired, faults>>

\* ensure_recovery_leases, renewing or taking.
RecoveryLease(w) ==
  LET s == IF w = "spam" THEN "lease_spam" ELSE "lease_mining"
      m == [mem EXCEPT !.intents = @ \cup {Lease(w, 0)}]
  IN /\ IsNext(s)
     /\ IF OfComponent(w) # {} THEN UNCHANGED <<mem, disk, held>>
        ELSE mem' = m /\ disk' = m /\ held' = held \cup {Lease(w, 0)}
     /\ StepDone(s)
     /\ UNCHANGED <<script, rt, renewer, abort, split, untold, lost, desired,
                    faults>>

\* Reorg recovery; without the block it can only compare the tips.
RecoverReorg ==
  /\ IsNext("chain")
  /\ split = "reorg" => mem.context = "known"
  /\ split' = IF split = "reorg" THEN "no" ELSE split
  /\ StepDone("chain")
  /\ UNCHANGED <<script, mem, disk, rt, renewer, held, abort, untold, lost,
                 desired, faults>>

\* Cleanup reports a change it knows of, recovery always reports one.
ReleaseWorker(w) ==
  /\ IsNext(w)
  /\ held' = held \ OfComponent(w)
  /\ untold' = IF OfComponent(w) # {} /\ thread.at = "recover" /\ w = "spam"
               THEN FALSE
               ELSE IF thread.at = "cleanup" THEN Told(w) ELSE untold
  /\ StepDone(w)
  /\ UNCHANGED <<script, mem, disk, rt, renewer, abort, split, lost, desired,
                 faults>>

VerifyReleased ==
  /\ IsNext("verify")
  /\ IF \E w \in Workers : OfComponent(w) # {}
     THEN StepFails("verify") ELSE StepDone("verify")
  /\ UNCHANGED <<script, mem, disk, rt, renewer, held, abort, split, untold,
                 lost, desired, faults>>

\* restore_scenario_settings up to the apply; a failure has no effect on the
\* desired settings.
RestoreSettings ==
  LET m == [mem EXCEPT !.backup.phase = "running"]
  IN /\ IsNext("restore")
     /\ mem' = m /\ disk' = m
     /\ desired' = mem.backup.value
     /\ StepDone("restore")
     /\ UNCHANGED <<script, rt, renewer, held, abort, split, untold, lost,
                    faults>>

\* What was restored is recorded; memory keeps it if the save fails.
RecordRestored ==
  LET m == [mem EXCEPT !.backup.phase = "restored"]
  IN /\ IsNext("record")
     /\ mem' = m
     /\ \/ disk' = m /\ StepDone("record") /\ NoFault
        \/ /\ UNCHANGED disk /\ Fault
           /\ thread' = IF thread.at = "cleanup"
                        THEN [thread EXCEPT !.errors = TRUE, !.todo = {}]
                        ELSE Recovering(m)
     /\ UNCHANGED <<script, rt, renewer, held, abort, split, untold, lost,
                    desired>>

FinishCleanup ==
  /\ thread.at = "cleanup" /\ thread.todo = {}
  /\ FinishJob(IF thread.outcome = "aborted" \/ abort THEN "aborted"
               ELSE IF thread.outcome = "ok" THEN "succeeded" ELSE "failed",
               IF thread.errors THEN "failed" ELSE "succeeded")
  /\ UNCHANGED <<script, rt, renewer, held, split, untold, lost, desired>>

RecoveryComplete ==
  /\ thread.at = "recover" /\ thread.todo = {}
  /\ SaveBestEffort([mem EXCEPT !.cleanup = "succeeded", !.active = FALSE])
  /\ thread' = NoThread
  /\ UNCHANGED <<script, rt, renewer, held, abort, split, untold, lost,
                 desired>>

-----------------------------------------------------------------------------
\* The operator, failures and time.

\* A settings update of the API is refused while a job is active.
Configure ==
  /\ ~mem.active /\ desired # "operator"
  /\ desired' = "operator"
  /\ UNCHANGED <<script, mem, disk, thread, rt, renewer, held, abort, split,
                 untold, lost, faults>>

\* A worker or agent drops a lease that was not renewed, or starts anew.
LeaseDropped ==
  /\ held # {} /\ Fault
  /\ \E l \in held : held' = held \ {l}
  /\ lost' = TRUE
  /\ UNCHANGED <<script, mem, disk, thread, rt, renewer, abort, split, untold,
                 desired>>

\* While mining is not held, the branches may grow until one has won.
BranchesRace ==
  /\ split # "no" /\ OfComponent("mining") = {} /\ OfComponent("network") = {}
  /\ thread.at = "recover" /\ lost
  /\ split' = "no"
  /\ UNCHANGED <<script, mem, disk, thread, rt, renewer, held, abort, untold,
                 lost, desired, faults>>

\* catch_unwind around the executor; dropping the renewer joins it.
ExecutorPanics ==
  /\ thread.at \notin {"idle", "recover"} /\ renewer.at # "renewing"
  /\ Unlocked /\ faults > 0
  /\ FinishJob("failed", "failed")
  /\ renewer' = [at |-> "off", todo |-> {}]
  /\ rt' = NoRuntime
  /\ UNCHANGED <<script, held, split, untold, lost, desired>>

Restart ==
  LET m == IF disk.active /\ disk.state \notin Terminal
           THEN [disk EXCEPT !.state = "interrupted", !.cleanup = "running"]
           ELSE disk
  IN /\ Fault
     /\ mem' = m /\ disk' = m
     /\ thread' = IF m.active THEN Recovering(m) ELSE NoThread
     /\ renewer' = [at |-> "off", todo |-> {}]
     /\ rt' = NoRuntime
     /\ abort' = FALSE
     /\ UNCHANGED <<script, held, split, untold, lost, desired>>

Init ==
  /\ script \in Scripts
  /\ mem = NoJob /\ disk = NoJob
  /\ thread = NoThread
  /\ rt = NoRuntime
  /\ renewer = [at |-> "off", todo |-> {}]
  /\ held = {}
  /\ abort = FALSE
  /\ split = "no"
  /\ untold = FALSE
  /\ lost = FALSE
  /\ desired = "initial"
  /\ faults = MaxFaults

Execute ==
  \/ Begin \/ StartRenewer \/ Bootstrap \/ Boundary \/ Summary \/ StopRenewer
  \/ Wait \/ Assert \/ Mine \/ SpamBurst \/ WaitHeight
  \/ FaucetPreflight \/ Transfer \/ WaitFaucetConfirmation \/ PrepareBursts
  \/ \E c \in Components : Take(c)
  \/ \E w \in Workers : Free(w)
  \/ Apply \/ MarkPaused \/ PrepareReorg \/ MutateReorg \/ SettleReorg
  \/ MarkReorgSafe \/ SplitNetwork \/ HealNetwork \/ ConvergePartition
  \/ Forget \/ Reach \/ Look \/ Sleep \/ TimeOut

Clean ==
  \/ CleanNetwork \/ CleanConverge \/ RecoverReorg \/ VerifyReleased
  \/ \E w \in Workers : RecoveryLease(w) \/ ReleaseWorker(w)
  \/ RestoreSettings \/ RecordRestored \/ FinishCleanup \/ RecoveryComplete

Fail ==
  \/ FailBeforeThread \/ ExecutorPanics \/ LeaseDropped
  \/ \E s \in DOMAIN StepRank : CallFails(s)

Next ==
  \/ StartScenario \/ AbortJob \/ Configure
  \/ \E k \in 1..Len(script.steps) : ReleaseCheckpoint(k)
  \/ Execute \/ Clean
  \/ CopyHandles \/ Renew
  \/ BranchesRace \/ Fail \/ Restart

\* Threads run, calls return and timers expire.
Fairness == WF_vars(Execute) /\ WF_vars(Clean) /\ WF_vars(Renew)

Spec == Init /\ [][Next]_vars
FairSpec == Spec /\ Fairness

-----------------------------------------------------------------------------
(***************************************************************************)
(* Properties.                                                             *)
(***************************************************************************)

Records ==
  [active : BOOLEAN,
   state : Terminal \cup {"none", "starting", "running", "waiting",
                          "abort_requested"},
   cleanup : {"pending", "running", "succeeded", "failed"},
   intents : SUBSET [c : Components, id : Nat],
   context : {"none", "possible", "known"},
   backup : [phase : {"none", "captured", "running", "restored"},
             value : {"initial", "changed", "operator"}],
   checkpoints : [1..Len(script.steps) -> {"pending", "reached", "released", "timed_out"}]]

Threads ==
  [at : {"idle", "new", "spawn", "bootstrap", "step", "boundary", "summary",
         "stop", "cleanup", "recover"},
   step : 1..Len(script.steps), op : Nat, acquired : SUBSET Components,
   failed : BOOLEAN, hold : {"look", "locked", "asleep"},
   outcome : {"ok", "error", "aborted"}, todo : SUBSET DOMAIN StepRank,
   errors : BOOLEAN]

Runtimes ==
  [spam : Nat, mining : Nat, network : Nat, seq : Nat, paused : BOOLEAN,
   changed : BOOLEAN]

\* Types of the job, its threads, the leases and the settings.
TypeOK ==
  /\ script \in Scripts
  /\ mem \in Records /\ disk \in Records
  /\ thread \in Threads /\ thread.op \in 1..Len(Ops)
  /\ rt \in Runtimes
  /\ \A c \in Components : rt[c] <= rt.seq
  /\ renewer \in [at : {"off", "parked", "renewing"},
                  todo : SUBSET [c : Components, id : Nat]]
  /\ held \subseteq [c : Components, id : Nat]
  /\ abort \in BOOLEAN /\ untold \in BOOLEAN /\ lost \in BOOLEAN
  /\ split \in {"no", "reorg", "partition"}
  /\ desired \in {"initial", "changed", "operator"}
  /\ faults \in 0..MaxFaults

\* The engine is between the start of its first step and its last.
Engine == thread.at \in {"step", "boundary", "summary"}

\* A pause_mining step is over and no resume_mining step has begun.
PausedByScript ==
  \E i \in 1..(thread.step - 1) :
    /\ script.steps[i] = "pause_mining"
    /\ \A k \in (i + 1)..thread.step : script.steps[k] # "resume_mining"

\* "Takes a job-owned mining lease and holds block production paused": the
\* pause of one step is not ended by the reorg, partition or faucet steps
\* after it, which use the same lease, whether they fail or not.
PauseHolds ==
  Engine /\ PausedByScript /\ ~lost => OfComponent("mining") # {}

\* While a step has set the nodes apart both workers are held: by a reorg
\* until the recovery after a crash has settled it, by a partition until the
\* cleanup (which goes on when the nodes do not converge).
WorkersHeldWhileSplit ==
  split = "reorg" \/ (split = "partition" /\ (Engine \/ thread.at = "stop"))
    => lost \/ \A w \in Workers : OfComponent(w) # {}

\* Spam does not resume on a chain that a step has changed without having
\* been told so in the release (chain_changed), across steps, failures,
\* panics and restarts.
SpamToldOfChange == untold /\ ~lost => OfComponent("spam") # {}

\* What a running or interrupted scenario owes the workers it holds.
ScenarioInvariant ==
  TypeOK /\ PauseHolds /\ WorkersHeldWhileSplit /\ SpamToldOfChange

\* A scenario leaves its lane only with the settings it found, whatever its
\* steps have applied and wherever it failed or was interrupted (or, a second
\* time after a restart, with what the operator has set since).
SettingsRestored ==
  [][mem.active /\ ~mem'.active /\ script.restore
       => desired' \in {mem.backup.value, "operator"}]_vars

\* What was saved about a checkpoint is final: a release that was answered
\* is not followed by a timeout nor the reverse; and a script goes on past
\* its checkpoint only when it was released, or to be aborted.
CheckpointGate ==
  [][/\ \A k \in 1..Len(script.steps) :
          disk.checkpoints[k] \in {"released", "timed_out"}
            => disk'.checkpoints[k] = disk.checkpoints[k]
     /\ Op("hold") /\ thread'.at = "boundary" /\ ~thread'.failed
          => Checkpoint = "released" \/ abort]_vars

\* A reorg was interrupted and its recovery cannot be reached: its block is
\* not known, or an earlier step has recorded a network lease, which makes
\* the recovery wait for the nodes to agree first.
ReorgStuck ==
  /\ split = "reorg"
  /\ mem.context = "possible" \/ \E l \in mem.intents : l.c = "network"

\* Every scenario ends and gives up its lane once failures stop: held
\* checkpoints time out, the renewal is joined, cleanup and recovery end.
EveryScenarioEnds ==
  thread.at # "idle" ~> (thread.at = "idle" \/ ReorgStuck)

\* Does not hold (see README, Disagreements).
\* "A control-plane restart marks an active scenario interrupted and clears
\* or safely recovers its owned network/worker leases before another mutation
\* may begin" (docs/SCENARIOS.md): a recovery that knows its block completes.
InterruptedScenarioRecovers ==
  (thread.at = "recover" /\ mem.context # "possible")
    ~> (thread.at = "idle" \/ mem.context = "possible")
=============================================================================
