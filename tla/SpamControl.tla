---------------------------- MODULE SpamControl ----------------------------
(***************************************************************************)
(* The spam worker: the shared control state of                            *)
(* crates/spammer/src/control.rs, the server thread that answers one       *)
(* control request at a time, the runner thread of runner.rs that owns the *)
(* spam engine, and the threads that submit one cycle's transactions, one  *)
(* per miner node.                                                         *)
(*                                                                         *)
(* One action is one critical section of the control mutex.  Deadlines are *)
(* the time still left to them, as in LeaseTable.                          *)
(***************************************************************************)
EXTENDS LeaseTable, Integers

CONSTANTS
  LeaseIds,          \* lease identifiers jobs choose
  Owners,            \* owner_job_id and purpose of a lease request
  Ttls,              \* the ttl_secs of lease requests, in ticks
  SafePointTimeout,  \* SAFE_POINT_TIMEOUT, in ticks
  Loads,             \* the ordered workloads of a policy
  InitialPolicy,     \* the policy of the worker's environment
  PolicyRequests,    \* the set_policy requests of the control plane
  Senders,           \* the miner nodes a cycle submits to, one thread each
  Rounds,            \* the kinds of work of a cycle (funding, data, floor pool...)
  MaxRewind,         \* how far a job may take the chain below the last cycle's height
  LateRelease        \* whether a job may report a chain change after its lease expired

Policies == [enabled : BOOLEAN, load : Loads]
PendingPolicies == [generation : Nat, policy : Policies, rollback : BOOLEAN]

ASSUME ConstantsAssumption ==
  /\ Ttls \subseteq Nat \ {0}
  /\ SafePointTimeout \in Nat
  /\ InitialPolicy \in Policies
  /\ PolicyRequests \subseteq PendingPolicies
  /\ Loads \subseteq Nat
  /\ Rounds \in Nat
  /\ MaxRewind \in Nat
  /\ LateRelease \in BOOLEAN

\* Every lease request of the control plane carries its lease_ttl_secs.
ASSUME OneTtl == \A s, t \in Ttls : s = t

VARIABLES
  \* struct Inner, under the mutex
  desired_state, leases, policy, generation, pending_policy, policy_failure,
  initialization_pending, reconciliation_pending, phase, in_flight,
  \* the server thread: the request it is blocked in, and its remaining wait
  server, acquiring, wanted, patience,
  \* the runner thread: program counter, the engine with the policy it is
  \* tuned to, the generation of the Ready action, the generation that asked
  \* for a cycle without a new block, the cycle's threads
  pc, engine, ready, catch_up, senders,
  \* whether the chain may have changed since the engine last read it, and by
  \* how much its height exceeds spammed_at_height (more than one is one)
  changes, ahead,
  \* what the clients were told: remaining time of every acknowledged lease,
  \* the leases some job has yet to release, the manual pause; and whether
  \* clients still call
  granted, owned, pause_acked, control_up

policyVars == <<policy, generation, pending_policy, policy_failure, initialization_pending>>
reconcileVars == <<reconciliation_pending, changes, ahead>>
serverVars == <<server, acquiring, wanted, patience>>
runnerVars == <<engine, ready, catch_up, senders>>
workerVars == <<pc, runnerVars>>
clientVars == <<granted, owned, pause_acked, control_up>>
vars == <<desired_state, leases, policyVars, reconcileVars, phase, in_flight,
          serverVars, workerVars, clientVars>>

Lease == [owner : Owners, left : Nat]
Phases ==
  {"initializing", "disabled", "active", "pausing", "paused", "reconciling", "error"}
ServerStates == {"idle", "await_pause", "await_lease", "rollback", "await_policy"}
WorkerStates ==
  {"safe_point", "initializing", "applying", "building", "reconciling", "reported",
   "ready", "cycle", "poll"}
SenderStates == [left : 0..Rounds, at : {"check", "submit"}]
NoWork == [left |-> 0, at |-> "check"]
AcquireCalls == [id : LeaseIds, lease : Lease, previous : SUBSET Lease]
NoAcquire == [id |-> "none"]

\* A lease table, as HashMap<String, LeaseEntry>.
IsTable(t) ==
  /\ t = [l \in DOMAIN t |-> t[l]]
  /\ DOMAIN t \subseteq LeaseIds
  /\ \A l \in DOMAIN t : t[l] \in Lease

(***************************************************************************)
(* Helpers of control.rs.                                                  *)
(***************************************************************************)
\* A job that changed the chain leaves it at any height.
HeightAfter(changed) == IF changed THEN (-MaxRewind)..1 ELSE {ahead}

\* The chain may have changed: the engine must read it again.  changes is
\* "unseen" from then on until a reconciliation that began later is complete
\* ("seen" while one is under way).
NoteChange(changed) ==
  /\ reconciliation_pending' = (reconciliation_pending \/ changed)
  /\ changes' = IF changed THEN "unseen" ELSE changes
  /\ ahead' \in HeightAfter(changed)

\* expire_leases found an entry past its deadline.
SomeExpired(table) == DOMAIN ExpireLeases(table) # DOMAIN table

\* expire_leases: an expired owner cannot say whether it changed the chain.
Expire ==
  /\ leases' = ExpireLeases(leases)
  /\ NoteChange(SomeExpired(leases))

\* Mutant of IsEffectivelyPaused: the intention to pause counts as a pause.
PausingIsPaused == phase \in {"pausing", "paused"}

IsEffectivelyPaused == phase = "paused" /\ ~in_flight

\* mark_pause_requested: a worker without work in flight is paused at once.
MarkPauseRequested == IF in_flight THEN "pausing" ELSE "paused"

(***************************************************************************)
(* The worker starts under the policy of its environment; an enabled one   *)
(* still needs its engine.                                                 *)
(***************************************************************************)
Init ==
  /\ desired_state = "running"
  /\ leases = EmptyTable
  /\ policy = InitialPolicy
  /\ generation = 0
  /\ pending_policy = {}
  /\ policy_failure = {}
  /\ initialization_pending = InitialPolicy.enabled
  /\ reconciliation_pending = FALSE
  /\ phase = IF InitialPolicy.enabled THEN "initializing" ELSE "disabled"
  /\ in_flight = FALSE
  /\ server = "idle"
  /\ acquiring = NoAcquire
  /\ wanted = {}
  /\ patience = 0
  /\ pc = "safe_point"
  /\ engine = {}
  /\ ready = 0
  /\ senders = [m \in Senders |-> NoWork]
  /\ catch_up = {}
  /\ changes = "none"
  /\ ahead = 1
  /\ granted = [l \in LeaseIds |-> 0]
  /\ owned = {}
  /\ pause_acked = FALSE
  /\ control_up = TRUE

(***************************************************************************)
(* The server thread.                                                      *)
(***************************************************************************)
Accepts == server = "idle" /\ control_up

\* GET status: the read expires leases.
Status ==
  /\ Accepts
  /\ Expire
  /\ UNCHANGED <<desired_state, policyVars, phase, in_flight, serverVars, workerVars,
                 clientVars>>

Resume ==
  /\ Accepts
  /\ desired_state' = "running"
  /\ pause_acked' = FALSE
  /\ UNCHANGED <<leases, policyVars, reconcileVars, phase, in_flight, serverVars,
                 workerVars, granted, owned, control_up>>

Pause ==
  /\ Accepts
  /\ desired_state' = "paused"
  /\ phase' = MarkPauseRequested
  /\ IF phase' = "paused" /\ ~in_flight
     THEN pause_acked' = TRUE /\ UNCHANGED <<server, patience>>
     ELSE /\ server' = "await_pause"
          /\ patience' = SafePointTimeout
          /\ UNCHANGED pause_acked
  /\ UNCHANGED <<leases, policyVars, reconcileVars, in_flight, acquiring, wanted,
                 workerVars, granted, owned, control_up>>

AckPause ==
  /\ server = "await_pause" /\ IsEffectivelyPaused
  /\ server' = "idle" /\ patience' = 0
  /\ pause_acked' = TRUE
  /\ UNCHANGED <<desired_state, leases, policyVars, reconcileVars, phase, in_flight,
                 acquiring, wanted, workerVars, granted, owned, control_up>>

\* The request fails; desired_state stays Paused.
PauseTimesOut ==
  /\ server = "await_pause" /\ patience = 0 /\ ~IsEffectivelyPaused
  /\ server' = "idle"
  /\ UNCHANGED <<desired_state, leases, policyVars, reconcileVars, phase, in_flight,
                 acquiring, wanted, patience, workerVars, clientVars>>

\* The lease ID is held by another job: the request only expires leases.
RefuseLease(id, owner) ==
  /\ Accepts
  /\ id \in DOMAIN ExpireLeases(leases) /\ leases[id].owner # owner
  /\ Expire
  /\ UNCHANGED <<desired_state, policyVars, phase, in_flight, serverVars, workerVars,
                 clientVars>>

AcquireLease(id, owner, ttl) ==
  LET live  == ExpireLeases(leases)
      lease == [owner |-> owner, left |-> ttl]
  IN /\ Accepts
     /\ id \in DOMAIN live => live[id].owner = owner
     /\ leases' = Insert(live, id, lease)
     /\ NoteChange(SomeExpired(leases))
     /\ phase' = MarkPauseRequested
     /\ IF phase' = "paused" /\ ~in_flight
        THEN /\ granted' = [granted EXCEPT ![id] = ttl]
             /\ owned' = owned \cup {id}
             /\ UNCHANGED <<server, acquiring, patience>>
        ELSE /\ server' = "await_lease"
             /\ acquiring' = [id |-> id, lease |-> lease,
                              previous |-> {live[l] : l \in DOMAIN live \cap {id}}]
             /\ patience' = SafePointTimeout
             /\ UNCHANGED <<granted, owned>>
     /\ UNCHANGED <<desired_state, policyVars, in_flight, wanted, workerVars, pause_acked,
                    control_up>>

\* The client is entitled to what is left of the TTL it asked for.
AckLease ==
  /\ server = "await_lease" /\ IsEffectivelyPaused
  /\ granted' = [granted EXCEPT ![acquiring.id] = acquiring.lease.left]
  /\ owned' = owned \cup {acquiring.id}
  /\ server' = "idle" /\ acquiring' = NoAcquire /\ patience' = 0
  /\ UNCHANGED <<desired_state, leases, policyVars, reconcileVars, phase, in_flight,
                 wanted, workerVars, pause_acked, control_up>>

\* The wait gives up and drops the lock; the rollback takes it again.
LeaseTimesOut ==
  /\ server = "await_lease" /\ patience = 0 /\ ~IsEffectivelyPaused
  /\ server' = "rollback"
  /\ UNCHANGED <<desired_state, leases, policyVars, reconcileVars, phase, in_flight,
                 acquiring, wanted, patience, workerVars, clientVars>>

\* An expiry that the rollback brings to light also asks for reconciliation.
RollbackUnacquiredLease ==
  LET restored == RestoredTable(leases, acquiring)
  IN /\ server = "rollback"
     /\ leases' = RollbackTable(leases, acquiring)
     /\ NoteChange(DOMAIN leases' # DOMAIN restored)
     /\ server' = "idle" /\ acquiring' = NoAcquire
     /\ UNCHANGED <<desired_state, policyVars, phase, in_flight, wanted, patience,
                    workerVars, clientVars>>

RenewLease(id, ttl) ==
  LET live == ExpireLeases(leases)
  IN /\ Accepts
     /\ IF id \in DOMAIN live
        THEN /\ leases' = [live EXCEPT ![id].left = ttl]
             /\ granted' = [granted EXCEPT ![id] = ttl]
        ELSE leases' = live /\ UNCHANGED granted
     /\ NoteChange(SomeExpired(leases))
     /\ UNCHANGED <<desired_state, policyVars, phase, in_flight, serverVars, workerVars,
                    owned, pause_acked, control_up>>

\* The owner says whether it changed the chain, which it does only under a
\* lease it was granted; that lease may have expired in the meantime.
ReleaseLease(id, chain_changed) ==
  LET live == ExpireLeases(leases)
  IN /\ Accepts
     /\ chain_changed => id \in IF LateRelease THEN owned ELSE DOMAIN live
     /\ leases' = Remove(live, id)
     /\ NoteChange(SomeExpired(leases) \/ chain_changed)
     /\ granted' = [granted EXCEPT ![id] = 0]
     /\ owned' = owned \ {id}
     /\ UNCHANGED <<desired_state, policyVars, phase, in_flight, serverVars, workerVars,
                    pause_acked, control_up>>

InForce(r) == r.generation = generation /\ r.policy = policy

\* Mutant of RefusedPolicy: the staleness check is missing.
RefusedWithoutStaleness(r) == ~r.rollback /\ r.generation = generation

\* What set_policy refuses once no lease is in the table: an old generation
\* and a second policy for the current one, except for a rollback.
RefusedPolicy(r) == ~r.rollback /\ r.generation <= generation

\* set_policy was refused, or acknowledged because its policy is in force:
\* it only expires leases.
PolicyUnchanged(r) ==
  /\ Accepts
  /\ Expire
  /\ \/ DOMAIN leases' # {}
     \/ InForce(r) \/ RefusedPolicy(r)
     \/ \E p \in pending_policy : p.generation # r.generation \/ p.policy # r.policy
  /\ UNCHANGED <<desired_state, policyVars, phase, in_flight, serverVars, workerVars,
                 clientVars>>

\* A new request replaces the recorded failure; a retry of the pending one
\* only waits.  wait_for_policy compares generation and policy.
SetPolicy(r) ==
  /\ Accepts
  /\ Expire
  /\ DOMAIN leases' = {} /\ ~InForce(r) /\ ~RefusedPolicy(r)
  /\ \/ /\ pending_policy = {}
        /\ pending_policy' = {r} /\ policy_failure' = {}
     \/ /\ \E p \in pending_policy : p.generation = r.generation /\ p.policy = r.policy
        /\ UNCHANGED <<pending_policy, policy_failure>>
  /\ server' = "await_policy" /\ wanted' = {r} /\ patience' = SafePointTimeout
  /\ UNCHANGED <<desired_state, policy, generation, initialization_pending, phase,
                 in_flight, acquiring, workerVars, clientVars>>

\* The awaited policy is in force or was rejected.
PolicySettled ==
  \E r \in wanted :
    InForce(r) \/ \E f \in policy_failure : f.generation = r.generation /\ f.policy = r.policy

AnswerPolicy ==
  /\ server = "await_policy" /\ PolicySettled
  /\ server' = "idle" /\ wanted' = {} /\ patience' = 0
  /\ UNCHANGED <<desired_state, leases, policyVars, reconcileVars, phase, in_flight,
                 acquiring, workerVars, clientVars>>

\* The request fails; the policy stays pending.  A timed-out wait does not
\* look at the policy again.
PolicyTimesOut ==
  /\ server = "await_policy" /\ patience = 0
  /\ server' = "idle" /\ wanted' = {}
  /\ UNCHANGED <<desired_state, leases, policyVars, reconcileVars, phase, in_flight,
                 acquiring, patience, workerVars, clientVars>>

(***************************************************************************)
(* The runner thread.  safe_point tries, in this order: the pending        *)
(* policy, the pause, the engine's initialization, a reconciliation, and   *)
(* whether the policy is enabled at all.  It loops while paused or         *)
(* disabled; each evaluation of the loop is one step.                      *)
(***************************************************************************)
AtSafePoint == pc = "safe_point" /\ Expire

Enter(work, as) == pc' = work /\ in_flight' = TRUE /\ phase' = as

\* The policy comes first: a paused worker applies it too.
SafePointAppliesPolicy ==
  /\ AtSafePoint
  /\ pending_policy # {}
  /\ Enter("applying", "active")
  /\ UNCHANGED <<desired_state, policyVars, serverVars, runnerVars, clientVars>>

SafePointPauses ==
  /\ AtSafePoint
  /\ pending_policy = {} /\ PauseRequested(desired_state, leases')
  /\ phase' = "paused"
  /\ UNCHANGED <<desired_state, policyVars, in_flight, serverVars, workerVars, clientVars>>

PastPause == AtSafePoint /\ pending_policy = {} /\ ~PauseRequested(desired_state, leases')

SafePointInitializes ==
  /\ PastPause
  /\ initialization_pending
  /\ Enter("initializing", "initializing")
  /\ UNCHANGED <<desired_state, policyVars, serverVars, runnerVars, clientVars>>

\* The chain is read from here on.
SafePointReconciles ==
  /\ pc = "safe_point" /\ leases' = ExpireLeases(leases)
  /\ pending_policy = {} /\ ~PauseRequested(desired_state, leases')
  /\ ~initialization_pending /\ policy.enabled
  /\ reconciliation_pending \/ SomeExpired(leases)
  /\ reconciliation_pending' = TRUE
  /\ changes' = "seen" /\ ahead' \in HeightAfter(SomeExpired(leases))
  /\ Enter("reconciling", "reconciling")
  /\ UNCHANGED <<desired_state, policyVars, serverVars, runnerVars, clientVars>>

SafePointDisabled ==
  /\ PastPause
  /\ ~initialization_pending /\ ~policy.enabled
  /\ phase' = "disabled"
  /\ UNCHANGED <<desired_state, policyVars, in_flight, serverVars, workerVars, clientVars>>

SafePointReady ==
  /\ PastPause
  /\ ~initialization_pending /\ policy.enabled /\ ~reconciliation_pending'
  /\ phase' = "active"
  /\ pc' = "ready" /\ ready' = generation
  /\ UNCHANGED <<desired_state, policyVars, in_flight, serverVars, engine, catch_up,
                 senders, clientVars>>

\* Work that was in flight ends, with the phase its outcome leaves behind.
Leave(next, idle) ==
  /\ in_flight' = FALSE
  /\ pc' = next
  /\ phase' = IF PauseRequested(desired_state, leases) THEN "paused" ELSE idle

Fail(next) == in_flight' = FALSE /\ pc' = next /\ phase' = "error"

\* SpamEngine::build reads the chain state of both nodes.
InitializationSucceeds ==
  /\ pc = "initializing"
  /\ engine' = {policy}
  /\ initialization_pending' = FALSE
  /\ Leave("safe_point", "active")
  /\ UNCHANGED <<desired_state, leases, policy, generation, pending_policy, policy_failure,
                 reconcileVars, serverVars, ready, catch_up, senders, clientVars>>

InitializationFails ==
  /\ pc = "initializing"
  /\ Fail("safe_point")
  /\ UNCHANGED <<desired_state, leases, policyVars, reconcileVars, serverVars, engine,
                 ready, catch_up, senders, clientVars>>

\* An engine is needed and missing: reading the configured fee for its
\* construction expires leases.
StartBuild ==
  /\ pc = "applying"
  /\ engine = {} /\ \E p \in pending_policy : p.policy.enabled
  /\ Expire
  /\ pc' = "building"
  /\ UNCHANGED <<desired_state, policyVars, phase, in_flight, serverVars, runnerVars,
                 clientVars>>

\* policy_impact's needs_immediate_cycle: spam is switched on or has more to do.
NeedsImmediateCycle(current, next) ==
  next.enabled /\ (~current.enabled \/ next.load > current.load)

\* complete_policy takes the pending policy; a cycle for it may be due at once.
CompletePolicy(p) ==
  /\ pending_policy' = {}
  /\ policy' = p.policy /\ generation' = p.generation
  /\ policy_failure' = {} /\ initialization_pending' = FALSE
  /\ catch_up' = IF NeedsImmediateCycle(policy, p.policy) THEN {p.generation} ELSE {}
  /\ Leave("safe_point", IF p.policy.enabled THEN "active" ELSE "disabled")
  /\ UNCHANGED <<desired_state, leases, reconcileVars, serverVars, ready, senders,
                 clientVars>>

\* The engine in place is retuned, also to a disabled policy; without one a
\* disabled policy needs none.
PolicyApplied ==
  \E p \in pending_policy :
    /\ pc = "applying" /\ (engine # {} \/ ~p.policy.enabled)
    /\ engine' = IF engine = {} THEN {} ELSE {p.policy}
    /\ CompletePolicy(p)

PolicyBuilt ==
  \E p \in pending_policy :
    /\ pc = "building"
    /\ engine' = {p.policy}
    /\ CompletePolicy(p)

\* Mutant of BuildFails: the old policy is left without its engine.
BuildFailureForgetsEngine ==
  \E p \in pending_policy :
    /\ pc = "building"
    /\ pending_policy' = {} /\ policy_failure' = {p}
    /\ initialization_pending' = FALSE
    /\ Fail("safe_point")
    /\ UNCHANGED <<desired_state, leases, policy, generation, reconcileVars, serverVars,
                   runnerVars, clientVars>>

\* The old policy stays in force, and gets its engine if it needs one.
BuildFails ==
  \E p \in pending_policy :
    /\ pc = "building"
    /\ pending_policy' = {} /\ policy_failure' = {p}
    /\ initialization_pending' = (policy.enabled /\ engine = {})
    /\ Fail("safe_point")
    /\ UNCHANGED <<desired_state, leases, policy, generation, reconcileVars, serverVars,
                   runnerVars, clientVars>>

\* Mutant of ReconciliationSucceeds: the request is not cleared.
ReconciliationKeepsRequest ==
  /\ pc = "reconciling" /\ engine # {}
  /\ changes' = IF changes = "seen" THEN "none" ELSE changes
  /\ Leave("reported", "active")
  /\ UNCHANGED <<desired_state, leases, policyVars, reconciliation_pending, ahead, serverVars,
                 runnerVars, clientVars>>

\* After a reconciliation the next cycle is due at once, if the block count
\* can be read; a request for an earlier height may be obsolete then.
RestartSchedule ==
  \/ ahead' = 1 /\ catch_up' \in {catch_up, {}}
  \/ UNCHANGED <<ahead, catch_up>>

\* complete_reconciliation clears the request, also one that arrived after
\* the engines were read.
ReconciliationSucceeds ==
  /\ pc = "reconciling" /\ engine # {}
  /\ reconciliation_pending' = FALSE
  /\ changes' = IF changes = "seen" THEN "none" ELSE changes
  /\ RestartSchedule
  /\ Leave("reported", "active")
  /\ UNCHANGED <<desired_state, leases, policyVars, serverVars, engine, ready, senders,
                 clientVars>>

\* Mutant of ReconciliationFails: the request is dropped with the error.
FailedReconciliationCounts ==
  /\ pc = "reconciling"
  /\ reconciliation_pending' = FALSE
  /\ changes' = "unseen"
  /\ Fail("reported")
  /\ UNCHANGED <<desired_state, leases, policyVars, ahead, serverVars, runnerVars,
                 clientVars>>

ReconciliationFails ==
  /\ pc = "reconciling"
  /\ changes' = "unseen"
  /\ Fail("reported")
  /\ UNCHANGED <<desired_state, leases, policyVars, ahead, reconciliation_pending, serverVars,
                 runnerVars, clientVars>>

\* Reporting the capacity reads the status, which expires leases.
ReportAfterReconcile ==
  /\ pc = "reported"
  /\ Expire
  /\ pc' = "safe_point"
  /\ UNCHANGED <<desired_state, policyVars, phase, in_flight, serverVars, runnerVars,
                 clientVars>>

\* cycle_kind, once the block count has been read.
CycleKind ==
  IF ahead = 1 THEN "Normal"
  ELSE IF ahead = 0 /\ catch_up = {ready} THEN "CatchUp" ELSE "NotDue"

\* catch_up_superseded: only a request a cycle is due for is kept.
KeptRequest == IF CycleKind = "CatchUp" THEN catch_up ELSE {}

BlockCountFails ==
  /\ pc = "ready"
  /\ pc' = "poll"
  /\ UNCHANGED <<desired_state, leases, policyVars, reconcileVars, phase, in_flight,
                 serverVars, runnerVars, clientVars>>

CycleNotDue ==
  /\ pc = "ready" /\ CycleKind = "NotDue"
  /\ pc' = "poll" /\ catch_up' = KeptRequest
  /\ UNCHANGED <<desired_state, leases, policyVars, reconcileVars, phase, in_flight,
                 serverVars, engine, ready, senders, clientVars>>

\* Mutant of MayBegin: the pause is not checked again.
MayBeginUnchecked ==
  /\ pending_policy = {} /\ ~reconciliation_pending' /\ ~initialization_pending
  /\ generation = ready /\ policy.enabled

\* What begin_cycle checks again after the runner has left its safe point.
MayBegin ==
  /\ ~PauseRequested(desired_state, leases')
  /\ pending_policy = {} /\ ~reconciliation_pending' /\ ~initialization_pending
  /\ generation = ready /\ policy.enabled

\* A lease that expires here asks for a reconciliation first.
BeginCycle ==
  /\ pc = "ready" /\ CycleKind # "NotDue"
  /\ ~SomeExpired(leases)
  /\ UNCHANGED <<leases, reconciliation_pending, changes>>
  /\ MayBegin
  /\ Enter("cycle", "active")
  /\ ahead' = 0 /\ catch_up' = {}
  /\ senders' = [m \in Senders |-> [left |-> Rounds, at |-> "check"]]
  /\ UNCHANGED <<desired_state, policyVars, serverVars, engine, ready, clientVars>>

CycleRefused ==
  /\ pc = "ready" /\ CycleKind # "NotDue"
  /\ Expire
  /\ ~MayBegin
  /\ pc' = "poll" /\ catch_up' = KeptRequest
  /\ UNCHANGED <<desired_state, policyVars, phase, in_flight, serverVars, engine, ready,
                 senders, clientVars>>

Interrupted ==
  \/ PauseRequested(desired_state, leases')
  \/ pending_policy # {} \/ reconciliation_pending'
  \/ generation # ready \/ ~policy.enabled

\* The thread of m turns to the next kind of work, until none is left.
NextRound(m) == [senders EXCEPT ![m] = [left |-> @.left - 1, at |-> "check"]]

\* cycle_checkpoint before a unit of work of one thread.  An interruption
\* ends this kind of work only: the next one asks again.
CycleCheckpoint(m) ==
  /\ pc = "cycle" /\ senders[m].left > 0 /\ senders[m].at = "check"
  /\ Expire
  /\ IF Interrupted
     THEN /\ senders' = NextRound(m)
          /\ phase' = IF PauseRequested(desired_state, leases') THEN "pausing"
                      ELSE IF reconciliation_pending' THEN "reconciling" ELSE "active"
     ELSE /\ senders' = [senders EXCEPT ![m].at = "submit"]
          /\ UNCHANGED phase
  /\ UNCHANGED <<desired_state, policyVars, in_flight, serverVars, pc, engine, ready,
                 catch_up, clientVars>>

\* A unit of work is submitted; there may be more of its kind.
SubmitBatch(m) ==
  /\ pc = "cycle" /\ senders[m].at = "submit"
  /\ senders' \in {[senders EXCEPT ![m].at = "check"], NextRound(m)}
  /\ UNCHANGED <<desired_state, leases, policyVars, reconcileVars, phase, in_flight,
                 serverVars, pc, engine, ready, catch_up, clientVars>>

\* Both threads have been joined.
FinishCycle ==
  /\ pc = "cycle" /\ \A m \in Senders : senders[m].left = 0
  /\ Leave("poll", IF reconciliation_pending THEN "reconciling"
                   ELSE IF pending_policy # {} \/ policy.enabled THEN "active"
                   ELSE "disabled")
  /\ UNCHANGED <<desired_state, leases, policyVars, reconcileVars, serverVars, engine,
                 ready, catch_up, senders, clientVars>>

\* wait_for_block_poll ends by time or is interrupted.
WaitForBlockPoll ==
  /\ pc = "poll"
  /\ Expire
  /\ pc' = "safe_point"
  /\ UNCHANGED <<desired_state, policyVars, phase, in_flight, serverVars, runnerVars,
                 clientVars>>

(***************************************************************************)
(* Environment.                                                            *)
(***************************************************************************)
Tick ==
  /\ leases' = [l \in DOMAIN leases |-> Aged(leases[l])]
  /\ acquiring' = IF server \in {"await_lease", "rollback"}
                  THEN [acquiring EXCEPT !.lease = Aged(@), !.previous = {Aged(p) : p \in @}]
                  ELSE acquiring
  /\ patience' = Less(patience)
  /\ granted' = [l \in LeaseIds |-> Less(granted[l])]
  /\ UNCHANGED <<desired_state, policyVars, reconcileVars, phase, in_flight, server, wanted,
                 workerVars, owned, pause_acked, control_up>>

\* The process ends (a sender thread panicked, a crash) and is started again
\* without an engine: what it knew of the chain is gone with it.
WorkerRestart ==
  /\ desired_state' = "running" /\ leases' = EmptyTable
  /\ policy' = InitialPolicy /\ generation' = 0
  /\ pending_policy' = {} /\ policy_failure' = {}
  /\ initialization_pending' = InitialPolicy.enabled /\ reconciliation_pending' = FALSE
  /\ phase' = IF InitialPolicy.enabled THEN "initializing" ELSE "disabled"
  /\ in_flight' = FALSE
  /\ server' = "idle" /\ acquiring' = NoAcquire /\ wanted' = {} /\ patience' = 0
  /\ pc' = "safe_point" /\ engine' = {} /\ ready' = 0
  /\ senders' = [m \in Senders |-> NoWork]
  /\ catch_up' = {}
  /\ changes' = "none" /\ ahead' = 1
  /\ granted' = [l \in LeaseIds |-> 0] /\ pause_acked' = FALSE
  /\ UNCHANGED <<owned, control_up>>

\* node1 has a block more.
NewBlock ==
  /\ ahead < 1
  /\ ahead' = ahead + 1
  /\ UNCHANGED <<desired_state, leases, policyVars, reconciliation_pending, changes, phase,
                 in_flight, serverVars, workerVars, clientVars>>

\* The control plane stops for good.
ControlPlaneStops ==
  /\ control_up
  /\ control_up' = FALSE
  /\ UNCHANGED <<desired_state, leases, policyVars, reconcileVars, phase, in_flight,
                 serverVars, workerVars, granted, owned, pause_acked>>

Request ==
  \/ Status \/ Resume \/ Pause
  \/ \E id \in LeaseIds :
       \/ \E changed \in BOOLEAN : ReleaseLease(id, changed)
       \/ \E ttl \in Ttls : RenewLease(id, ttl)
       \/ \E owner \in Owners :
            RefuseLease(id, owner) \/ \E ttl \in Ttls : AcquireLease(id, owner, ttl)
  \/ \E r \in PolicyRequests : SetPolicy(r) \/ PolicyUnchanged(r)

Answer ==
  \/ AckPause \/ PauseTimesOut \/ AckLease \/ LeaseTimesOut \/ RollbackUnacquiredLease
  \/ AnswerPolicy \/ PolicyTimesOut

Work ==
  \/ SafePointAppliesPolicy \/ SafePointPauses \/ SafePointInitializes
  \/ SafePointReconciles \/ SafePointDisabled \/ SafePointReady
  \/ InitializationSucceeds \/ InitializationFails
  \/ StartBuild \/ PolicyApplied \/ PolicyBuilt \/ BuildFails
  \/ ReconciliationSucceeds \/ ReconciliationFails \/ ReportAfterReconcile
  \/ BlockCountFails \/ CycleNotDue \/ BeginCycle \/ CycleRefused
  \/ \E m \in Senders : CycleCheckpoint(m) \/ SubmitBatch(m)
  \/ FinishCycle \/ WaitForBlockPoll

Next ==
  Request \/ Answer \/ Work \/ Tick \/ NewBlock \/ WorkerRestart \/ ControlPlaneStops

Spec == Init /\ [][Next]_vars

(***************************************************************************)
(* Fairness: the runner and its threads run, and their RPCs return or time *)
(* out; the server thread is woken at the latest by its timed wait; time   *)
(* passes; the nodes mine.  No request is assumed to arrive.               *)
(***************************************************************************)
FairSpec ==
  Spec /\ WF_vars(Work) /\ WF_vars(Answer) /\ WF_vars(Tick) /\ WF_vars(NewBlock)

(***************************************************************************)
(* Properties.                                                             *)
(***************************************************************************)
Spamming == pc = "cycle"

Held == {l \in LeaseIds : granted[l] > 0}

\* Every variable has its type, and the acquire call in progress is recorded
\* exactly while the server thread is in it.
TypeOK ==
  /\ desired_state \in {"running", "paused"}
  /\ IsTable(leases)
  /\ policy \in Policies
  /\ generation \in Nat
  /\ pending_policy \subseteq PendingPolicies
  /\ \A p, q \in pending_policy : p = q
  /\ policy_failure \subseteq PendingPolicies
  /\ initialization_pending \in BOOLEAN
  /\ reconciliation_pending \in BOOLEAN
  /\ changes \in {"none", "seen", "unseen"}
  /\ phase \in Phases
  /\ in_flight \in BOOLEAN
  /\ server \in ServerStates
  /\ server \in {"await_lease", "rollback"} => acquiring \in AcquireCalls
  /\ wanted \subseteq PendingPolicies
  /\ patience \in Nat
  /\ pc \in WorkerStates
  /\ pc \in {"applying", "building"} => pending_policy # {}
  /\ engine \subseteq Policies
  /\ ready \in Nat
  /\ catch_up \subseteq Nat
  /\ ahead \in (-MaxRewind)..1
  /\ senders \in [Senders -> SenderStates]
  /\ \A m \in Senders : senders[m].at = "submit" => senders[m].left > 0
  /\ granted \in [LeaseIds -> Nat]
  /\ owned \subseteq LeaseIds
  /\ pause_acked \in BOOLEAN
  /\ control_up \in BOOLEAN

\* While an acknowledged lease lives, no cycle submits transactions and the
\* engine is neither being initialized nor reconciled (mark_pause_requested
\* acknowledges a pause from any program point without work in flight).
LeaseExcludesSpam ==
  Held # {} => pc \notin {"cycle", "initializing", "reconciling"}

\* What clients were told and the lease table agree: an acknowledged lease
\* stays in the table for the TTL promised, and once the server thread is
\* idle no lease that was not acknowledged pauses the worker.
LeaseTableMatchesGrants ==
  /\ Held \subseteq DOMAIN leases
  /\ server = "idle" =>
       \A l \in DOMAIN leases : leases[l].left > 0 => leases[l].left = granted[l]

\* An acknowledged manual pause holds until it is withdrawn, whatever leases,
\* policies and reconciliations come and go.
ManualPauseHolds == pause_acked => ~Spamming

\* A cycle runs on an engine tuned to the policy in force, also after a
\* rejected policy, a disabled period and a failed initialization
\* (complete_policy's bookkeeping of initialization_pending).
CycleHasItsEngine == Spamming => policy.enabled /\ engine = {policy}

\* What holds of the worker in every state besides the exclusion: its types,
\* its lease table, the manual pause and the engine of its cycles.
WorkerInvariant ==
  TypeOK /\ LeaseTableMatchesGrants /\ ManualPauseHolds /\ CycleHasItsEngine

\* "On lease release with chain_changed=true, reconcile both engines before
\* the next spam cycle", and likewise for an expired lease: a cycle begins
\* only when no possible chain change is newer than the last reconciliation.
ReconciledBeforeSending ==
  [][~Spamming /\ Spamming' => changes' = "none"]_vars

\* Does not hold (see README, Disagreements).
\* "spam policy cannot change while a pause lease is active": no step but a
\* restart changes the policy under an acknowledged lease.
PolicyFixedUnderLease ==
  [][Held # {} => UNCHANGED policy \/ WorkerRestart]_vars

\* The effective generation moves backwards only for a rollback request or
\* because the process started again.
NoSilentRegression ==
  [][generation' < generation =>
       WorkerRestart \/ \E p \in pending_policy : p.rollback]_vars

\* Every request the server thread blocks in is answered or times out.
EveryRequestAnswered == server # "idle" ~> server = "idle"

\* A pause ends the cycle in flight unless it is withdrawn, also one whose
\* request timed out, and although every kind of work asks for itself
\* whether to go on (cycle_checkpoint).
PauseEndsCycle ==
  desired_state = "paused" ~> (~Spamming \/ desired_state = "running")

\* A pending policy is decided, also when the request that brought it timed
\* out or the worker is paused.
PendingPolicyDecided == pending_policy # {} ~> pending_policy = {}

\* The node fails the runner.
Obstacle ==
  \/ WorkerRestart \/ InitializationFails \/ BuildFails \/ ReconciliationFails
  \/ BlockCountFails

\* An enabled worker that is left alone, not manually paused, and whose node
\* answers it from some point on spams again, whatever leases, failed
\* policies and pending reconciliations it was left with.
SpamResumes ==
  (<>[][~Obstacle]_vars) =>
    ((~control_up /\ desired_state = "running" /\ policy.enabled) ~>
       (Spamming \/ ~policy.enabled))

\* Nothing waits for ever: requests, cycles, pending policies and, once the
\* worker is left alone, spam itself.
SpamLive ==
  EveryRequestAnswered /\ PauseEndsCycle /\ PendingPolicyDecided /\ SpamResumes

\* The worker implements the gate its clients rely on (PauseGate), with a
\* cycle as its work.
Gate == INSTANCE PauseGate WITH
  Leases <- LeaseIds,
  held   <- Held,
  manual <- pause_acked,
  busy   <- Spamming

ImplementsPauseGate == Gate!Spec

=============================================================================
