--------------------------- MODULE MiningControl ---------------------------
(***************************************************************************)
(* The mining worker: the shared control state of                          *)
(* crates/mining-controller/src/control.rs and the two threads that use    *)
(* it.  The server thread answers one control request at a time and may    *)
(* block in it until the worker reaches a safe point; the mining thread    *)
(* runs the bootstrap stages and then the continuous mining loop.          *)
(*                                                                         *)
(* One action is one critical section of the control mutex.  Deadlines     *)
(* (Instant + Duration) are the time still left to them: Tick lets a unit  *)
(* of time pass, and "deadline > now" is "left > 0".                       *)
(***************************************************************************)
EXTENDS LeaseTable

CONSTANTS
  LeaseIds,          \* lease identifiers jobs choose
  Owners,            \* owner_job_id and purpose of a lease request
  Ttls,              \* the ttl_secs of lease requests, in ticks
  SafePointTimeout,  \* SAFE_POINT_TIMEOUT, in ticks
  Stages,            \* bootstrap stages of an empty chain
  Policies,          \* mining policies
  InitialPolicy,     \* the policy of the worker's environment
  PolicyRequests     \* the set_policy requests of the control plane

ASSUME ConstantsAssumption ==
  /\ Ttls \subseteq Nat \ {0}
  /\ SafePointTimeout \in Nat
  /\ Stages \in Nat
  /\ InitialPolicy \in Policies
  /\ PolicyRequests \subseteq [generation : Nat, policy : Policies, rollback : BOOLEAN]

VARIABLES
  \* struct Inner, under the mutex
  desired_state, leases, policy, generation, pending_policy, phase, in_flight,
  \* the server thread: the request it is blocked in, and its remaining wait
  server, acquiring, awaited, patience,
  \* the mining thread: program counter and locals
  pc, stages, observed, round, sample_fresh,
  \* the node: a generate call whose RPC failed may still be running there
  orphaned,
  \* what the clients were told: remaining time of every acknowledged lease,
  \* whether a manual pause was acknowledged, whether clients still call
  granted, pause_acked, control_up

inner == <<desired_state, leases, policy, generation, pending_policy, phase, in_flight>>
serverVars == <<server, acquiring, awaited, patience>>
workerVars == <<pc, stages, observed, round, sample_fresh>>
clientVars == <<granted, pause_acked, control_up>>
vars == <<inner, serverVars, workerVars, orphaned, clientVars>>

Lease == [owner : Owners, left : Nat]
Phases == {"bootstrapping", "running", "pausing", "paused"}
ServerStates == {"idle", "await_pause", "await_lease", "rollback", "await_generation"}
WorkerStates ==
  {"boot_safe_point", "boot_stage", "safe_point", "sampled", "synced",
   "generating", "propagating", "interval"}
AcquireCalls == [id : LeaseIds, lease : Lease, previous : SUBSET Lease]
NoAcquire == [id |-> "none"]
PendingPolicies == [generation : Nat, policy : Policies, rollback : BOOLEAN]

\* A lease table, as HashMap<String, LeaseEntry>.
IsTable(t) ==
  /\ t = [l \in DOMAIN t |-> t[l]]
  /\ DOMAIN t \subseteq LeaseIds
  /\ \A l \in DOMAIN t : t[l] \in Lease

(***************************************************************************)
(* Helpers of control.rs.                                                  *)
(***************************************************************************)
\* Mutant of IsEffectivelyPaused: the intention to pause counts as a pause.
PausingIsPaused == phase \in {"pausing", "paused"}

IsEffectivelyPaused == phase = "paused" /\ ~in_flight

\* Mutant of MarkPausing: a worker without a call in flight counts as resting.
MarkPausedUnlessBusy == IF in_flight THEN "pausing" ELSE "paused"

\* A pause request moves the phase to Pausing unless the worker already rests.
MarkPausing == IF IsEffectivelyPaused THEN phase ELSE "pausing"

\* Mutant of ApplyPendingPolicy: the pending policy is read but not taken.
ApplyWithoutTake ==
  /\ UNCHANGED pending_policy
  /\ IF pending_policy = {}
     THEN UNCHANGED <<policy, generation>>
     ELSE \E p \in pending_policy : policy' = p.policy /\ generation' = p.generation

\* Policy changes take effect only here, and the mining thread is the only
\* caller.  The option pending_policy is a set with at most one member.
ApplyPendingPolicy ==
  /\ pending_policy' = {}
  /\ IF pending_policy = {}
     THEN UNCHANGED <<policy, generation>>
     ELSE \E p \in pending_policy : policy' = p.policy /\ generation' = p.generation

(***************************************************************************)
(* The worker starts bootstrapping, unpaused, under the policy of its      *)
(* environment.  A chain that already has blocks skips finished stages.    *)
(***************************************************************************)
Init ==
  /\ desired_state = "running"
  /\ leases = EmptyTable
  /\ policy = InitialPolicy
  /\ generation = 0
  /\ pending_policy = {}
  /\ phase = "bootstrapping"
  /\ in_flight = FALSE
  /\ server = "idle"
  /\ acquiring = NoAcquire
  /\ awaited = 0
  /\ patience = 0
  /\ pc = "boot_safe_point"
  /\ stages \in 0..Stages
  /\ observed = {}
  /\ round = 0
  /\ sample_fresh = FALSE
  /\ orphaned = FALSE
  /\ granted = [l \in LeaseIds |-> 0]
  /\ pause_acked = FALSE
  /\ control_up = TRUE

(***************************************************************************)
(* The server thread.  A request is taken only when the previous one has   *)
(* been answered.                                                          *)
(***************************************************************************)
Accepts == server = "idle" /\ control_up

\* GET status: the read expires leases.
Status ==
  /\ Accepts
  /\ leases' = ExpireLeases(leases)
  /\ UNCHANGED <<desired_state, policy, generation, pending_policy, phase, in_flight,
                 serverVars, workerVars, orphaned, clientVars>>

Resume ==
  /\ Accepts
  /\ desired_state' = "running"
  /\ pause_acked' = FALSE
  /\ UNCHANGED <<leases, policy, generation, pending_policy, phase, in_flight,
                 serverVars, workerVars, orphaned, granted, control_up>>

Pause ==
  /\ Accepts
  /\ desired_state' = "paused"
  /\ phase' = MarkPausing
  /\ IF IsEffectivelyPaused
     THEN pause_acked' = TRUE /\ UNCHANGED <<server, patience>>
     ELSE /\ server' = "await_pause"
          /\ patience' = SafePointTimeout
          /\ UNCHANGED pause_acked
  /\ UNCHANGED <<leases, policy, generation, pending_policy, in_flight,
                 acquiring, awaited, workerVars, orphaned, granted, control_up>>

AckPause ==
  /\ server = "await_pause" /\ IsEffectivelyPaused
  /\ server' = "idle" /\ patience' = 0
  /\ pause_acked' = TRUE
  /\ UNCHANGED <<inner, acquiring, awaited, workerVars, orphaned, granted, control_up>>

\* The request fails; desired_state stays Paused.
PauseTimesOut ==
  /\ server = "await_pause" /\ patience = 0 /\ ~IsEffectivelyPaused
  /\ server' = "idle"
  /\ UNCHANGED <<inner, acquiring, awaited, patience, workerVars, orphaned, clientVars>>

\* The lease ID is held by another job: the request only expires leases.
RefuseLease(id, owner) ==
  /\ Accepts
  /\ id \in DOMAIN ExpireLeases(leases) /\ leases[id].owner # owner
  /\ leases' = ExpireLeases(leases)
  /\ UNCHANGED <<desired_state, policy, generation, pending_policy, phase, in_flight,
                 serverVars, workerVars, orphaned, clientVars>>

AcquireLease(id, owner, ttl) ==
  LET live  == ExpireLeases(leases)
      lease == [owner |-> owner, left |-> ttl]
  IN /\ Accepts
     /\ id \in DOMAIN live => live[id].owner = owner
     /\ leases' = Insert(live, id, lease)
     /\ phase' = MarkPausing
     /\ IF IsEffectivelyPaused
        THEN /\ granted' = [granted EXCEPT ![id] = ttl]
             /\ UNCHANGED <<server, acquiring, patience>>
        ELSE /\ server' = "await_lease"
             /\ acquiring' = [id |-> id, lease |-> lease,
                              previous |-> {live[l] : l \in DOMAIN live \cap {id}}]
             /\ patience' = SafePointTimeout
             /\ UNCHANGED granted
     /\ UNCHANGED <<desired_state, policy, generation, pending_policy, in_flight, awaited,
                    workerVars, orphaned, pause_acked, control_up>>

\* The client is entitled to what is left of the TTL it asked for.
AckLease ==
  /\ server = "await_lease" /\ IsEffectivelyPaused
  /\ granted' = [granted EXCEPT ![acquiring.id] = acquiring.lease.left]
  /\ server' = "idle" /\ acquiring' = NoAcquire /\ patience' = 0
  /\ UNCHANGED <<inner, awaited, workerVars, orphaned, pause_acked, control_up>>

\* The wait gives up and drops the lock; the rollback takes it again.
LeaseTimesOut ==
  /\ server = "await_lease" /\ patience = 0 /\ ~IsEffectivelyPaused
  /\ server' = "rollback"
  /\ UNCHANGED <<inner, acquiring, awaited, patience, workerVars, orphaned, clientVars>>

RollbackUnacquiredLease ==
  /\ server = "rollback"
  /\ leases' = RollbackTable(leases, acquiring)
  /\ server' = "idle" /\ acquiring' = NoAcquire
  /\ UNCHANGED <<desired_state, policy, generation, pending_policy, phase, in_flight,
                 awaited, patience, workerVars, orphaned, clientVars>>

RenewLease(id, ttl) ==
  LET live == ExpireLeases(leases)
  IN /\ Accepts
     /\ IF id \in DOMAIN live
        THEN /\ leases' = [live EXCEPT ![id].left = ttl]
             /\ granted' = [granted EXCEPT ![id] = ttl]
        ELSE leases' = live /\ UNCHANGED granted
     /\ UNCHANGED <<desired_state, policy, generation, pending_policy, phase, in_flight,
                    serverVars, workerVars, orphaned, pause_acked, control_up>>

ReleaseLease(id) ==
  /\ Accepts
  /\ leases' = Remove(ExpireLeases(leases), id)
  /\ granted' = [granted EXCEPT ![id] = 0]
  /\ UNCHANGED <<desired_state, policy, generation, pending_policy, phase, in_flight,
                 serverVars, workerVars, orphaned, pause_acked, control_up>>

\* Mutant of RefusedPolicy: the staleness check is missing.
RefusedWithoutStaleness(r) ==
  ~r.rollback /\ r.generation = generation /\ r.policy # policy

\* set_policy refuses an old generation and a second policy for the current
\* one, except for a rollback; the policy in force is acknowledged at once.
RefusedPolicy(r) ==
  /\ ~r.rollback
  /\ \/ r.generation < generation
     \/ r.generation = generation /\ r.policy # policy

InForce(r) == r.generation = generation /\ r.policy = policy

\* wait_for_generation compares generations only: a rollback to the current
\* generation number is acknowledged while its policy is still pending.
AwaitGeneration(g) ==
  IF generation = g
  THEN UNCHANGED <<server, awaited, patience>>
  ELSE server' = "await_generation" /\ awaited' = g /\ patience' = SafePointTimeout

\* Mutant of SetPolicy: the server thread applies the policy itself.
SetPolicyAtOnce(r) ==
  /\ Accepts
  /\ ~RefusedPolicy(r) /\ ~InForce(r) /\ pending_policy = {}
  /\ policy' = r.policy /\ generation' = r.generation
  /\ UNCHANGED <<desired_state, leases, pending_policy, phase, in_flight,
                 serverVars, workerVars, orphaned, clientVars>>

SetPolicy(r) ==
  /\ Accepts
  /\ ~RefusedPolicy(r) /\ ~InForce(r) /\ pending_policy = {}
  /\ pending_policy' = {r}
  /\ AwaitGeneration(r.generation)
  /\ UNCHANGED <<desired_state, leases, policy, generation, phase, in_flight,
                 acquiring, workerVars, orphaned, clientVars>>

\* A retry of the pending request waits for it; any other request is refused.
JoinPendingPolicy(r) ==
  /\ Accepts
  /\ ~RefusedPolicy(r) /\ ~InForce(r)
  /\ \E p \in pending_policy : p.generation = r.generation /\ p.policy = r.policy
  /\ AwaitGeneration(r.generation)
  /\ UNCHANGED <<inner, acquiring, workerVars, orphaned, clientVars>>

AckPolicy ==
  /\ server = "await_generation" /\ generation = awaited
  /\ server' = "idle" /\ awaited' = 0 /\ patience' = 0
  /\ UNCHANGED <<inner, acquiring, workerVars, orphaned, clientVars>>

\* The request fails; the policy stays pending.
PolicyTimesOut ==
  /\ server = "await_generation" /\ patience = 0 /\ generation # awaited
  /\ server' = "idle" /\ awaited' = 0
  /\ UNCHANGED <<inner, acquiring, patience, workerVars, orphaned, clientVars>>

(***************************************************************************)
(* The mining thread.  A safe point loops while a pause is requested; each *)
(* evaluation of the loop is one step, after any wake-up of the condition  *)
(* variable.                                                               *)
(***************************************************************************)
BootstrapSafePoint ==
  LET live == ExpireLeases(leases)
  IN /\ pc = "boot_safe_point"
     /\ ApplyPendingPolicy
     /\ leases' = live
     /\ IF PauseRequested(desired_state, live)
        THEN phase' = "paused" /\ UNCHANGED pc
        ELSE /\ phase' = "bootstrapping"
             /\ pc' = IF stages > 0 THEN "boot_stage" ELSE "safe_point"
     /\ UNCHANGED <<desired_state, in_flight, serverVars, stages, observed, round,
                    sample_fresh, orphaned, clientVars>>

\* The generate calls of one stage run without in_flight being set.
BootstrapStage ==
  /\ pc = "boot_stage"
  /\ stages' = stages - 1
  /\ pc' = "boot_safe_point"
  /\ UNCHANGED <<inner, serverVars, observed, round, sample_fresh, orphaned, clientVars>>

\* mining_safe_point: a generation the scheduler has not seen resets its RNG
\* and with it the worth of an interval already sampled.
SafePoint ==
  /\ ApplyPendingPolicy
  /\ leases' = ExpireLeases(leases)
  /\ observed' = {generation'}
  /\ phase' = IF PauseRequested(desired_state, leases') THEN "paused" ELSE "running"
  /\ UNCHANGED <<desired_state, in_flight, serverVars, stages, orphaned, clientVars>>

SamplingSafePoint ==
  /\ pc = "safe_point"
  /\ SafePoint
  /\ IF phase' = "running"
     THEN pc' = "sampled" /\ round' = generation' /\ sample_fresh' = TRUE
     ELSE UNCHANGED <<pc, round, sample_fresh>>

\* Re-entry after sampling: another generation means sampling again.
ResampleSafePoint ==
  /\ pc = "sampled"
  /\ SafePoint
  /\ sample_fresh' = (sample_fresh /\ observed = observed')
  /\ pc' = IF phase' = "paused" THEN "sampled"
           ELSE IF generation' # round THEN "safe_point" ELSE "synced"
  /\ UNCHANGED round

\* begin_generate: the pause or policy request that won the race since the
\* last safe point keeps the RPC from starting.
MayGenerate(live) ==
  /\ ~PauseRequested(desired_state, live)
  /\ pending_policy = {}
  /\ generation = round

BeginGenerate ==
  LET live == ExpireLeases(leases)
  IN /\ pc = "synced"
     /\ leases' = live
     /\ IF MayGenerate(live)
        THEN in_flight' = TRUE /\ pc' = "generating"
        ELSE pc' = "safe_point" /\ UNCHANGED in_flight
     /\ UNCHANGED <<desired_state, policy, generation, pending_policy, phase, serverVars,
                    stages, observed, round, sample_fresh, orphaned, clientVars>>

\* The RPC returned a block; the other miner has yet to reach its height.
Generated ==
  /\ pc = "generating"
  /\ pc' = "propagating"
  /\ UNCHANGED <<inner, serverVars, stages, observed, round, sample_fresh, orphaned,
                 clientVars>>

FinishGenerate ==
  /\ in_flight' = FALSE
  /\ phase' = IF PauseRequested(desired_state, leases) THEN "paused" ELSE "running"
  /\ UNCHANGED <<desired_state, leases, policy, generation, pending_policy, serverVars,
                 stages, observed, round, sample_fresh, clientVars>>

\* Without interval time left the loop turns around at once.
Propagated ==
  /\ pc = "propagating"
  /\ FinishGenerate
  /\ pc' \in {"interval", "safe_point"}
  /\ UNCHANGED orphaned

\* The RPC failed; the node may still be at work on it.
GenerateFails ==
  /\ pc = "generating"
  /\ FinishGenerate
  /\ pc' = "interval"
  /\ orphaned' \in {orphaned, TRUE}

\* wait_interval ends by time or is interrupted; both lead to the safe point.
WaitInterval ==
  /\ pc = "interval"
  /\ pc' = "safe_point"
  /\ leases' = ExpireLeases(leases)
  /\ UNCHANGED <<desired_state, policy, generation, pending_policy, phase, in_flight,
                 serverVars, stages, observed, round, sample_fresh, orphaned, clientVars>>

(***************************************************************************)
(* Environment.                                                            *)
(***************************************************************************)
\* The node ends the generate call nobody waits for any more.
OrphanedGenerateEnds ==
  /\ orphaned
  /\ orphaned' = FALSE
  /\ UNCHANGED <<inner, serverVars, workerVars, clientVars>>

Tick ==
  /\ leases' = [l \in DOMAIN leases |-> Aged(leases[l])]
  /\ acquiring' = IF server \in {"await_lease", "rollback"}
                  THEN [acquiring EXCEPT !.lease = Aged(@), !.previous = {Aged(p) : p \in @}]
                  ELSE acquiring
  /\ patience' = Less(patience)
  /\ granted' = [l \in LeaseIds |-> Less(granted[l])]
  /\ UNCHANGED <<desired_state, policy, generation, pending_policy, phase, in_flight,
                 server, awaited, workerVars, orphaned, pause_acked, control_up>>

\* A failed stage, an exhausted rpc_retry or a crash ends the process, and it
\* is started again: leases, desired state and policy are forgotten, and with
\* them what clients were told.
WorkerRestart ==
  /\ desired_state' = "running" /\ leases' = EmptyTable
  /\ policy' = InitialPolicy /\ generation' = 0 /\ pending_policy' = {}
  /\ phase' = "bootstrapping" /\ in_flight' = FALSE
  /\ server' = "idle" /\ acquiring' = NoAcquire /\ awaited' = 0 /\ patience' = 0
  /\ pc' = "boot_safe_point" /\ stages' \in 0..Stages
  /\ observed' = {} /\ round' = 0 /\ sample_fresh' = FALSE
  /\ granted' = [l \in LeaseIds |-> 0] /\ pause_acked' = FALSE
  /\ orphaned' \in {orphaned, orphaned \/ pc \in {"boot_stage", "generating"}}
  /\ UNCHANGED control_up

\* The control plane stops for good.
ControlPlaneStops ==
  /\ control_up
  /\ control_up' = FALSE
  /\ UNCHANGED <<inner, serverVars, workerVars, orphaned, granted, pause_acked>>

Request ==
  \/ Status \/ Resume \/ Pause
  \/ \E id \in LeaseIds :
       \/ ReleaseLease(id)
       \/ \E ttl \in Ttls : RenewLease(id, ttl)
       \/ \E owner \in Owners :
            RefuseLease(id, owner) \/ \E ttl \in Ttls : AcquireLease(id, owner, ttl)
  \/ \E r \in PolicyRequests : SetPolicy(r) \/ JoinPendingPolicy(r)

Answer ==
  \/ AckPause \/ PauseTimesOut \/ AckLease \/ LeaseTimesOut \/ RollbackUnacquiredLease
  \/ AckPolicy \/ PolicyTimesOut

Mine ==
  \/ BootstrapSafePoint \/ BootstrapStage \/ SamplingSafePoint \/ ResampleSafePoint
  \/ BeginGenerate \/ Generated \/ Propagated \/ GenerateFails \/ WaitInterval

Next ==
  \/ Request \/ Answer \/ Mine
  \/ OrphanedGenerateEnds \/ Tick \/ WorkerRestart \/ ControlPlaneStops

Spec == Init /\ [][Next]_vars

(***************************************************************************)
(* Fairness: the mining thread runs, and its RPCs return or time out       *)
(* (RPC_TIMEOUT_SECS); the server thread is woken at the latest by its     *)
(* timed wait; time passes.  No request is assumed to arrive.              *)
(***************************************************************************)
FairSpec == Spec /\ WF_vars(Mine) /\ WF_vars(Answer) /\ WF_vars(Tick)

(***************************************************************************)
(* Properties.                                                             *)
(***************************************************************************)
\* The worker has a call outstanding that may add blocks to the chain.
Mutates == pc \in {"boot_stage", "generating", "propagating"}

\* Every variable has its type, and the acquire call in progress is recorded
\* exactly while the server thread is in it.
TypeOK ==
  /\ desired_state \in {"running", "paused"}
  /\ IsTable(leases)
  /\ policy \in Policies
  /\ generation \in Nat
  /\ pending_policy \subseteq PendingPolicies
  /\ \A p, q \in pending_policy : p = q
  /\ phase \in Phases
  /\ in_flight \in BOOLEAN
  /\ server \in ServerStates
  /\ server \in {"await_lease", "rollback"} => acquiring \in AcquireCalls
  /\ awaited \in Nat
  /\ patience \in Nat
  /\ pc \in WorkerStates
  /\ stages \in Nat
  /\ pc = "boot_stage" => stages > 0
  /\ observed \subseteq Nat
  /\ round \in Nat
  /\ sample_fresh \in BOOLEAN
  /\ orphaned \in BOOLEAN
  /\ granted \in [LeaseIds -> Nat]
  /\ pause_acked \in BOOLEAN
  /\ control_up \in BOOLEAN

\* While an acknowledged lease lives, the worker has no generate call
\* outstanding, neither of the mining loop nor of a bootstrap stage, whose
\* calls in_flight does not cover (acquire_lease, begin_generate).
PauseLeaseExcludesMining ==
  \A l \in LeaseIds : granted[l] > 0 => ~Mutates

\* What clients were told and the lease table agree: an acknowledged lease
\* stays in the table for the TTL promised, and once the server thread is
\* idle the table pauses the worker for no lease that was not acknowledged
\* (rollback_unacquired_lease leaves no orphan pause).
LeaseTableMatchesGrants ==
  /\ \A l \in LeaseIds : granted[l] > 0 => l \in DOMAIN leases
  /\ server = "idle" =>
       \A l \in DOMAIN leases : leases[l].left > 0 => leases[l].left = granted[l]

\* Releasing or expiring leases never resumes a worker whose manual pause was
\* acknowledged (set_state, pause_requested).
ManualPauseOutlivesLeases == pause_acked => ~Mutates

\* A generate call runs under the generation its round was scheduled with,
\* and the scheduler's RNG belongs to that generation (begin_generate).
GenerateUnderItsPolicy ==
  pc \in {"generating", "propagating"} => round = generation /\ observed = {generation}

\* The effective generation moves backwards only for a rollback request or
\* because the process started again (set_policy's staleness check, also for
\* a request that waited or was joined by a retry).
NoSilentRegression ==
  [][generation' < generation =>
       WorkerRestart \/ \E p \in pending_policy : p.rollback]_vars

\* Every request the server thread blocks in is answered or times out, so the
\* next one is served.
EveryRequestAnswered == server # "idle" ~> server = "idle"

\* A manual pause takes effect unless it is withdrawn, also when the request
\* that asked for it timed out.
PauseTakesEffect ==
  desired_state = "paused" ~> (IsEffectivelyPaused \/ desired_state = "running")

\* When the control plane is gone its leases expire from the table: no pause
\* outlives the job that owned it.
AbandonedLeasesExpire == ~control_up ~> DOMAIN leases = {}

\* A worker that is left alone, not manually paused and not in a crash loop
\* mines again, whatever leases and policies it was left with.
MiningResumes ==
  (<>[][~WorkerRestart]_vars) =>
    ((~control_up /\ desired_state = "running") ~> pc = "generating")

\* Nothing waits for ever: what the worker owes its clients once they have
\* asked, and what it does when they are gone.
MiningLive ==
  EveryRequestAnswered /\ PauseTakesEffect /\ AbandonedLeasesExpire /\ MiningResumes

\* Does not hold (see README, Disagreements).
\* "Pause after any in-flight generate and propagation check completes": an
\* acknowledged pause leaves no generate call running on the node.
PauseFollowsGenerate == pause_acked => ~orphaned

\* Does not hold (see README, Disagreements).
\* "A policy update here resets the RNG and must resample rather than use an
\* interval from the old generation": the interval in use was sampled after
\* the last reset of the RNG.
SampleFollowsReset == pc = "synced" => sample_fresh

\* The worker implements the gate its clients rely on: a pause is granted
\* only at rest and work begins only when no grant is outstanding, step by
\* step (refinement of PauseGate).
Gate == INSTANCE PauseGate WITH
  Leases <- LeaseIds,
  held   <- {l \in LeaseIds : granted[l] > 0},
  manual <- pause_acked,
  busy   <- Mutates

ImplementsPauseGate == Gate!Spec

=============================================================================
