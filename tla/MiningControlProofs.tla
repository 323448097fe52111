------------------------ MODULE MiningControlProofs ------------------------
(***************************************************************************)
(* Theorems about the mining worker, for every set of leases, owners,      *)
(* policies and requests and for every timeout.  TypeOK is inductive as it *)
(* stands.  The pause properties need LeaseInv: they are preserved because *)
(* an acknowledged pause is backed by a lease entry (or the desired state) *)
(* and by a phase of Paused, and a phase of Paused rules out every program *)
(* point from which a call is outstanding or about to start.               *)
(***************************************************************************)
EXTENDS MiningControl, TLAPS

Blocked == server \in {"await_lease", "rollback"}

\* in_flight covers exactly the mining loop's calls, and a phase of Paused
\* rules out every outstanding call and the last step before one.
PhaseInv ==
  /\ in_flight <=> pc \in {"generating", "propagating"}
  /\ phase = "paused" => pc \in {"boot_safe_point", "safe_point", "sampled", "interval"}

\* An acknowledged pause is backed by the state that keeps the worker paused.
GrantInv ==
  /\ \A l \in LeaseIds : granted[l] > 0 =>
       /\ l \in DOMAIN leases
       /\ leases[l].left = granted[l]
       /\ phase = "paused"
  /\ pause_acked => desired_state = "paused" /\ phase = "paused"
  /\ server = "await_pause" => desired_state = "paused"

\* A request waiting for its lease implies that nobody holds one, and its
\* tentative entry is in the table until it expires.
AcquireInv ==
  Blocked =>
    /\ \A l \in LeaseIds : granted[l] = 0
    /\ acquiring.previous = {}
    /\ acquiring.id \in DOMAIN leases => leases[acquiring.id] = acquiring.lease
    /\ acquiring.lease.left > 0 => acquiring.id \in DOMAIN leases

\* Every live entry of the table is acknowledged or is the tentative one.
TableInv ==
  \A l \in DOMAIN leases : leases[l].left > 0 =>
    leases[l].left = granted[l] \/ (Blocked /\ l = acquiring.id)

LeaseInv == TypeOK /\ PhaseInv /\ GrantInv /\ AcquireInv /\ TableInv

(***************************************************************************)
(* What the helpers on the lease table do.                                 *)
(***************************************************************************)
\* expire_leases keeps exactly the entries with time left, unchanged.
LEMMA ExpireFacts ==
  ASSUME NEW t, IsTable(t)
  PROVE  /\ IsTable(ExpireLeases(t))
         /\ DOMAIN ExpireLeases(t) = {l \in DOMAIN t : t[l].left > 0}
         /\ \A l \in DOMAIN ExpireLeases(t) : ExpireLeases(t)[l] = t[l]
  BY DEF IsTable, ExpireLeases

\* Inserting a lease keeps the table a table and changes one entry.
LEMMA InsertFacts ==
  ASSUME NEW t, IsTable(t), NEW id \in LeaseIds, NEW lease \in Lease
  PROVE  /\ IsTable(Insert(t, id, lease))
         /\ DOMAIN Insert(t, id, lease) = DOMAIN t \cup {id}
         /\ Insert(t, id, lease)[id] = lease
         /\ \A l \in DOMAIN t : l # id => Insert(t, id, lease)[l] = t[l]
  BY DEF IsTable, Insert

\* Removing a lease keeps the table a table and the other entries.
LEMMA RemoveFacts ==
  ASSUME NEW t, IsTable(t), NEW id
  PROVE  /\ IsTable(Remove(t, id))
         /\ DOMAIN Remove(t, id) = DOMAIN t \ {id}
         /\ \A l \in DOMAIN Remove(t, id) : Remove(t, id)[l] = t[l]
  BY DEF IsTable, Remove

\* Ageing a lease by one tick keeps its owner.
LEMMA AgedFacts ==
  ASSUME NEW lease \in Lease
  PROVE  /\ Aged(lease) \in Lease
         /\ Aged(lease).left = Less(lease.left)
  BY DEF Aged, Less, Lease

\* A timed-out acquire leaves a table behind.
LEMMA RollbackFacts ==
  ASSUME NEW t, IsTable(t), NEW a \in AcquireCalls
  PROVE  IsTable(RollbackTable(t, a))
<1>1. a.id \in LeaseIds /\ a.previous \subseteq Lease
  BY DEF AcquireCalls
<1>2. a.previous # {} => (CHOOSE p \in a.previous : TRUE) \in Lease
  BY <1>1
<1> QED
  BY <1>1, <1>2, ExpireFacts, InsertFacts, RemoveFacts DEF RollbackTable, RestoredTable

(***************************************************************************)
(* Type correctness.                                                       *)
(***************************************************************************)
\* The initial state has its types.
LEMMA TypeInit == Init => TypeOK
<1> SUFFICES ASSUME Init PROVE TypeOK
  OBVIOUS
<1>1. /\ in_flight \in BOOLEAN /\ sample_fresh \in BOOLEAN /\ orphaned \in BOOLEAN
      /\ pause_acked \in BOOLEAN /\ control_up \in BOOLEAN
  BY Zenon DEF Init
<1>2. IsTable(leases)
  BY DEF Init, IsTable, EmptyTable
<1> QED
  BY <1>1, <1>2, ConstantsAssumption
  DEF Init, TypeOK, EmptyTable, Phases, ServerStates, WorkerStates

\* Every step keeps the types.
LEMMA TypeStep == TypeOK /\ [Next]_vars => TypeOK'
<1> SUFFICES ASSUME TypeOK, [Next]_vars
             PROVE  TypeOK'
  OBVIOUS
<1> USE ConstantsAssumption DEF Phases, ServerStates, WorkerStates
<1>t. IsTable(leases)
  BY DEF TypeOK
<1>e. IsTable(ExpireLeases(leases))
  BY <1>t, ExpireFacts
<1>1. CASE Status
  BY <1>1, <1>e DEF Status, TypeOK, serverVars, workerVars, clientVars
<1>2. CASE Resume
  <2>1. pause_acked' \in BOOLEAN
    BY <1>2, Zenon DEF Resume
  <2> QED
    BY <1>2, <2>1 DEF Resume, TypeOK, serverVars, workerVars
<1>3. CASE Pause
  <2>1. pause_acked' \in BOOLEAN
    BY <1>3, Zenon DEF Pause, TypeOK
  <2>2. phase' \in Phases
    BY <1>3 DEF Pause, TypeOK, MarkPausing
  <2> QED
    BY <1>3, <2>1, <2>2 DEF Pause, TypeOK, workerVars
<1>4. CASE AckPause
  BY <1>4 DEF AckPause, TypeOK, inner, workerVars
<1>5. CASE PauseTimesOut
  BY <1>5 DEF PauseTimesOut, TypeOK, inner, workerVars, clientVars
<1>6. CASE AckLease
  <2>1. acquiring \in AcquireCalls /\ acquiring.id \in LeaseIds /\ acquiring.lease.left \in Nat
    BY <1>6 DEF AckLease, TypeOK, AcquireCalls, Lease
  <2> QED
    BY <1>6, <2>1 DEF AckLease, TypeOK, inner, workerVars
<1>7. CASE LeaseTimesOut
  BY <1>7 DEF LeaseTimesOut, TypeOK, inner, workerVars, clientVars
<1>8. CASE RollbackUnacquiredLease
  <2>1. IsTable(RollbackTable(leases, acquiring))
    BY <1>8, <1>t, RollbackFacts DEF RollbackUnacquiredLease, TypeOK
  <2> QED
    BY <1>8, <2>1 DEF RollbackUnacquiredLease, TypeOK, workerVars, clientVars
<1>9. ASSUME NEW id \in LeaseIds, ReleaseLease(id)
      PROVE  TypeOK'
  <2>1. IsTable(Remove(ExpireLeases(leases), id))
    BY <1>e, RemoveFacts
  <2> QED
    BY <1>9, <2>1 DEF ReleaseLease, TypeOK, serverVars, workerVars
<1>10. ASSUME NEW id \in LeaseIds, NEW ttl \in Ttls, RenewLease(id, ttl)
       PROVE  TypeOK'
  <2>1. ttl \in Nat
    OBVIOUS
  <2>2. IsTable(leases')
    <3>1. CASE id \in DOMAIN ExpireLeases(leases)
      <4>1. leases' = [ExpireLeases(leases) EXCEPT ![id].left = ttl]
        BY <1>10, <3>1 DEF RenewLease
      <4>2. [ExpireLeases(leases)[id] EXCEPT !.left = ttl] \in Lease
        BY <1>e, <2>1, <3>1 DEF IsTable, Lease
      <4> QED
        BY <1>e, <3>1, <4>1, <4>2 DEF IsTable
    <3>2. CASE id \notin DOMAIN ExpireLeases(leases)
      BY <1>10, <1>e, <3>2 DEF RenewLease
    <3> QED
      BY <3>1, <3>2
  <2> QED
    BY <1>10, <2>1, <2>2 DEF RenewLease, TypeOK, serverVars, workerVars
<1>11. ASSUME NEW id \in LeaseIds, NEW owner \in Owners, RefuseLease(id, owner)
       PROVE  TypeOK'
  BY <1>11, <1>e DEF RefuseLease, TypeOK, serverVars, workerVars, clientVars
<1>12. ASSUME NEW id \in LeaseIds, NEW owner \in Owners, NEW ttl \in Ttls,
              AcquireLease(id, owner, ttl)
       PROVE  TypeOK'
  <2> DEFINE lease == [owner |-> owner, left |-> ttl]
             live == ExpireLeases(leases)
  <2>1. ttl \in Nat /\ lease \in Lease
    BY DEF Lease
  <2>2. IsTable(leases')
    BY <1>12, <1>e, <2>1, InsertFacts DEF AcquireLease
  <2>3. {live[l] : l \in DOMAIN live \cap {id}} \subseteq Lease
    BY <1>e DEF IsTable
  <2>4. [id |-> id, lease |-> lease,
         previous |-> {live[l] : l \in DOMAIN live \cap {id}}] \in AcquireCalls
    BY <2>1, <2>3 DEF AcquireCalls
  <2> HIDE DEF lease, live
  <2>5. granted' \in [LeaseIds -> Nat]
    BY <1>12, <2>1 DEF AcquireLease, TypeOK
  <2>6. phase' \in Phases
    BY <1>12 DEF AcquireLease, MarkPausing, TypeOK
  <2>7. /\ server' \in ServerStates /\ patience' \in Nat
        /\ server' \in {"await_lease", "rollback"} => acquiring' \in AcquireCalls
    BY <1>12, <2>4 DEF AcquireLease, Accepts, TypeOK, lease, live
  <2> QED
    BY <1>12, <2>2, <2>5, <2>6, <2>7 DEF AcquireLease, TypeOK, workerVars
<1>13. ASSUME NEW r \in PolicyRequests, SetPolicy(r) \/ JoinPendingPolicy(r)
       PROVE  TypeOK'
  <2>1. r \in PendingPolicies /\ r.generation \in Nat
    BY DEF PendingPolicies
  <2>2. CASE SetPolicy(r)
    BY <2>1, <2>2 DEF SetPolicy, AwaitGeneration, TypeOK, workerVars, clientVars
  <2>3. CASE JoinPendingPolicy(r)
    BY <2>1, <2>3 DEF JoinPendingPolicy, AwaitGeneration, TypeOK, inner, workerVars, clientVars
  <2> QED
    BY <1>13, <2>2, <2>3
<1>14. CASE AckPolicy
  BY <1>14 DEF AckPolicy, TypeOK, inner, workerVars, clientVars
<1>15. CASE PolicyTimesOut
  BY <1>15 DEF PolicyTimesOut, TypeOK, inner, workerVars, clientVars
<1>16. ASSUME ApplyPendingPolicy
       PROVE  /\ policy' \in Policies /\ generation' \in Nat
              /\ pending_policy' \subseteq PendingPolicies
              /\ \A p, q \in pending_policy' : p = q
  BY <1>16 DEF ApplyPendingPolicy, TypeOK, PendingPolicies
<1>17. CASE BootstrapSafePoint
  BY <1>17, <1>16, <1>e DEF BootstrapSafePoint, TypeOK, serverVars, clientVars
<1>18. CASE BootstrapStage
  BY <1>18 DEF BootstrapStage, TypeOK, inner, serverVars, clientVars
<1>19. CASE SamplingSafePoint
  BY <1>19, <1>16, <1>e DEF SamplingSafePoint, SafePoint, TypeOK, serverVars, clientVars
<1>20. CASE ResampleSafePoint
  <2>1. sample_fresh' \in BOOLEAN
    BY <1>20, Zenon DEF ResampleSafePoint, TypeOK
  <2>2. /\ ApplyPendingPolicy /\ pc' \in {"sampled", "safe_point", "synced"}
        /\ phase' \in {"paused", "running"} /\ leases' = ExpireLeases(leases)
        /\ observed' = {generation'}
        /\ UNCHANGED <<desired_state, in_flight, serverVars, stages, orphaned, clientVars, round>>
    BY <1>20 DEF ResampleSafePoint, SafePoint
  <2>3. /\ policy' \in Policies /\ generation' \in Nat
        /\ pending_policy' \subseteq PendingPolicies
        /\ \A p, q \in pending_policy' : p = q
    BY <1>16, <2>2
  <2>4. observed' \subseteq Nat /\ pc' # "boot_stage" /\ IsTable(leases')
    BY <1>e, <2>2, <2>3
  <2>5. /\ in_flight' \in BOOLEAN /\ orphaned' \in BOOLEAN
        /\ pause_acked' \in BOOLEAN /\ control_up' \in BOOLEAN
    BY <2>2, Zenon DEF TypeOK, clientVars
  <2> QED
    BY <2>1, <2>2, <2>3, <2>4, <2>5 DEF TypeOK, serverVars, clientVars
<1>21. CASE BeginGenerate
  <2>1. /\ in_flight' \in BOOLEAN /\ sample_fresh' \in BOOLEAN /\ orphaned' \in BOOLEAN
        /\ pause_acked' \in BOOLEAN /\ control_up' \in BOOLEAN
    BY <1>21, Zenon DEF BeginGenerate, TypeOK, clientVars
  <2> QED
    BY <1>21, <1>e, <2>1 DEF BeginGenerate, TypeOK, serverVars, clientVars
<1>22. CASE Generated
  BY <1>22 DEF Generated, TypeOK, inner, serverVars, clientVars
<1>23. CASE Propagated
  BY <1>23 DEF Propagated, FinishGenerate, TypeOK, serverVars, clientVars
<1>24. CASE GenerateFails
  BY <1>24 DEF GenerateFails, FinishGenerate, TypeOK, serverVars, clientVars
<1>25. CASE WaitInterval
  BY <1>25, <1>e DEF WaitInterval, TypeOK, serverVars, clientVars
<1>26. CASE OrphanedGenerateEnds
  <2>1. orphaned' \in BOOLEAN
    BY <1>26, Zenon DEF OrphanedGenerateEnds
  <2> QED
    BY <1>26, <2>1
    DEF OrphanedGenerateEnds, TypeOK, inner, serverVars, workerVars, clientVars
<1>27. CASE Tick
  <2>1. IsTable(leases')
    BY <1>27, <1>t, AgedFacts DEF Tick, IsTable
  <2>2. server \in {"await_lease", "rollback"} => acquiring' \in AcquireCalls
    <3> SUFFICES ASSUME server \in {"await_lease", "rollback"}
                 PROVE  acquiring' \in AcquireCalls
      OBVIOUS
    <3>1. /\ acquiring \in AcquireCalls
          /\ acquiring' = [acquiring EXCEPT !.lease = Aged(@),
                                            !.previous = {Aged(p) : p \in @}]
      BY <1>27 DEF Tick, TypeOK
    <3>2. /\ acquiring.lease \in Lease /\ acquiring.previous \subseteq Lease
      BY <3>1 DEF AcquireCalls
    <3>3. Aged(acquiring.lease) \in Lease /\ {Aged(p) : p \in acquiring.previous} \subseteq Lease
      BY <3>2, AgedFacts
    <3> QED
      BY <3>1, <3>3 DEF AcquireCalls
  <2>3. patience' \in Nat /\ granted' \in [LeaseIds -> Nat]
    BY <1>27 DEF Tick, TypeOK, Less
  <2> QED
    BY <1>27, <2>1, <2>2, <2>3 DEF Tick, TypeOK, workerVars
<1>28. CASE WorkerRestart
  <2>1. /\ in_flight' \in BOOLEAN /\ sample_fresh' \in BOOLEAN /\ pause_acked' \in BOOLEAN
    BY <1>28, Zenon DEF WorkerRestart
  <2>2. orphaned' \in BOOLEAN /\ control_up' \in BOOLEAN
    BY <1>28 DEF WorkerRestart, TypeOK
  <2>3. IsTable(leases')
    BY <1>28 DEF WorkerRestart, IsTable, EmptyTable
  <2> QED
    BY <1>28, <2>1, <2>2, <2>3 DEF WorkerRestart, TypeOK
<1>29. CASE ControlPlaneStops
  <2>1. control_up' \in BOOLEAN
    BY <1>29, Zenon DEF ControlPlaneStops
  <2> QED
    BY <1>29, <2>1 DEF ControlPlaneStops, TypeOK, inner, serverVars, workerVars
<1>30. CASE UNCHANGED vars
  BY <1>30 DEF vars, TypeOK, inner, serverVars, workerVars, clientVars
<1> QED
  BY <1>1, <1>2, <1>3, <1>4, <1>5, <1>6, <1>7, <1>8, <1>9, <1>10, <1>11, <1>12, <1>13,
     <1>14, <1>15, <1>17, <1>18, <1>19, <1>20, <1>21, <1>22, <1>23, <1>24, <1>25, <1>26,
     <1>27, <1>28, <1>29, <1>30
     DEF Next, Request, Answer, Mine

\* The state of the worker, of its server thread and of what clients were
\* told always has its type.
THEOREM TypeCorrect == Spec => []TypeOK
  BY TypeInit, TypeStep, PTL DEF Spec

(***************************************************************************)
(* The lease invariant.  PauseLeaseExcludesMining alone is not inductive:  *)
(* it needs to know what keeps the worker paused (GrantInv), what a paused *)
(* phase says about the mining thread (PhaseInv), and that a blocked       *)
(* acquire can neither be confused with a granted lease nor leave an entry *)
(* behind (AcquireInv, TableInv).                                          *)
(***************************************************************************)
\* The initial state satisfies the invariant.
LEMMA LeaseInit == Init => LeaseInv
<1> SUFFICES ASSUME Init PROVE LeaseInv
  OBVIOUS
<1>1. PhaseInv
  BY DEF Init, PhaseInv
<1>2. GrantInv /\ AcquireInv /\ TableInv
  BY DEF Init, GrantInv, AcquireInv, TableInv, Blocked, EmptyTable
<1> QED
  BY <1>1, <1>2, TypeInit DEF LeaseInv

\* Expiring leases alone disturbs no part of the invariant that does not
\* depend on the phase.
LEMMA ExpirePreserves ==
  ASSUME LeaseInv, leases' = ExpireLeases(leases),
         UNCHANGED <<desired_state, server, acquiring, granted, pause_acked>>,
         phase = "paused" => phase' = "paused" \/ (DOMAIN leases' = {} /\ desired_state = "running")
  PROVE  GrantInv' /\ AcquireInv' /\ TableInv'
<1>1. /\ DOMAIN leases' = {l \in DOMAIN leases : leases[l].left > 0}
      /\ \A l \in DOMAIN leases' : leases'[l] = leases[l]
      /\ DOMAIN leases \subseteq LeaseIds
  BY ExpireFacts DEF LeaseInv, TypeOK, IsTable
<1>2. GrantInv'
  BY <1>1 DEF LeaseInv, GrantInv, TypeOK
<1>3. AcquireInv'
  BY <1>1 DEF LeaseInv, AcquireInv, Blocked
<1>4. TableInv'
  BY <1>1 DEF LeaseInv, TableInv, Blocked
<1> QED
  BY <1>2, <1>3, <1>4

\* Steps that leave the lease table, the phase and the clients alone.
LEMMA QuietPreserves ==
  ASSUME LeaseInv,
         UNCHANGED <<desired_state, leases, phase, server, acquiring, granted, pause_acked>>
  PROVE  GrantInv' /\ AcquireInv' /\ TableInv'
  BY DEF LeaseInv, GrantInv, AcquireInv, TableInv, Blocked

\* Every step keeps the lease invariant.
LEMMA LeaseStep == LeaseInv /\ [Next]_vars => LeaseInv'
<1> SUFFICES ASSUME LeaseInv, [Next]_vars
             PROVE  PhaseInv' /\ GrantInv' /\ AcquireInv' /\ TableInv'
  BY TypeStep DEF LeaseInv
<1> USE ConstantsAssumption
<1>t. TypeOK /\ IsTable(leases) /\ DOMAIN leases \subseteq LeaseIds
  BY DEF LeaseInv, TypeOK, IsTable
<1>e. /\ IsTable(ExpireLeases(leases))
      /\ DOMAIN ExpireLeases(leases) = {l \in DOMAIN leases : leases[l].left > 0}
      /\ \A l \in DOMAIN ExpireLeases(leases) : ExpireLeases(leases)[l] = leases[l]
  BY <1>t, ExpireFacts
\* A worker at rest has nothing outstanding; a grant implies rest.
<1>p. IsEffectivelyPaused <=> phase = "paused"
  BY DEF IsEffectivelyPaused, LeaseInv, PhaseInv
<1>g. ~IsEffectivelyPaused => \A l \in LeaseIds : granted[l] = 0
  BY <1>p DEF LeaseInv, GrantInv, TypeOK
<1>1. CASE Status
  <2>1. PhaseInv'
    BY <1>1 DEF Status, LeaseInv, PhaseInv, workerVars
  <2> QED
    BY <1>1, <2>1, ExpirePreserves DEF Status, serverVars, clientVars
<1>2. CASE Resume
  <2>1. PhaseInv'
    BY <1>2 DEF Resume, LeaseInv, PhaseInv, workerVars
  <2>2. GrantInv'
    BY <1>2 DEF Resume, Accepts, LeaseInv, GrantInv, serverVars
  <2> QED
    BY <1>2, <2>1, <2>2 DEF Resume, LeaseInv, AcquireInv, TableInv, Blocked, serverVars
<1>3. CASE Pause
  <2>1. PhaseInv'
    BY <1>3 DEF Pause, MarkPausing, LeaseInv, PhaseInv, workerVars
  <2>2. GrantInv'
    BY <1>3, <1>p, <1>g DEF Pause, MarkPausing, LeaseInv, GrantInv
  <2>3. Blocked = Blocked'
    BY <1>3 DEF Pause, Accepts, Blocked
  <2> QED
    BY <1>3, <2>1, <2>2, <2>3 DEF Pause, LeaseInv, AcquireInv, TableInv
<1>4. CASE AckPause
  <2>1. PhaseInv' /\ GrantInv'
    BY <1>4, <1>p DEF AckPause, LeaseInv, PhaseInv, GrantInv, inner, workerVars
  <2> QED
    BY <1>4, <2>1 DEF AckPause, LeaseInv, AcquireInv, TableInv, Blocked, inner
<1>5. CASE PauseTimesOut
  BY <1>5 DEF PauseTimesOut, LeaseInv, PhaseInv, GrantInv, AcquireInv, TableInv, Blocked,
              inner, workerVars, clientVars
<1>6. CASE AckLease
  <2>1. acquiring \in AcquireCalls /\ acquiring.id \in LeaseIds /\ acquiring.lease.left \in Nat
    BY <1>6, <1>t DEF AckLease, TypeOK, AcquireCalls, Lease
  <2>2. PhaseInv'
    BY <1>6 DEF AckLease, LeaseInv, PhaseInv, inner, workerVars
  <2>3. Blocked /\ ~Blocked'
    BY <1>6 DEF AckLease, Blocked
  <2>4. GrantInv'
    BY <1>6, <1>p, <1>t, <2>1, <2>3 DEF AckLease, LeaseInv, GrantInv, AcquireInv, TypeOK, inner
  <2>5. TableInv'
    BY <1>6, <1>t, <2>1, <2>3 DEF AckLease, LeaseInv, TableInv, AcquireInv, TypeOK, inner
  <2> QED
    BY <2>2, <2>3, <2>4, <2>5 DEF AcquireInv
<1>7. CASE LeaseTimesOut
  BY <1>7 DEF LeaseTimesOut, LeaseInv, PhaseInv, GrantInv, AcquireInv, TableInv, Blocked,
              inner, workerVars, clientVars
<1>8. CASE RollbackUnacquiredLease
  <2>1. /\ Blocked /\ ~Blocked' /\ acquiring \in AcquireCalls
        /\ acquiring.previous = {}
        /\ \A l \in LeaseIds : granted[l] = 0
    BY <1>8, <1>t DEF RollbackUnacquiredLease, Blocked, LeaseInv, AcquireInv, TypeOK
  <2>2. \A l \in DOMAIN leases' : l \in DOMAIN leases /\ leases'[l] = leases[l] /\ l # acquiring.id
    <3>1. CASE acquiring.id \in DOMAIN leases
      <4>1. leases' = ExpireLeases(Remove(leases, acquiring.id))
        BY <1>8, <2>1, <3>1 DEF RollbackUnacquiredLease, RollbackTable, RestoredTable, LeaseInv, AcquireInv
      <4> DEFINE rest == Remove(leases, acquiring.id)
      <4>2. /\ IsTable(rest) /\ DOMAIN rest = DOMAIN leases \ {acquiring.id}
            /\ \A l \in DOMAIN rest : rest[l] = leases[l]
        BY <1>t, RemoveFacts
      <4> HIDE DEF rest
      <4>3. /\ DOMAIN ExpireLeases(rest) \subseteq DOMAIN rest
            /\ \A l \in DOMAIN ExpireLeases(rest) : ExpireLeases(rest)[l] = rest[l]
        BY <4>2, ExpireFacts
      <4> QED
        BY <4>1, <4>2, <4>3 DEF rest
    <3>2. CASE acquiring.id \notin DOMAIN leases
      BY <1>8, <3>2 DEF RollbackUnacquiredLease, RollbackTable, RestoredTable
    <3> QED
      BY <3>1, <3>2
  <2>3. PhaseInv'
    BY <1>8 DEF RollbackUnacquiredLease, LeaseInv, PhaseInv, workerVars
  <2>4. GrantInv'
    BY <1>8, <2>1 DEF RollbackUnacquiredLease, LeaseInv, GrantInv, clientVars
  <2>5. TableInv'
    BY <1>8, <2>1, <2>2 DEF RollbackUnacquiredLease, LeaseInv, TableInv, clientVars
  <2> QED
    BY <2>1, <2>3, <2>4, <2>5 DEF AcquireInv
<1>9. ASSUME NEW id \in LeaseIds, ReleaseLease(id)
      PROVE  PhaseInv' /\ GrantInv' /\ AcquireInv' /\ TableInv'
  <2>1. /\ DOMAIN leases' = {l \in DOMAIN leases : leases[l].left > 0} \ {id}
        /\ \A l \in DOMAIN leases' : leases'[l] = leases[l]
    <3> DEFINE live == ExpireLeases(leases)
    <3>1. leases' = Remove(live, id)
      BY <1>9 DEF ReleaseLease
    <3>2. /\ DOMAIN Remove(live, id) = DOMAIN live \ {id}
          /\ \A l \in DOMAIN Remove(live, id) : Remove(live, id)[l] = live[l]
      BY <1>e, RemoveFacts
    <3> QED
      BY <1>e, <3>1, <3>2
  <2>2. granted' = [granted EXCEPT ![id] = 0] /\ granted \in [LeaseIds -> Nat]
    BY <1>9, <1>t DEF ReleaseLease, TypeOK
  <2>3. PhaseInv'
    BY <1>9 DEF ReleaseLease, LeaseInv, PhaseInv, workerVars
  <2>4. ~Blocked /\ ~Blocked'
    BY <1>9 DEF ReleaseLease, Accepts, Blocked, serverVars
  <2>5. GrantInv'
    BY <1>9, <2>1, <2>2 DEF ReleaseLease, LeaseInv, GrantInv, serverVars
  <2>6. TableInv'
    BY <1>t, <2>1, <2>2, <2>4 DEF LeaseInv, TableInv
  <2> QED
    BY <2>3, <2>4, <2>5, <2>6 DEF AcquireInv
<1>10. ASSUME NEW id \in LeaseIds, NEW ttl \in Ttls, RenewLease(id, ttl)
       PROVE  PhaseInv' /\ GrantInv' /\ AcquireInv' /\ TableInv'
  <2>1. PhaseInv'
    BY <1>10 DEF RenewLease, LeaseInv, PhaseInv, workerVars
  <2>2. CASE id \notin DOMAIN ExpireLeases(leases)
    BY <1>10, <2>1, <2>2, ExpirePreserves DEF RenewLease, serverVars
  <2>3. CASE id \in DOMAIN ExpireLeases(leases)
    <3>1. ttl \in Nat /\ granted \in [LeaseIds -> Nat]
      BY <1>t DEF TypeOK
    <3>2. /\ leases' = [ExpireLeases(leases) EXCEPT ![id].left = ttl]
          /\ granted' = [granted EXCEPT ![id] = ttl]
      BY <1>10, <2>3 DEF RenewLease
    <3>3. ~Blocked /\ ~Blocked'
      BY <1>10 DEF RenewLease, Accepts, Blocked, serverVars
    <3>4. ExpireLeases(leases)[id] \in [owner : Owners, left : Nat]
      BY <1>e, <2>3 DEF IsTable, Lease
    <3>5. /\ DOMAIN leases' = DOMAIN ExpireLeases(leases)
          /\ leases'[id].left = ttl
          /\ \A l \in DOMAIN leases' : l # id => leases'[l] = leases[l]
      BY <1>e, <2>3, <3>2, <3>4
    <3>6. granted[id] > 0
      BY <1>e, <1>t, <2>3, <3>3, <3>4 DEF LeaseInv, TableInv
    <3>7. GrantInv'
      BY <1>10, <1>e, <3>1, <3>2, <3>5, <3>6 DEF RenewLease, LeaseInv, GrantInv, serverVars
    <3>8. TableInv'
      BY <1>e, <1>t, <3>1, <3>2, <3>3, <3>5 DEF LeaseInv, TableInv
    <3> QED
      BY <2>1, <3>3, <3>7, <3>8 DEF AcquireInv
  <2> QED
    BY <2>2, <2>3
<1>11. ASSUME NEW id \in LeaseIds, NEW owner \in Owners, RefuseLease(id, owner)
       PROVE  PhaseInv' /\ GrantInv' /\ AcquireInv' /\ TableInv'
  <2>1. PhaseInv'
    BY <1>11 DEF RefuseLease, LeaseInv, PhaseInv, workerVars
  <2> QED
    BY <1>11, <2>1, ExpirePreserves DEF RefuseLease, serverVars, clientVars
<1>12. ASSUME NEW id \in LeaseIds, NEW owner \in Owners, NEW ttl \in Ttls,
              AcquireLease(id, owner, ttl)
       PROVE  PhaseInv' /\ GrantInv' /\ AcquireInv' /\ TableInv'
  <2> DEFINE lease == [owner |-> owner, left |-> ttl]
             live == ExpireLeases(leases)
  <2>1. ttl \in Nat /\ ttl > 0 /\ lease \in Lease /\ lease.left = ttl
    BY DEF Lease
  <2>2. /\ DOMAIN leases' = DOMAIN live \cup {id}
        /\ leases'[id] = lease
        /\ \A l \in DOMAIN live : l # id => leases'[l] = leases[l]
    <3>1. leases' = Insert(live, id, lease)
      BY <1>12 DEF AcquireLease
    <3>0. IsTable(live)
      BY <1>e
    <3> HIDE DEF live, lease
    <3>2. /\ DOMAIN Insert(live, id, lease) = DOMAIN live \cup {id}
          /\ Insert(live, id, lease)[id] = lease
          /\ \A l \in DOMAIN live : l # id => Insert(live, id, lease)[l] = live[l]
      BY <3>0, <2>1, InsertFacts
    <3> QED
      BY <1>e, <3>1, <3>2 DEF live
  <2>3. PhaseInv'
    BY <1>12 DEF AcquireLease, MarkPausing, LeaseInv, PhaseInv, workerVars
  <2>4. ~Blocked
    BY <1>12 DEF AcquireLease, Accepts, Blocked
  <2> HIDE DEF lease
  <2>5. CASE IsEffectivelyPaused
    <3>1. /\ granted' = [granted EXCEPT ![id] = ttl] /\ granted \in [LeaseIds -> Nat]
          /\ phase = "paused" /\ phase' = "paused"
          /\ UNCHANGED <<desired_state, pause_acked, server>>
      BY <1>12, <1>t, <1>p, <2>5 DEF AcquireLease, MarkPausing, TypeOK
    <3>2. ~Blocked'
      BY <2>4, <3>1 DEF Blocked
    <3>3. GrantInv'
      BY <1>e, <2>1, <2>2, <3>1 DEF LeaseInv, GrantInv
    <3>4. TableInv'
      BY <1>e, <1>t, <2>1, <2>2, <2>4, <3>1, <3>2 DEF LeaseInv, TableInv
    <3> QED
      BY <2>3, <3>2, <3>3, <3>4 DEF AcquireInv
  <2>6. CASE ~IsEffectivelyPaused
    <3>1. /\ server' = "await_lease" /\ UNCHANGED <<granted, desired_state, pause_acked>>
          /\ acquiring' = [id |-> id, lease |-> lease,
                           previous |-> {live[l] : l \in DOMAIN live \cap {id}}]
      BY <1>12, <2>6 DEF AcquireLease, lease
    <3>2. \A l \in LeaseIds : granted[l] = 0
      BY <1>g, <2>6
    <3>3. DOMAIN live = {}
      <4> SUFFICES ASSUME NEW l \in DOMAIN live PROVE FALSE
        OBVIOUS
      <4>1. l \in DOMAIN leases /\ leases[l].left > 0 /\ l \in LeaseIds
        BY <1>e, <1>t
      <4> QED
        BY <2>4, <3>2, <4>1 DEF LeaseInv, TableInv
    <3>4. acquiring'.previous = {} /\ acquiring'.id = id /\ acquiring'.lease = lease
      BY <3>1, <3>3
    <3>5. GrantInv'
      BY <1>p, <2>6, <3>1, <3>2 DEF LeaseInv, GrantInv
    <3>6. AcquireInv'
      BY <2>1, <2>2, <3>1, <3>2, <3>4 DEF AcquireInv
    <3>7. TableInv'
      BY <2>2, <3>1, <3>3, <3>4 DEF TableInv, Blocked
    <3> QED
      BY <2>3, <3>5, <3>6, <3>7
  <2> QED
    BY <2>5, <2>6
<1>13. ASSUME NEW r \in PolicyRequests, SetPolicy(r) \/ JoinPendingPolicy(r)
       PROVE  PhaseInv' /\ GrantInv' /\ AcquireInv' /\ TableInv'
  <2>1. /\ UNCHANGED <<desired_state, leases, phase, in_flight, pc, granted, pause_acked>>
        /\ ~Blocked /\ ~Blocked' /\ server' # "await_pause"
    BY <1>13 DEF SetPolicy, JoinPendingPolicy, Accepts, AwaitGeneration, Blocked, inner,
                 workerVars, clientVars
  <2> QED
    BY <2>1 DEF LeaseInv, PhaseInv, GrantInv, AcquireInv, TableInv
<1>14. CASE AckPolicy \/ PolicyTimesOut
  <2>1. /\ UNCHANGED <<desired_state, leases, phase, in_flight, pc, granted, pause_acked>>
        /\ ~Blocked /\ ~Blocked' /\ server' # "await_pause"
    BY <1>14 DEF AckPolicy, PolicyTimesOut, Blocked, inner, workerVars, clientVars
  <2> QED
    BY <2>1 DEF LeaseInv, PhaseInv, GrantInv, AcquireInv, TableInv
<1>17. CASE BootstrapSafePoint
  <2>1. /\ leases' = ExpireLeases(leases)
        /\ UNCHANGED <<desired_state, server, acquiring, granted, pause_acked, in_flight>>
        /\ phase' = "paused" \/ (DOMAIN leases' = {} /\ desired_state # "paused")
    BY <1>17 DEF BootstrapSafePoint, PauseRequested, serverVars, clientVars
  <2>2. PhaseInv'
    BY <1>17 DEF BootstrapSafePoint, PauseRequested, LeaseInv, PhaseInv
  <2>3. desired_state \in {"running", "paused"}
    BY <1>t DEF TypeOK
  <2> QED
    BY <2>1, <2>2, <2>3, ExpirePreserves
<1>18. CASE BootstrapStage
  <2>1. PhaseInv'
    BY <1>18 DEF BootstrapStage, LeaseInv, PhaseInv, inner
  <2> QED
    BY <1>18, <2>1, QuietPreserves DEF BootstrapStage, inner, serverVars, clientVars
<1>19. CASE SamplingSafePoint \/ ResampleSafePoint
  <2>1. /\ leases' = ExpireLeases(leases)
        /\ UNCHANGED <<desired_state, server, acquiring, granted, pause_acked, in_flight>>
        /\ phase' = "paused" \/ (DOMAIN leases' = {} /\ desired_state # "paused")
    BY <1>19 DEF SamplingSafePoint, ResampleSafePoint, SafePoint, PauseRequested,
                 serverVars, clientVars
  <2>2. PhaseInv'
    BY <1>19 DEF SamplingSafePoint, ResampleSafePoint, SafePoint, LeaseInv, PhaseInv
  <2>3. desired_state \in {"running", "paused"}
    BY <1>t DEF TypeOK
  <2> QED
    BY <2>1, <2>2, <2>3, ExpirePreserves
<1>21. CASE BeginGenerate
  <2>1. PhaseInv'
    BY <1>21 DEF BeginGenerate, LeaseInv, PhaseInv
  <2> QED
    BY <1>21, <2>1, ExpirePreserves DEF BeginGenerate, serverVars, clientVars
<1>22. CASE Generated
  <2>1. PhaseInv'
    BY <1>22 DEF Generated, LeaseInv, PhaseInv, inner
  <2> QED
    BY <1>22, <2>1, QuietPreserves DEF Generated, inner, serverVars, clientVars
<1>23. CASE Propagated \/ GenerateFails
  <2>1. /\ UNCHANGED <<desired_state, leases, server, acquiring, granted, pause_acked>>
        /\ phase # "paused"
    BY <1>23 DEF Propagated, GenerateFails, FinishGenerate, LeaseInv, PhaseInv,
                 serverVars, clientVars
  <2>2. PhaseInv'
    <3>1. ~in_flight' /\ pc' \in {"interval", "safe_point"}
      BY <1>23 DEF Propagated, GenerateFails, FinishGenerate
    <3> QED
      BY <3>1 DEF PhaseInv
  <2>3. GrantInv'
    BY <2>1 DEF LeaseInv, GrantInv
  <2> QED
    BY <2>1, <2>2, <2>3 DEF LeaseInv, AcquireInv, TableInv, Blocked
<1>25. CASE WaitInterval
  <2>1. PhaseInv'
    BY <1>25 DEF WaitInterval, LeaseInv, PhaseInv
  <2> QED
    BY <1>25, <2>1, ExpirePreserves DEF WaitInterval, serverVars, clientVars
<1>26. CASE OrphanedGenerateEnds \/ ControlPlaneStops
  <2>1. PhaseInv'
    BY <1>26 DEF OrphanedGenerateEnds, ControlPlaneStops, LeaseInv, PhaseInv, inner, workerVars
  <2> QED
    BY <1>26, <2>1, QuietPreserves
    DEF OrphanedGenerateEnds, ControlPlaneStops, inner, serverVars, clientVars
<1>27. CASE Tick
  <2>1. /\ DOMAIN leases' = DOMAIN leases
        /\ \A l \in DOMAIN leases : leases'[l] = Aged(leases[l])
        /\ \A l \in DOMAIN leases : leases'[l].left = Less(leases[l].left)
        /\ \A l \in DOMAIN leases : leases[l].left \in Nat
    <3>1. leases' = [l \in DOMAIN leases |-> Aged(leases[l])]
      BY <1>27 DEF Tick
    <3>2. \A l \in DOMAIN leases : leases[l] \in Lease
      BY <1>t DEF IsTable
    <3> QED
      BY <3>1, <3>2, AgedFacts DEF Lease
  <2>2. granted' = [l \in LeaseIds |-> Less(granted[l])] /\ granted \in [LeaseIds -> Nat]
    BY <1>27, <1>t DEF Tick, TypeOK
  <2>3. /\ UNCHANGED <<desired_state, phase, in_flight, pc, pause_acked, server>>
        /\ Blocked' = Blocked
    BY <1>27 DEF Tick, Blocked, workerVars
  <2>4. PhaseInv'
    BY <2>3 DEF LeaseInv, PhaseInv
  <2>5. GrantInv'
    BY <1>t, <2>1, <2>2, <2>3 DEF LeaseInv, GrantInv, Less
  <2>6. ASSUME Blocked
        PROVE  /\ acquiring'.id = acquiring.id /\ acquiring'.lease = Aged(acquiring.lease)
               /\ acquiring'.previous = {Aged(p) : p \in acquiring.previous}
               /\ acquiring.lease \in Lease /\ acquiring.lease.left \in Nat
    <3>1. acquiring \in AcquireCalls
      BY <2>6, <1>t DEF Blocked, TypeOK
    <3>2. acquiring' = [acquiring EXCEPT !.lease = Aged(@), !.previous = {Aged(p) : p \in @}]
      BY <2>6, <1>27 DEF Tick, Blocked
    <3> QED
      BY <3>1, <3>2 DEF AcquireCalls, Lease
  <2>7. AcquireInv'
    <3> SUFFICES ASSUME Blocked PROVE AcquireInv'
      BY <2>3 DEF AcquireInv
    <3>1. acquiring'.lease.left = Less(acquiring.lease.left)
      BY <2>6, AgedFacts
    <3>2. \A l \in LeaseIds : granted'[l] = 0
      BY <2>2 DEF LeaseInv, AcquireInv, Less
    <3> QED
      BY <2>1, <2>6, <3>1, <3>2 DEF LeaseInv, AcquireInv, Less
  <2>8. TableInv'
    BY <1>t, <2>1, <2>2, <2>3, <2>6 DEF LeaseInv, TableInv, Less
  <2> QED
    BY <2>4, <2>5, <2>7, <2>8
<1>28. CASE WorkerRestart
  <2>1. PhaseInv'
    BY <1>28 DEF WorkerRestart, PhaseInv
  <2>2. /\ DOMAIN leases' = {} /\ \A l \in LeaseIds : granted'[l] = 0
        /\ ~pause_acked' /\ ~Blocked' /\ server' = "idle"
    BY <1>28 DEF WorkerRestart, Blocked, EmptyTable
  <2> QED
    BY <2>1, <2>2 DEF GrantInv, AcquireInv, TableInv
<1>30. CASE UNCHANGED vars
  <2>1. PhaseInv'
    BY <1>30 DEF vars, LeaseInv, PhaseInv, inner, workerVars
  <2> QED
    BY <1>30, <2>1, QuietPreserves DEF vars, inner, serverVars, clientVars
<1> QED
  BY <1>1, <1>2, <1>3, <1>4, <1>5, <1>6, <1>7, <1>8, <1>9, <1>10, <1>11, <1>12, <1>13,
     <1>14, <1>17, <1>18, <1>19, <1>21, <1>22, <1>23, <1>25, <1>26, <1>27, <1>28, <1>30
     DEF Next, Request, Answer, Mine

\* The strengthened invariant holds throughout.
THEOREM LeaseInvariant == Spec => []LeaseInv
  BY LeaseInit, LeaseStep, PTL DEF Spec

\* For any number of leases, jobs, stages and policies: while an acknowledged
\* lease lives, the worker has no generate call outstanding.
THEOREM LeaseExcludesMining == Spec => []PauseLeaseExcludesMining
<1>1. LeaseInv => PauseLeaseExcludesMining
  BY DEF LeaseInv, GrantInv, PhaseInv, PauseLeaseExcludesMining, Mutates
<1> QED
  BY <1>1, LeaseInvariant, PTL

\* Acknowledged leases stay in the table for the TTL promised and a failed
\* acquire leaves no pause behind.
THEOREM TableMatchesGrants == Spec => []LeaseTableMatchesGrants
<1>1. LeaseInv => LeaseTableMatchesGrants
  BY DEF LeaseInv, GrantInv, TableInv, Blocked, LeaseTableMatchesGrants
<1> QED
  BY <1>1, LeaseInvariant, PTL

\* No release or expiry resumes a worker whose manual pause was acknowledged.
THEOREM ManualPauseHolds == Spec => []ManualPauseOutlivesLeases
<1>1. LeaseInv => ManualPauseOutlivesLeases
  BY DEF LeaseInv, GrantInv, PhaseInv, ManualPauseOutlivesLeases, Mutates
<1> QED
  BY <1>1, LeaseInvariant, PTL

(***************************************************************************)
(* Policies.  Only the mining thread changes the generation, at its safe   *)
(* points, and a pending request that is no rollback is newer than the     *)
(* generation in force.                                                    *)
(***************************************************************************)
PolicyInv ==
  /\ pc \in {"synced", "generating", "propagating"} =>
       observed = {generation} /\ round = generation
  /\ \A p \in pending_policy : ~p.rollback => p.generation > generation

\* The initial state satisfies the policy invariant.
LEMMA PolicyInit == Init => PolicyInv
  BY DEF Init, PolicyInv

\* Every step keeps the policy invariant.
LEMMA PolicyStep == TypeOK /\ PolicyInv /\ [Next]_vars => PolicyInv'
<1> SUFFICES ASSUME TypeOK, PolicyInv, [Next]_vars
             PROVE  PolicyInv'
  OBVIOUS
<1> USE ConstantsAssumption
<1>1. ASSUME UNCHANGED <<generation, pending_policy, observed, round>>,
             pc' \in {"synced", "generating", "propagating"} =>
               pc \in {"synced", "generating", "propagating"}
      PROVE  PolicyInv'
  BY <1>1 DEF PolicyInv
<1>2. CASE Status \/ Resume \/ Pause
  BY <1>1, <1>2 DEF Status, Resume, Pause, workerVars
<1>3. ASSUME NEW id \in LeaseIds, NEW owner \in Owners, NEW ttl \in Ttls,
             AcquireLease(id, owner, ttl)
      PROVE  PolicyInv'
  BY <1>1, <1>3 DEF AcquireLease, workerVars
<1>4. CASE Answer
  BY <1>1, <1>4 DEF Answer, AckPause, PauseTimesOut, AckLease, LeaseTimesOut,
     RollbackUnacquiredLease, AckPolicy, PolicyTimesOut, inner, workerVars
<1>5. ASSUME NEW r \in PolicyRequests, SetPolicy(r)
      PROVE  PolicyInv'
  <2>1. /\ r.generation \in Nat /\ generation \in Nat
        /\ ~r.rollback => r.generation > generation
    BY <1>5 DEF SetPolicy, RefusedPolicy, InForce, TypeOK
  <2> QED
    BY <1>5, <2>1 DEF SetPolicy, PolicyInv, workerVars
<1>6. ASSUME NEW r \in PolicyRequests, JoinPendingPolicy(r)
      PROVE  PolicyInv'
  BY <1>1, <1>6 DEF JoinPendingPolicy, inner, workerVars
<1>7. CASE BootstrapSafePoint
  BY <1>7 DEF BootstrapSafePoint, ApplyPendingPolicy, PolicyInv
<1>8. CASE SamplingSafePoint
  BY <1>8 DEF SamplingSafePoint, SafePoint, ApplyPendingPolicy, PolicyInv
<1>9. CASE ResampleSafePoint
  BY <1>9 DEF ResampleSafePoint, SafePoint, ApplyPendingPolicy, PolicyInv
<1>10. CASE BootstrapStage \/ Generated \/ Propagated \/ GenerateFails \/ WaitInterval
  BY <1>1, <1>10 DEF BootstrapStage, Generated, Propagated, GenerateFails, WaitInterval,
     FinishGenerate, inner
<1>11. CASE BeginGenerate
  BY <1>1, <1>11 DEF BeginGenerate
<1>12. CASE OrphanedGenerateEnds \/ Tick \/ ControlPlaneStops
  BY <1>1, <1>12 DEF OrphanedGenerateEnds, Tick, ControlPlaneStops, inner, workerVars
<1>13. CASE WorkerRestart
  BY <1>13 DEF WorkerRestart, PolicyInv
<1>14. CASE UNCHANGED vars
  BY <1>1, <1>14 DEF vars, inner, workerVars
<1>15. CASE Request
  <2>1. ASSUME NEW id \in LeaseIds, ReleaseLease(id)
        PROVE  PolicyInv'
    BY <1>1, <2>1 DEF ReleaseLease, workerVars
  <2>2. ASSUME NEW id \in LeaseIds, NEW owner \in Owners, RefuseLease(id, owner)
        PROVE  PolicyInv'
    BY <1>1, <2>2 DEF RefuseLease, workerVars
  <2>3. ASSUME NEW id \in LeaseIds, NEW ttl \in Ttls, RenewLease(id, ttl)
        PROVE  PolicyInv'
    BY <1>1, <2>3 DEF RenewLease, workerVars
  <2> QED
    BY <1>2, <1>3, <1>5, <1>6, <1>15, <2>1, <2>2, <2>3 DEF Request
<1> QED
  BY <1>4, <1>7, <1>8, <1>9, <1>10, <1>11, <1>12, <1>13, <1>14, <1>15 DEF Next, Mine

\* A generate call runs under the generation its round was scheduled with.
THEOREM GeneratesUnderItsPolicy == Spec => []GenerateUnderItsPolicy
<1>1. PolicyInv => GenerateUnderItsPolicy
  BY DEF PolicyInv, GenerateUnderItsPolicy
<1> QED
  BY <1>1, PolicyInit, PolicyStep, TypeCorrect, PTL DEF Spec

\* Steps other than safe points and restarts leave the generation alone.
LEMMA GenerationMoves ==
  ASSUME [Next]_vars, generation' # generation
  PROVE  WorkerRestart \/ ApplyPendingPolicy
<1>1. CASE Request
  BY <1>1 DEF Request, Status, Resume, Pause, ReleaseLease, RenewLease, RefuseLease,
     AcquireLease, SetPolicy, JoinPendingPolicy, inner
<1>2. CASE Answer
  BY <1>2 DEF Answer, AckPause, PauseTimesOut, AckLease, LeaseTimesOut,
     RollbackUnacquiredLease, AckPolicy, PolicyTimesOut, inner
<1>3. CASE Mine
  BY <1>3 DEF Mine, BootstrapSafePoint, BootstrapStage, SamplingSafePoint,
     ResampleSafePoint, SafePoint, BeginGenerate, Generated, Propagated, GenerateFails,
     FinishGenerate, WaitInterval, inner
<1>4. CASE OrphanedGenerateEnds \/ Tick \/ ControlPlaneStops
  BY <1>4 DEF OrphanedGenerateEnds, Tick, ControlPlaneStops, inner
<1>5. CASE UNCHANGED vars
  BY <1>5 DEF vars, inner
<1> QED
  BY <1>1, <1>2, <1>3, <1>4, <1>5 DEF Next

\* The effective generation regresses only by a rollback or a restart.
THEOREM RegressionIsRollback == Spec => NoSilentRegression
<1>1. TypeOK /\ PolicyInv /\ [Next]_vars
        => [generation' < generation => WorkerRestart \/ \E p \in pending_policy : p.rollback]_vars
  <2> SUFFICES ASSUME TypeOK, PolicyInv, [Next]_vars, generation' < generation,
                      ~WorkerRestart
               PROVE  \E p \in pending_policy : p.rollback
    OBVIOUS
  <2>1. generation \in Nat /\ generation' # generation
    BY TypeStep DEF TypeOK
  <2>2. ApplyPendingPolicy
    BY <2>1, GenerationMoves
  <2>3. PICK p \in pending_policy : generation' = p.generation
    BY <2>1, <2>2 DEF ApplyPendingPolicy
  <2>4. p.generation \in Nat
    BY <2>3 DEF TypeOK, PendingPolicies
  <2> QED
    BY <2>1, <2>3, <2>4 DEF PolicyInv
<1> QED
  BY <1>1, PolicyInit, PolicyStep, TypeCorrect, PTL DEF Spec, NoSilentRegression

(***************************************************************************)
(* The worker implements PauseGate.                                        *)
(***************************************************************************)
\* The initial state of the worker is one of the gate.
LEMMA GateInit == Init => Gate!Init
  BY DEF Init, Gate!Init, Mutates

\* Every step of the worker is a step of the gate or leaves it unchanged.
LEMMA GateStep == LeaseInv /\ [Next]_vars => [Gate!Next]_(Gate!gate)
<1> SUFFICES ASSUME LeaseInv, [Next]_vars
             PROVE  Gate!Next \/ UNCHANGED Gate!gate
  OBVIOUS
<1> USE ConstantsAssumption
<1> DEFINE Held == {l \in LeaseIds : granted[l] > 0}
<1>t. TypeOK /\ granted \in [LeaseIds -> Nat]
  BY DEF LeaseInv, TypeOK
<1>p. phase = "paused" => ~Mutates
  BY DEF LeaseInv, PhaseInv, Mutates
\* With no pause requested there is no grant.
<1>h. ASSUME ~PauseRequested(desired_state, ExpireLeases(leases))
      PROVE  Held = {} /\ ~pause_acked
  <2>1. \A l \in DOMAIN leases : ~(leases[l].left > 0)
    BY <1>h, <1>t, ExpireFacts DEF PauseRequested, TypeOK
  <2> QED
    BY <1>h, <2>1 DEF PauseRequested, LeaseInv, GrantInv
<1>q. ASSUME UNCHANGED <<granted, pause_acked, pc>>
      PROVE  UNCHANGED Gate!gate
  BY <1>q DEF Gate!gate, Mutates
<1>1. CASE Status \/ PauseTimesOut \/ LeaseTimesOut \/ RollbackUnacquiredLease
           \/ AckPolicy \/ PolicyTimesOut \/ OrphanedGenerateEnds \/ ControlPlaneStops
           \/ UNCHANGED vars
  BY <1>1, <1>q DEF Status, PauseTimesOut, LeaseTimesOut, RollbackUnacquiredLease, AckPolicy,
     PolicyTimesOut, OrphanedGenerateEnds, ControlPlaneStops, vars, workerVars, clientVars
<1>2. CASE Resume
  BY <1>2 DEF Resume, Gate!Next, Gate!WithdrawManual, Mutates, workerVars
<1>3. CASE Pause \/ AckPause
  <2>1. CASE UNCHANGED pause_acked
    BY <1>3, <1>q, <2>1 DEF Pause, AckPause, workerVars
  <2>2. CASE ~UNCHANGED pause_acked
    <3>1. pause_acked' = TRUE /\ ~Mutates /\ UNCHANGED <<granted, pc>>
      BY <1>3, <1>p, <2>2 DEF Pause, AckPause, IsEffectivelyPaused, workerVars
    <3> QED
      BY <3>1 DEF Gate!Next, Gate!GrantManual, Mutates
  <2> QED
    BY <2>1, <2>2
<1>4. ASSUME NEW id \in LeaseIds, NEW n \in Nat, granted' = [granted EXCEPT ![id] = n],
             UNCHANGED <<pause_acked, pc>>, n > 0 => ~Mutates
      PROVE  Gate!Next
  <2>1. CASE n = 0
    <3>1. Held' \subseteq Held /\ UNCHANGED <<pause_acked, Mutates>>
      BY <1>4, <1>t, <2>1 DEF Mutates
    <3> QED
      BY <3>1 DEF Gate!Next, Gate!Lapse
  <2>2. CASE n > 0
    <3>1. Held' = Held \cup {id} /\ UNCHANGED <<pause_acked, Mutates>> /\ ~Mutates
      BY <1>4, <1>t, <2>2 DEF Mutates
    <3> QED
      BY <3>1 DEF Gate!Next, Gate!Grant
  <2> QED
    BY <2>1, <2>2
<1>5. CASE AckLease
  <2>1. acquiring \in AcquireCalls
    BY <1>5, <1>t DEF AckLease, TypeOK
  <2>2. acquiring.id \in LeaseIds /\ acquiring.lease.left \in Nat
    BY <2>1 DEF AcquireCalls, Lease
  <2> QED
    BY <1>4, <1>5, <1>p, <2>2 DEF AckLease, IsEffectivelyPaused, workerVars
<1>6. ASSUME NEW id \in LeaseIds, ReleaseLease(id)
      PROVE  Gate!Next
  <2>1. granted' = [granted EXCEPT ![id] = 0] /\ UNCHANGED <<pause_acked, pc>>
    BY <1>6 DEF ReleaseLease, workerVars
  <2>2. 0 \in Nat /\ ~(0 > 0)
    OBVIOUS
  <2> QED
    BY <1>4, <2>1, <2>2
<1>7. ASSUME NEW id \in LeaseIds, NEW ttl \in Ttls, RenewLease(id, ttl)
      PROVE  Gate!Next \/ UNCHANGED Gate!gate
  <2>1. CASE id \notin DOMAIN ExpireLeases(leases)
    BY <1>7, <1>q, <2>1 DEF RenewLease, workerVars
  <2>2. CASE id \in DOMAIN ExpireLeases(leases)
    <3>1. id \in DOMAIN leases /\ leases[id].left > 0
      BY <1>t, <2>2, ExpireFacts DEF TypeOK
    <3>2. granted[id] > 0
      BY <1>7, <3>1 DEF RenewLease, Accepts, LeaseInv, TableInv, Blocked
    <3>3. ~Mutates
      BY <1>p, <3>2 DEF LeaseInv, GrantInv
    <3> QED
      BY <1>4, <1>7, <2>2, <3>3 DEF RenewLease, workerVars
  <2> QED
    BY <2>1, <2>2
<1>8. ASSUME NEW id \in LeaseIds, NEW owner \in Owners, RefuseLease(id, owner)
      PROVE  UNCHANGED Gate!gate
  BY <1>8, <1>q DEF RefuseLease, workerVars, clientVars
<1>9. ASSUME NEW id \in LeaseIds, NEW owner \in Owners, NEW ttl \in Ttls,
             AcquireLease(id, owner, ttl)
      PROVE  Gate!Next \/ UNCHANGED Gate!gate
  <2>1. CASE IsEffectivelyPaused
    <3>1. granted' = [granted EXCEPT ![id] = ttl] /\ UNCHANGED <<pause_acked, pc>>
      BY <1>9, <2>1 DEF AcquireLease, workerVars
    <3>2. ~Mutates /\ ttl \in Nat
      BY <1>p, <2>1 DEF IsEffectivelyPaused
    <3> QED
      BY <1>4, <3>1, <3>2
  <2>2. CASE ~IsEffectivelyPaused
    <3>1. UNCHANGED <<granted, pause_acked, pc>>
      BY <1>9, <2>2 DEF AcquireLease, workerVars
    <3> QED
      BY <1>q, <3>1
  <2> QED
    BY <2>1, <2>2
<1>10. ASSUME NEW r \in PolicyRequests, SetPolicy(r) \/ JoinPendingPolicy(r)
       PROVE  UNCHANGED Gate!gate
  BY <1>10, <1>q DEF SetPolicy, JoinPendingPolicy, workerVars, clientVars
<1>11. ASSUME UNCHANGED <<granted, pause_acked>>, Mutates' => Mutates
       PROVE  Gate!Next \/ UNCHANGED Gate!gate
  <2>1. CASE Mutates' <=> Mutates
    <3>1. UNCHANGED Mutates
      BY <2>1 DEF Mutates
    <3> QED
      BY <1>11, <3>1 DEF Gate!gate
  <2>2. CASE ~Mutates'
    <3>1. Mutates' = FALSE
      BY <2>2 DEF Mutates
    <3> QED
      BY <1>11, <3>1 DEF Gate!Next, Gate!End
  <2> QED
    BY <1>11, <2>1, <2>2
<1>12. ASSUME UNCHANGED <<granted, pause_acked>>,
              ~PauseRequested(desired_state, ExpireLeases(leases))
       PROVE  Gate!Next \/ UNCHANGED Gate!gate
  <2>1. CASE Mutates'
    <3>1. Mutates' = TRUE
      BY <2>1 DEF Mutates
    <3> QED
      BY <1>12, <1>h, <3>1 DEF Gate!Next, Gate!Begin
  <2>2. CASE ~Mutates'
    BY <1>11, <1>12, <2>2
  <2> QED
    BY <2>1, <2>2
<1>13. CASE BootstrapSafePoint
  <2>1. UNCHANGED <<granted, pause_acked>>
    BY <1>13 DEF BootstrapSafePoint, clientVars
  <2>2. PauseRequested(desired_state, ExpireLeases(leases)) => UNCHANGED pc
    BY <1>13 DEF BootstrapSafePoint
  <2> QED
    BY <1>11, <1>12, <2>1, <2>2 DEF Mutates
<1>14. CASE BeginGenerate
  <2>1. UNCHANGED <<granted, pause_acked>>
    BY <1>14 DEF BeginGenerate, clientVars
  <2>2. PauseRequested(desired_state, ExpireLeases(leases)) => ~Mutates'
    BY <1>14 DEF BeginGenerate, MayGenerate, Mutates
  <2> QED
    BY <1>11, <1>12, <2>1, <2>2
<1>15. CASE BootstrapStage \/ SamplingSafePoint \/ ResampleSafePoint \/ Generated
            \/ Propagated \/ GenerateFails \/ WaitInterval
  <2>1. UNCHANGED <<granted, pause_acked>>
    BY <1>15 DEF BootstrapStage, SamplingSafePoint, ResampleSafePoint, SafePoint, Generated,
       Propagated, GenerateFails, FinishGenerate, WaitInterval, clientVars
  <2>2. Mutates' => Mutates
    BY <1>15 DEF BootstrapStage, SamplingSafePoint, ResampleSafePoint, Generated,
       Propagated, GenerateFails, WaitInterval, Mutates
  <2> QED
    BY <1>11, <2>1, <2>2
<1>16. CASE Tick
  <2>1. /\ granted' = [l \in LeaseIds |-> Less(granted[l])]
        /\ UNCHANGED <<pause_acked, pc>>
    BY <1>16 DEF Tick, workerVars
  <2>2. Held' \subseteq Held
    BY <1>t, <2>1 DEF Less
  <2> QED
    BY <2>1, <2>2 DEF Gate!Next, Gate!Lapse, Mutates
<1>17. CASE WorkerRestart
  <2>1. Held' = {} /\ pause_acked' = FALSE
    BY <1>17 DEF WorkerRestart
  <2>2. Mutates' = FALSE
    BY <1>17 DEF WorkerRestart, Mutates
  <2> QED
    BY <2>1, <2>2 DEF Gate!Next, Gate!Restart
<1> QED
  BY <1>1, <1>2, <1>3, <1>5, <1>6, <1>7, <1>8, <1>9, <1>10, <1>13, <1>14, <1>15, <1>16, <1>17
     DEF Next, Request, Answer, Mine

\* The mining worker, for all values of its constants, implements the gate:
\* pauses are granted at rest only, and work begins only with no grant out.
THEOREM RefinesPauseGate == Spec => ImplementsPauseGate
  BY GateInit, GateStep, LeaseInvariant, PTL DEF Spec, Gate!Spec, ImplementsPauseGate

=============================================================================
