------------------------- MODULE SpamControlProofs -------------------------
(***************************************************************************)
(* Theorems about the spam worker, for every set of leases, owners, loads, *)
(* policies, requests and senders, every timeout and every rewind.         *)
(***************************************************************************)
EXTENDS SpamControl, TLAPS

(***************************************************************************)
(* The inductive invariants.                                               *)
(***************************************************************************)
Blocked == server \in {"await_lease", "rollback"}

\* The entry of the table that the acquire call in progress inserted.
Tentative(l) == Blocked /\ l = acquiring.id

\* Work is in flight exactly at these places of the runner; a pause that was
\* acknowledged, and a manual one that is awaited, is still asked for.
PauseInv ==
  /\ in_flight <=> pc \in {"applying", "building", "initializing", "reconciling", "cycle"}
  /\ Held # {} => pc \notin {"cycle", "initializing", "reconciling"}
  /\ pause_acked => /\ desired_state = "paused"
                    /\ pc \notin {"cycle", "initializing", "reconciling"}
  /\ server = "await_pause" => desired_state = "paused"

\* An acknowledged lease is in the table with the time it was promised, and
\* what is in the table was acknowledged, the tentative entry apart.
GrantInv ==
  /\ \A l \in LeaseIds :
       granted[l] > 0 /\ ~Tentative(l) => l \in DOMAIN leases /\ leases[l].left = granted[l]
  /\ \A l \in DOMAIN leases :
       leases[l].left > 0 /\ ~Tentative(l) => leases[l].left = granted[l]

\* The acquire call in progress: its entry is the table's, it promises at
\* least what the lease it replaces has left, and it knows that lease.
AcquireInv ==
  Blocked =>
    /\ acquiring.id \in DOMAIN leases => leases[acquiring.id] = acquiring.lease
    /\ acquiring.lease.left > 0 => acquiring.id \in DOMAIN leases
    /\ granted[acquiring.id] > 0 => acquiring.previous # {}
    /\ \A p \in acquiring.previous : p.left = granted[acquiring.id]
    /\ granted[acquiring.id] <= acquiring.lease.left
    /\ \A t \in Ttls : acquiring.lease.left <= t

\* No lease was promised more than the TTL of a request.
TtlInv == \A l \in LeaseIds, t \in Ttls : granted[l] <= t

TableInv == GrantInv /\ AcquireInv /\ TtlInv

LeaseInv == TypeOK /\ PauseInv /\ TableInv

\* The engine is tuned to the policy in force and missing only where that
\* policy needs none or its initialization is pending.
EngineInv ==
  /\ engine = {} \/ engine = {policy}
  /\ policy.enabled /\ ~initialization_pending => engine # {}
  /\ pc = "cycle" => policy.enabled /\ ~initialization_pending

\* A pending policy that is not a rollback is newer than the one in force.
PolicyInv == \A p \in pending_policy : ~p.rollback => p.generation > generation

\* While the engine reads the chain, the table holds at most the tentative
\* entry of a lease that was not held before; a chain change is not
\* forgotten before it has been read.
ReconcileInv ==
  /\ changes # "none" => reconciliation_pending
  /\ pc = "reconciling" =>
       /\ changes = "seen"
       /\ \A l \in DOMAIN leases : Tentative(l) /\ acquiring.previous = {}

(***************************************************************************)
(* What the helpers on the lease table do.                                 *)
(***************************************************************************)
\* expire_leases keeps exactly the entries with time left, unchanged.
LEMMA ExpireFacts ==
  ASSUME NEW t, IsTable(t)
  PROVE  /\ IsTable(ExpireLeases(t))
         /\ DOMAIN ExpireLeases(t) = {l \in DOMAIN t : t[l].left > 0}
         /\ \A l \in DOMAIN ExpireLeases(t) : ExpireLeases(t)[l] = t[l]
  BY DEF IsTable, ExpireLeases

\* Inserting a lease keeps the table a table and changes one entry.
LEMMA InsertFacts ==
  ASSUME NEW t, IsTable(t), NEW id \in LeaseIds, NEW lease \in Lease
  PROVE  /\ IsTable(Insert(t, id, lease))
         /\ DOMAIN Insert(t, id, lease) = DOMAIN t \cup {id}
         /\ Insert(t, id, lease)[id] = lease
         /\ \A l \in DOMAIN t : l # id => Insert(t, id, lease)[l] = t[l]
  BY DEF IsTable, Insert

\* Removing a lease keeps the table a table and the other entries.
LEMMA RemoveFacts ==
  ASSUME NEW t, IsTable(t), NEW id
  PROVE  /\ IsTable(Remove(t, id))
         /\ DOMAIN Remove(t, id) = DOMAIN t \ {id}
         /\ \A l \in DOMAIN Remove(t, id) : Remove(t, id)[l] = t[l]
  BY DEF IsTable, Remove

\* Ageing a lease by one tick keeps its owner.
LEMMA AgedFacts ==
  ASSUME NEW lease \in Lease
  PROVE  /\ Aged(lease) \in Lease
         /\ Aged(lease).left = Less(lease.left)
         /\ Aged(lease).owner = lease.owner
  BY DEF Aged, Less, Lease

\* A timed-out acquire leaves a table behind.
LEMMA RollbackFacts ==
  ASSUME NEW t, IsTable(t), NEW a \in AcquireCalls
  PROVE  IsTable(RollbackTable(t, a))
<1>1. a.id \in LeaseIds /\ a.previous \subseteq Lease
  BY DEF AcquireCalls
<1>2. a.previous # {} => (CHOOSE p \in a.previous : TRUE) \in Lease
  BY <1>1
<1> QED
  BY <1>1, <1>2, ExpireFacts, InsertFacts, RemoveFacts DEF RollbackTable, RestoredTable

(***************************************************************************)
(* Type correctness.                                                       *)
(***************************************************************************)
\* Noting a possible chain change keeps the types of what it touches.
LEMMA NoteChangeType ==
  ASSUME TypeOK, NEW changed \in BOOLEAN, NoteChange(changed)
  PROVE  /\ reconciliation_pending' \in BOOLEAN
         /\ changes' \in {"none", "seen", "unseen"}
         /\ ahead' \in (-MaxRewind)..1
<1>1. reconciliation_pending' \in BOOLEAN
  BY Zenon DEF NoteChange
<1>2. ahead' \in (-MaxRewind)..1
  BY DEF NoteChange, HeightAfter, TypeOK
<1> QED
  BY <1>1, <1>2 DEF NoteChange, TypeOK

\* So does expire_leases, which also leaves a table behind.
LEMMA ExpireType ==
  ASSUME TypeOK, Expire
  PROVE  /\ IsTable(leases')
         /\ reconciliation_pending' \in BOOLEAN
         /\ changes' \in {"none", "seen", "unseen"}
         /\ ahead' \in (-MaxRewind)..1
<1>1. SomeExpired(leases) \in BOOLEAN
  BY DEF SomeExpired
<1>2. IsTable(leases')
  BY ExpireFacts DEF Expire, TypeOK
<1> QED
  BY <1>1, <1>2, NoteChangeType DEF Expire

\* The initial state has its types.
LEMMA TypeInit == Init => TypeOK
<1> SUFFICES ASSUME Init PROVE TypeOK
  OBVIOUS
<1>1. /\ in_flight \in BOOLEAN /\ reconciliation_pending \in BOOLEAN
      /\ pause_acked \in BOOLEAN /\ control_up \in BOOLEAN
  BY Zenon DEF Init
<1>2. IsTable(leases)
  BY DEF Init, IsTable, EmptyTable
<1>3. initialization_pending \in BOOLEAN
  BY ConstantsAssumption DEF Init, Policies
<1>4. senders \in [Senders -> SenderStates] /\ \A n \in Senders : senders[n].at = "check"
  BY ConstantsAssumption DEF Init, NoWork, SenderStates
<1>5. ahead \in (-MaxRewind)..1
  BY ConstantsAssumption DEF Init
<1> QED
  BY <1>1, <1>2, <1>3, <1>4, <1>5, ConstantsAssumption
  DEF Init, TypeOK, Phases, ServerStates, WorkerStates

\* Every step keeps the types.
LEMMA TypeStep == TypeOK /\ [Next]_vars => TypeOK'
<1> SUFFICES ASSUME TypeOK, [Next]_vars
             PROVE  TypeOK'
  OBVIOUS
<1> USE ConstantsAssumption
    DEF Phases, ServerStates, WorkerStates, policyVars, reconcileVars, serverVars,
        runnerVars, workerVars, clientVars
<1>t. IsTable(leases) /\ IsTable(ExpireLeases(leases)) /\ SomeExpired(leases) \in BOOLEAN
  BY ExpireFacts DEF TypeOK, SomeExpired
<1>1. CASE Status
  BY <1>1, ExpireType DEF Status, TypeOK
<1>2. CASE Resume
  <2>1. pause_acked' \in BOOLEAN
    BY <1>2, Zenon DEF Resume
  <2> QED
    BY <1>2, <2>1 DEF Resume, TypeOK
<1>3. CASE Pause
  <2>1. pause_acked' \in BOOLEAN
    BY <1>3, Zenon DEF Pause, TypeOK
  <2>2. server' \in ServerStates \ {"await_lease", "rollback"} /\ patience' \in Nat
    BY <1>3 DEF Pause, Accepts, TypeOK
  <2>3. phase' \in Phases
    BY <1>3 DEF Pause, MarkPauseRequested
  <2> QED
    BY <1>3, <2>1, <2>2, <2>3 DEF Pause, TypeOK
<1>4. CASE AckPause
  <2>1. pause_acked' \in BOOLEAN
    BY <1>4, Zenon DEF AckPause
  <2> QED
    BY <1>4, <2>1 DEF AckPause, TypeOK
<1>5. CASE PauseTimesOut
  BY <1>5 DEF PauseTimesOut, TypeOK
<1>6. CASE AckLease
  <2>1. acquiring \in AcquireCalls /\ acquiring.id \in LeaseIds /\ acquiring.lease.left \in Nat
    BY <1>6 DEF AckLease, TypeOK, AcquireCalls, Lease
  <2> QED
    BY <1>6, <2>1 DEF AckLease, TypeOK
<1>7. CASE LeaseTimesOut
  BY <1>7 DEF LeaseTimesOut, TypeOK
<1>8. CASE RollbackUnacquiredLease
  <2>1. IsTable(leases')
    BY <1>8, <1>t, RollbackFacts DEF RollbackUnacquiredLease, TypeOK
  <2>2. NoteChange(DOMAIN leases' # DOMAIN RestoredTable(leases, acquiring))
    BY <1>8 DEF RollbackUnacquiredLease
  <2>3. (DOMAIN leases' # DOMAIN RestoredTable(leases, acquiring)) \in BOOLEAN
    OBVIOUS
  <2>4. /\ reconciliation_pending' \in BOOLEAN
        /\ changes' \in {"none", "seen", "unseen"}
        /\ ahead' \in (-MaxRewind)..1
    BY <2>2, <2>3, NoteChangeType
  <2> QED
    BY <1>8, <2>1, <2>4 DEF RollbackUnacquiredLease, TypeOK
<1>9. ASSUME NEW id \in LeaseIds, NEW changed \in BOOLEAN, ReleaseLease(id, changed)
      PROVE  TypeOK'
  <2>1. IsTable(leases')
    BY <1>9, <1>t, RemoveFacts DEF ReleaseLease
  <2>2. NoteChange(SomeExpired(leases) \/ changed)
    BY <1>9 DEF ReleaseLease
  <2>3. (SomeExpired(leases) \/ changed) \in BOOLEAN
    OBVIOUS
  <2>4. /\ reconciliation_pending' \in BOOLEAN
        /\ changes' \in {"none", "seen", "unseen"}
        /\ ahead' \in (-MaxRewind)..1
    BY <2>2, <2>3, NoteChangeType
  <2>5. granted' \in [LeaseIds -> Nat] /\ owned' \subseteq LeaseIds
    BY <1>9 DEF ReleaseLease, TypeOK
  <2> QED
    BY <1>9, <2>1, <2>4, <2>5 DEF ReleaseLease, TypeOK
<1>10. ASSUME NEW id \in LeaseIds, NEW ttl \in Ttls, RenewLease(id, ttl)
       PROVE  TypeOK'
  <2>1. ttl \in Nat
    OBVIOUS
  <2>2. IsTable(leases')
    <3>1. CASE id \in DOMAIN ExpireLeases(leases)
      <4>1. leases' = [ExpireLeases(leases) EXCEPT ![id].left = ttl]
        BY <1>10, <3>1 DEF RenewLease
      <4>2. [ExpireLeases(leases)[id] EXCEPT !.left = ttl] \in Lease
        BY <1>t, <2>1, <3>1 DEF IsTable, Lease
      <4> QED
        BY <1>t, <3>1, <4>1, <4>2 DEF IsTable
    <3>2. CASE id \notin DOMAIN ExpireLeases(leases)
      BY <1>10, <1>t, <3>2 DEF RenewLease
    <3> QED
      BY <3>1, <3>2
  <2>3. NoteChange(SomeExpired(leases))
    BY <1>10 DEF RenewLease
  <2>4. /\ reconciliation_pending' \in BOOLEAN
        /\ changes' \in {"none", "seen", "unseen"}
        /\ ahead' \in (-MaxRewind)..1
    BY <1>t, <2>3, NoteChangeType
  <2>5. granted' \in [LeaseIds -> Nat]
    BY <1>10, <2>1 DEF RenewLease, TypeOK
  <2> QED
    BY <1>10, <2>2, <2>4, <2>5 DEF RenewLease, TypeOK
<1>11. ASSUME NEW id \in LeaseIds, NEW owner \in Owners, RefuseLease(id, owner)
       PROVE  TypeOK'
  BY <1>11, ExpireType DEF RefuseLease, TypeOK
<1>12. ASSUME NEW id \in LeaseIds, NEW owner \in Owners, NEW ttl \in Ttls,
              AcquireLease(id, owner, ttl)
       PROVE  TypeOK'
  <2> DEFINE lease == [owner |-> owner, left |-> ttl]
             live == ExpireLeases(leases)
  <2>1. ttl \in Nat /\ lease \in Lease
    BY DEF Lease
  <2>2. IsTable(leases')
    BY <1>12, <1>t, <2>1, InsertFacts DEF AcquireLease
  <2>3. {live[l] : l \in DOMAIN live \cap {id}} \subseteq Lease
    BY <1>t DEF IsTable
  <2>4. [id |-> id, lease |-> lease,
         previous |-> {live[l] : l \in DOMAIN live \cap {id}}] \in AcquireCalls
    BY <2>1, <2>3 DEF AcquireCalls
  <2>5. NoteChange(SomeExpired(leases))
    BY <1>12 DEF AcquireLease
  <2>6. /\ reconciliation_pending' \in BOOLEAN
        /\ changes' \in {"none", "seen", "unseen"}
        /\ ahead' \in (-MaxRewind)..1
    BY <1>t, <2>5, NoteChangeType
  <2> HIDE DEF lease, live
  <2>7. granted' \in [LeaseIds -> Nat] /\ owned' \subseteq LeaseIds
    BY <1>12, <2>1 DEF AcquireLease, TypeOK
  <2>8. phase' \in Phases
    BY <1>12 DEF AcquireLease, MarkPauseRequested
  <2>9. /\ server' \in ServerStates /\ patience' \in Nat
        /\ server' \in {"await_lease", "rollback"} => acquiring' \in AcquireCalls
    BY <1>12, <2>4 DEF AcquireLease, Accepts, TypeOK, lease, live
  <2> QED
    BY <1>12, <2>2, <2>6, <2>7, <2>8, <2>9 DEF AcquireLease, TypeOK
<1>13. ASSUME NEW r \in PolicyRequests, SetPolicy(r)
       PROVE  TypeOK'
  <2>1. /\ pending_policy' \subseteq PendingPolicies
        /\ \A p, q \in pending_policy' : p = q
        /\ policy_failure' \subseteq PendingPolicies
        /\ pending_policy' # {}
    BY <1>13 DEF SetPolicy, TypeOK
  <2> QED
    BY <1>13, <2>1, ExpireType DEF SetPolicy, TypeOK
<1>14. ASSUME NEW r \in PolicyRequests, PolicyUnchanged(r)
       PROVE  TypeOK'
  BY <1>14, ExpireType DEF PolicyUnchanged, TypeOK
<1>15. CASE AnswerPolicy
  BY <1>15 DEF AnswerPolicy, TypeOK
<1>16. CASE PolicyTimesOut
  BY <1>16 DEF PolicyTimesOut, TypeOK
<1>17. ASSUME NEW work, NEW as \in Phases, Enter(work, as)
       PROVE  in_flight' \in BOOLEAN /\ phase' \in Phases /\ pc' = work
  <2>1. in_flight' \in BOOLEAN
    BY <1>17, Zenon DEF Enter
  <2> QED
    BY <1>17, <2>1 DEF Enter
<1>18. ASSUME NEW next, NEW idle \in Phases, Leave(next, idle) \/ Fail(next)
       PROVE  in_flight' \in BOOLEAN /\ phase' \in Phases /\ pc' = next
  <2>1. in_flight' \in BOOLEAN
    BY <1>18, Zenon DEF Leave, Fail
  <2> QED
    BY <1>18, <2>1 DEF Leave, Fail
<1>19. CASE SafePointAppliesPolicy
  BY <1>19, <1>17, ExpireType DEF SafePointAppliesPolicy, AtSafePoint, TypeOK
<1>20. CASE SafePointPauses
  BY <1>20, ExpireType DEF SafePointPauses, AtSafePoint, TypeOK
<1>21. CASE SafePointInitializes
  BY <1>21, <1>17, ExpireType DEF SafePointInitializes, PastPause, AtSafePoint, TypeOK
<1>22. CASE SafePointReconciles
  <2>1. reconciliation_pending' \in BOOLEAN
    BY <1>22, Zenon DEF SafePointReconciles
  <2>2. ahead' \in (-MaxRewind)..1
    BY <1>22 DEF SafePointReconciles, HeightAfter, TypeOK
  <2> QED
    BY <1>22, <1>17, <1>t, <2>1, <2>2 DEF SafePointReconciles, TypeOK
<1>23. CASE SafePointDisabled
  BY <1>23, ExpireType DEF SafePointDisabled, PastPause, AtSafePoint, TypeOK
<1>24. CASE SafePointReady
  BY <1>24, ExpireType DEF SafePointReady, PastPause, AtSafePoint, TypeOK
<1>25. CASE InitializationSucceeds
  <2>1. initialization_pending' \in BOOLEAN
    BY <1>25, Zenon DEF InitializationSucceeds
  <2> QED
    BY <1>25, <1>18, <2>1 DEF InitializationSucceeds, TypeOK
<1>26. CASE InitializationFails
  BY <1>26, <1>18 DEF InitializationFails, TypeOK
<1>27. CASE StartBuild
  BY <1>27, ExpireType DEF StartBuild, TypeOK
<1>28. ASSUME NEW p \in pending_policy, CompletePolicy(p), engine' \subseteq Policies
       PROVE  TypeOK'
  <2>1. p.policy \in Policies /\ p.generation \in Nat
    BY DEF TypeOK, PendingPolicies
  <2>2. initialization_pending' \in BOOLEAN
    BY <1>28, Zenon DEF CompletePolicy
  <2>3. catch_up' \subseteq Nat
    BY <1>28, <2>1 DEF CompletePolicy
  <2>4. in_flight' \in BOOLEAN /\ phase' \in Phases /\ pc' = "safe_point"
    BY <1>28, <1>18 DEF CompletePolicy
  <2> QED
    BY <1>28, <2>1, <2>2, <2>3, <2>4 DEF CompletePolicy, TypeOK
<1>29. CASE PolicyApplied \/ PolicyBuilt
  <2>1. PICK p \in pending_policy : CompletePolicy(p) /\ engine' \in {{}, {p.policy}}
    BY <1>29 DEF PolicyApplied, PolicyBuilt
  <2>2. p.policy \in Policies
    BY DEF TypeOK, PendingPolicies
  <2> QED
    BY <1>28, <2>1, <2>2
<1>30. CASE BuildFails
  <2>1. initialization_pending' \in BOOLEAN
    BY <1>30, Zenon DEF BuildFails
  <2> QED
    BY <1>30, <1>18, <2>1 DEF BuildFails, TypeOK
<1>31. CASE ReconciliationSucceeds
  <2>1. reconciliation_pending' \in BOOLEAN
    BY <1>31, Zenon DEF ReconciliationSucceeds
  <2>2. catch_up' \subseteq Nat /\ ahead' \in (-MaxRewind)..1
    <3>1. CASE ahead' = 1 /\ catch_up' \in {catch_up, {}}
      <4>1. catch_up' \subseteq Nat
        BY <3>1 DEF TypeOK
      <4> QED
        BY <3>1, <4>1
    <3>2. CASE UNCHANGED <<ahead, catch_up>>
      BY <3>2 DEF TypeOK
    <3> QED
      BY <1>31, <3>1, <3>2 DEF ReconciliationSucceeds, RestartSchedule
  <2>3. changes' \in {"none", "seen", "unseen"}
    BY <1>31 DEF ReconciliationSucceeds, TypeOK
  <2> QED
    BY <1>31, <1>18, <2>1, <2>2, <2>3 DEF ReconciliationSucceeds, TypeOK
<1>32. CASE ReconciliationFails
  BY <1>32, <1>18 DEF ReconciliationFails, TypeOK
<1>33. CASE ReportAfterReconcile
  BY <1>33, ExpireType DEF ReportAfterReconcile, TypeOK
<1>34. CASE BlockCountFails
  BY <1>34 DEF BlockCountFails, TypeOK
<1>35. CASE CycleNotDue
  BY <1>35 DEF CycleNotDue, KeptRequest, TypeOK
<1>36. CASE BeginCycle
  <2>1. /\ senders' \in [Senders -> SenderStates]
        /\ \A n \in Senders : senders'[n].at = "check"
    BY <1>36 DEF BeginCycle, SenderStates
  <2>2. ahead' \in (-MaxRewind)..1
    BY <1>36 DEF BeginCycle
  <2> QED
    BY <1>36, <1>17, <2>1, <2>2 DEF BeginCycle, TypeOK
<1>37. CASE CycleRefused
  BY <1>37, ExpireType DEF CycleRefused, KeptRequest, TypeOK
<1>s. /\ senders \in [Senders -> SenderStates]
      /\ \A n \in Senders : senders[n].at = "submit" => senders[n].left > 0
  BY DEF TypeOK
<1>38. ASSUME NEW m \in Senders, senders[m].left > 0
       PROVE  /\ NextRound(m) \in [Senders -> SenderStates]
              /\ \A n \in Senders : NextRound(m)[n].at = "submit" => NextRound(m)[n].left > 0
  <2>1. [left |-> senders[m].left - 1, at |-> "check"] \in SenderStates
    BY <1>s, <1>38 DEF SenderStates
  <2> QED
    BY <1>s, <2>1 DEF NextRound
<1>39. ASSUME NEW m \in Senders, NEW a \in {"check", "submit"}, senders[m].left > 0
       PROVE  LET s == [senders EXCEPT ![m].at = a]
              IN  /\ s \in [Senders -> SenderStates]
                  /\ \A n \in Senders : s[n].at = "submit" => s[n].left > 0
  <2>1. /\ [senders[m] EXCEPT !.at = a] \in SenderStates
        /\ [senders[m] EXCEPT !.at = a].left = senders[m].left
    BY <1>s, <1>39 DEF SenderStates
  <2> QED
    BY <1>s, <1>39, <2>1
<1>40. ASSUME NEW m \in Senders, CycleCheckpoint(m)
       PROVE  TypeOK'
  <2>1. /\ senders' \in [Senders -> SenderStates]
        /\ \A n \in Senders : senders'[n].at = "submit" => senders'[n].left > 0
    <3>1. /\ senders[m].left > 0
          /\ senders' = NextRound(m) \/ senders' = [senders EXCEPT ![m].at = "submit"]
      BY <1>s, <1>40 DEF CycleCheckpoint
    <3>2. CASE senders' = NextRound(m)
      BY <1>38, <3>1, <3>2
    <3>3. CASE senders' = [senders EXCEPT ![m].at = "submit"]
      BY <1>39, <3>1, <3>3
    <3> QED
      BY <3>1, <3>2, <3>3
  <2>2. phase' \in Phases
    BY <1>40 DEF CycleCheckpoint, TypeOK
  <2> QED
    BY <1>40, <2>1, <2>2, ExpireType DEF CycleCheckpoint, TypeOK
<1>41. ASSUME NEW m \in Senders, SubmitBatch(m)
       PROVE  TypeOK'
  <2>1. /\ senders' \in [Senders -> SenderStates]
        /\ \A n \in Senders : senders'[n].at = "submit" => senders'[n].left > 0
    <3>1. /\ senders[m].left > 0
          /\ senders' = NextRound(m) \/ senders' = [senders EXCEPT ![m].at = "check"]
      BY <1>s, <1>41 DEF SubmitBatch
    <3>2. CASE senders' = NextRound(m)
      BY <1>38, <3>1, <3>2
    <3>3. CASE senders' = [senders EXCEPT ![m].at = "check"]
      BY <1>39, <3>1, <3>3
    <3> QED
      BY <3>1, <3>2, <3>3
  <2> QED
    BY <1>41, <2>1 DEF SubmitBatch, TypeOK
<1>42. CASE FinishCycle
  BY <1>42, <1>18 DEF FinishCycle, TypeOK
<1>43. CASE WaitForBlockPoll
  BY <1>43, ExpireType DEF WaitForBlockPoll, TypeOK
<1>44. CASE Tick
  <2>1. IsTable(leases')
    BY <1>44, <1>t, AgedFacts DEF Tick, IsTable
  <2>2. server \in {"await_lease", "rollback"} => acquiring' \in AcquireCalls
    <3> SUFFICES ASSUME server \in {"await_lease", "rollback"}
                 PROVE  acquiring' \in AcquireCalls
      OBVIOUS
    <3>1. /\ acquiring \in AcquireCalls
          /\ acquiring' = [acquiring EXCEPT !.lease = Aged(@),
                                            !.previous = {Aged(p) : p \in @}]
      BY <1>44 DEF Tick, TypeOK
    <3>2. /\ acquiring.lease \in Lease /\ acquiring.previous \subseteq Lease
      BY <3>1 DEF AcquireCalls
    <3>3. Aged(acquiring.lease) \in Lease /\ {Aged(p) : p \in acquiring.previous} \subseteq Lease
      BY <3>2, AgedFacts
    <3> QED
      BY <3>1, <3>3 DEF AcquireCalls
  <2>3. patience' \in Nat /\ granted' \in [LeaseIds -> Nat]
    BY <1>44 DEF Tick, TypeOK, Less
  <2> QED
    BY <1>44, <2>1, <2>2, <2>3 DEF Tick, TypeOK
<1>45. CASE NewBlock
  BY <1>45 DEF NewBlock, TypeOK
<1>46. CASE WorkerRestart
  <2>1. /\ in_flight' \in BOOLEAN /\ pause_acked' \in BOOLEAN
        /\ reconciliation_pending' \in BOOLEAN
    BY <1>46, Zenon DEF WorkerRestart
  <2>2. initialization_pending' \in BOOLEAN
    BY <1>46 DEF WorkerRestart, Policies
  <2>3. IsTable(leases')
    BY <1>46 DEF WorkerRestart, IsTable, EmptyTable
  <2>4. senders' \in [Senders -> SenderStates] /\ \A n \in Senders : senders'[n].at = "check"
    BY <1>46 DEF WorkerRestart, NoWork, SenderStates
  <2>5. ahead' \in (-MaxRewind)..1
    BY <1>46 DEF WorkerRestart
  <2> QED
    BY <1>46, <2>1, <2>2, <2>3, <2>4, <2>5 DEF WorkerRestart, TypeOK
<1>47. CASE ControlPlaneStops
  <2>1. control_up' \in BOOLEAN
    BY <1>47, Zenon DEF ControlPlaneStops
  <2> QED
    BY <1>47, <2>1 DEF ControlPlaneStops, TypeOK
<1>48. CASE UNCHANGED vars
  BY <1>48 DEF vars, TypeOK
<1> QED
  BY <1>1, <1>2, <1>3, <1>4, <1>5, <1>6, <1>7, <1>8, <1>9, <1>10, <1>11, <1>12, <1>13,
     <1>14, <1>15, <1>16, <1>19, <1>20, <1>21, <1>22, <1>23, <1>24, <1>25, <1>26, <1>27,
     <1>29, <1>30, <1>31, <1>32, <1>33, <1>34, <1>35, <1>36, <1>37, <1>40, <1>41, <1>42,
     <1>43, <1>44, <1>45, <1>46, <1>47, <1>48
     DEF Next, Request, Answer, Work

\* The state of the worker, of its threads and of what clients were told
\* always has its type.
THEOREM TypeCorrect == Spec => []TypeOK
  BY TypeInit, TypeStep, PTL DEF Spec

(***************************************************************************)
(* Leases.                                                                 *)
(***************************************************************************)
\* The initial state has no leases and no work.
LEMMA LeaseInit == Init => LeaseInv
<1> SUFFICES ASSUME Init PROVE PauseInv /\ TableInv
  BY TypeInit DEF LeaseInv
<1>1. PauseInv
  BY DEF Init, PauseInv, Held
<1>2. TableInv
  BY ConstantsAssumption
  DEF Init, EmptyTable, TableInv, GrantInv, AcquireInv, TtlInv, Blocked
<1> QED
  BY <1>1, <1>2

\* An acknowledged lease is in the table and has time left.
LEMMA HeldLive ==
  ASSUME LeaseInv, NEW l \in LeaseIds, granted[l] > 0
  PROVE  l \in DOMAIN leases /\ leases[l].left > 0
<1>1. granted[l] \in Nat
  BY DEF LeaseInv, TypeOK
<1>2. CASE Tentative(l)
  <2>1. acquiring.lease.left \in Nat /\ granted[l] <= acquiring.lease.left
    BY <1>2 DEF Tentative, Blocked, LeaseInv, TypeOK, AcquireCalls, Lease, TableInv, AcquireInv
  <2> QED
    BY <1>1, <1>2, <2>1 DEF Tentative, LeaseInv, TableInv, AcquireInv
<1>3. CASE ~Tentative(l)
  BY <1>3 DEF LeaseInv, TableInv, GrantInv
<1> QED
  BY <1>2, <1>3

\* Steps that touch neither the table nor the grants nor the acquire call.
LEMMA QuietTable ==
  ASSUME TableInv, UNCHANGED <<leases, granted, acquiring>>, Blocked <=> Blocked'
  PROVE  TableInv'
  BY DEF TableInv, GrantInv, AcquireInv, TtlInv, Tentative

\* expire_leases drops no entry that somebody relies on.
LEMMA ExpireTable ==
  ASSUME LeaseInv, leases' = ExpireLeases(leases), UNCHANGED <<granted, acquiring, server>>
  PROVE  TableInv'
<1>1. /\ IsTable(leases) /\ granted \in [LeaseIds -> Nat]
      /\ Blocked => acquiring.id \in LeaseIds /\ acquiring.lease.left \in Nat
  BY DEF LeaseInv, TypeOK, Blocked, AcquireCalls, Lease
<1>2. /\ DOMAIN leases' = {l \in DOMAIN leases : leases[l].left > 0}
      /\ \A l \in DOMAIN leases' : leases'[l] = leases[l]
  BY <1>1, ExpireFacts
<1>3. \A l : Tentative(l) <=> Tentative(l)'
  BY DEF Tentative, Blocked
<1>4. GrantInv'
  BY <1>1, <1>2, <1>3 DEF LeaseInv, TableInv, GrantInv
<1>5. AcquireInv'
  BY <1>1, <1>2 DEF LeaseInv, TableInv, AcquireInv, Blocked
<1> QED
  BY <1>4, <1>5 DEF LeaseInv, TableInv, TtlInv

\* The runner leaves the clients and their requests alone, expires leases at
\* most, records whether work is in flight, and turns to work that a pause
\* excludes only when none is asked for.
LEMMA WorkFacts ==
  ASSUME LeaseInv, Work
  PROVE  /\ UNCHANGED <<desired_state, server, acquiring, granted, pause_acked>>
         /\ leases' = leases \/ leases' = ExpireLeases(leases)
         /\ in_flight' <=>
              pc' \in {"applying", "building", "initializing", "reconciling", "cycle"}
         /\ \/ pc' \notin {"cycle", "initializing", "reconciling"}
            \/ pc' = "cycle" /\ pc = "cycle"
            \/ ~PauseRequested(desired_state, ExpireLeases(leases))
<1> USE DEF policyVars, reconcileVars, serverVars, runnerVars, workerVars, clientVars
<1>i. /\ in_flight <=> pc \in {"applying", "building", "initializing", "reconciling", "cycle"}
      /\ IsTable(leases)
  BY DEF LeaseInv, PauseInv, TypeOK
<1>1. CASE SafePointAppliesPolicy
  BY <1>1 DEF SafePointAppliesPolicy, AtSafePoint, Expire, Enter
<1>2. CASE SafePointPauses \/ SafePointDisabled \/ SafePointReady
  BY <1>2, <1>i
  DEF SafePointPauses, SafePointDisabled, SafePointReady, PastPause, AtSafePoint, Expire
<1>3. CASE SafePointInitializes
  BY <1>3 DEF SafePointInitializes, PastPause, AtSafePoint, Expire, Enter
<1>4. CASE SafePointReconciles
  BY <1>4 DEF SafePointReconciles, Enter
<1>5. CASE InitializationSucceeds \/ InitializationFails
  BY <1>5 DEF InitializationSucceeds, InitializationFails, Leave, Fail
<1>6. CASE StartBuild
  BY <1>6, <1>i DEF StartBuild, Expire
<1>7. CASE PolicyApplied \/ PolicyBuilt
  BY <1>7 DEF PolicyApplied, PolicyBuilt, CompletePolicy, Leave
<1>8. CASE BuildFails
  BY <1>8 DEF BuildFails, Fail
<1>9. CASE ReconciliationSucceeds \/ ReconciliationFails
  BY <1>9 DEF ReconciliationSucceeds, ReconciliationFails, Leave, Fail
<1>10. CASE ReportAfterReconcile \/ WaitForBlockPoll
  BY <1>10, <1>i DEF ReportAfterReconcile, WaitForBlockPoll, Expire
<1>11. CASE BlockCountFails \/ CycleNotDue
  BY <1>11, <1>i DEF BlockCountFails, CycleNotDue
<1>12. CASE BeginCycle
  <2>1. ~PauseRequested(desired_state, ExpireLeases(leases))
    BY <1>12 DEF BeginCycle, MayBegin, PauseRequested, SomeExpired
  <2> QED
    BY <1>12, <2>1 DEF BeginCycle, Enter
<1>13. CASE CycleRefused
  BY <1>13, <1>i DEF CycleRefused, Expire
<1>14. ASSUME NEW m \in Senders, CycleCheckpoint(m) \/ SubmitBatch(m)
       PROVE  /\ UNCHANGED <<desired_state, server, acquiring, granted, pause_acked>>
              /\ leases' = leases \/ leases' = ExpireLeases(leases)
              /\ UNCHANGED <<pc, in_flight>> /\ pc = "cycle"
  BY <1>14 DEF CycleCheckpoint, SubmitBatch, Expire
<1>15. CASE FinishCycle
  BY <1>15 DEF FinishCycle, Leave
<1> QED
  BY <1>i, <1>1, <1>2, <1>3, <1>4, <1>5, <1>6, <1>7, <1>8, <1>9, <1>10, <1>11, <1>12, <1>13,
     <1>14, <1>15 DEF Work

\* Every step keeps the lease invariant.
LEMMA LeaseStep == LeaseInv /\ [Next]_vars => LeaseInv'
<1> SUFFICES ASSUME LeaseInv, [Next]_vars
             PROVE  PauseInv' /\ TableInv'
  BY TypeStep DEF LeaseInv
<1> USE ConstantsAssumption
    DEF policyVars, reconcileVars, serverVars, runnerVars, workerVars, clientVars
<1>t. /\ TypeOK /\ PauseInv /\ TableInv /\ IsTable(leases) /\ granted \in [LeaseIds -> Nat]
      /\ DOMAIN leases \subseteq LeaseIds
      /\ \A l \in DOMAIN leases : leases[l] \in Lease /\ leases[l].left \in Nat
  BY DEF LeaseInv, TypeOK, IsTable, Lease
<1>e. /\ IsTable(ExpireLeases(leases))
      /\ DOMAIN ExpireLeases(leases) = {l \in DOMAIN leases : leases[l].left > 0}
      /\ \A l \in DOMAIN ExpireLeases(leases) : ExpireLeases(leases)[l] = leases[l]
  BY <1>t, ExpireFacts
\* Nobody was told of a pause while work that it excludes is under way.
<1>q. ASSUME ~in_flight
      PROVE  pc \notin {"cycle", "initializing", "reconciling"}
  BY <1>q, <1>t DEF PauseInv
<1>1. CASE Status \/ (\E r \in PolicyRequests : PolicyUnchanged(r))
           \/ (\E id \in LeaseIds, owner \in Owners : RefuseLease(id, owner))
  <2>1. /\ leases' = ExpireLeases(leases)
        /\ UNCHANGED <<desired_state, in_flight, pc, server, acquiring, granted, pause_acked>>
    BY <1>1 DEF Status, PolicyUnchanged, RefuseLease, Expire
  <2>2. PauseInv'
    BY <1>t, <2>1 DEF PauseInv, Held
  <2> QED
    BY <2>1, <2>2, ExpireTable
<1>2. CASE Resume
  <2>1. PauseInv'
    BY <1>2, <1>t DEF Resume, Accepts, PauseInv, Held
  <2> QED
    BY <1>2, <1>t, <2>1, QuietTable DEF Resume, Blocked
<1>3. CASE Pause
  <2>1. PauseInv'
    BY <1>3, <1>t, <1>q DEF Pause, PauseInv, Held
  <2>2. Blocked <=> Blocked'
    BY <1>3 DEF Pause, Accepts, Blocked
  <2> QED
    BY <1>3, <1>t, <2>1, <2>2, QuietTable DEF Pause
<1>4. CASE AckPause \/ PauseTimesOut \/ LeaseTimesOut \/ AnswerPolicy \/ PolicyTimesOut
  <2>1. /\ UNCHANGED <<desired_state, leases, acquiring, granted, in_flight, pc>>
        /\ Blocked <=> Blocked'
        /\ server' # "await_pause"
    BY <1>4 DEF AckPause, PauseTimesOut, LeaseTimesOut, AnswerPolicy, PolicyTimesOut, Blocked
  <2>2. pause_acked' =>
          pause_acked \/ (desired_state = "paused" /\ ~in_flight)
    BY <1>4, <1>t
    DEF AckPause, PauseTimesOut, LeaseTimesOut, AnswerPolicy, PolicyTimesOut,
        IsEffectivelyPaused, PauseInv
  <2>3. PauseInv'
    BY <1>t, <1>q, <2>1, <2>2 DEF PauseInv, Held
  <2> QED
    BY <1>t, <2>1, <2>3, QuietTable
<1>5. CASE AckLease
  <2>1. /\ Blocked /\ ~Blocked' /\ ~in_flight
        /\ acquiring.id \in LeaseIds /\ acquiring.lease.left \in Nat
        /\ granted' = [granted EXCEPT ![acquiring.id] = acquiring.lease.left]
        /\ UNCHANGED <<desired_state, leases, in_flight, pc, pause_acked>>
        /\ server' = "idle"
    BY <1>5, <1>t
    DEF AckLease, Blocked, IsEffectivelyPaused, TypeOK, AcquireCalls, Lease
  <2>2. PauseInv'
    BY <1>t, <1>q, <2>1 DEF PauseInv
  <2>3. GrantInv'
    BY <1>t, <2>1 DEF TableInv, GrantInv, AcquireInv, Tentative
  <2>4. TtlInv'
    BY <1>t, <2>1 DEF TableInv, AcquireInv, TtlInv
  <2> QED
    BY <2>1, <2>2, <2>3, <2>4 DEF TableInv, AcquireInv
<1>6. CASE RollbackUnacquiredLease
  <2> DEFINE id == acquiring.id
  <2>1. /\ Blocked /\ ~Blocked' /\ acquiring \in AcquireCalls
        /\ id \in LeaseIds /\ acquiring.previous \subseteq Lease
        /\ leases' = RollbackTable(leases, acquiring)
        /\ UNCHANGED <<desired_state, in_flight, pc, granted, pause_acked>>
        /\ server' = "idle"
    BY <1>6, <1>t DEF RollbackUnacquiredLease, Blocked, TypeOK, AcquireCalls
  <2>2. AcquireInv /\ GrantInv /\ acquiring.lease.left \in Nat
    BY <1>t, <2>1 DEF TableInv, AcquireCalls, Lease
  \* What was promised for the lease is what the table has for it again.
  <2>3. /\ \A l \in DOMAIN leases' : l # id => l \in DOMAIN leases /\ leases'[l] = leases[l]
        /\ \A l \in DOMAIN leases : l # id /\ leases[l].left > 0 => l \in DOMAIN leases'
        /\ id \in DOMAIN leases' /\ leases'[id].left > 0 => leases'[id].left = granted[id]
        /\ granted[id] > 0 => id \in DOMAIN leases' /\ leases'[id].left = granted[id]
    <3>1. CASE id \notin DOMAIN leases
      <4>1. leases' = leases
        BY <2>1, <3>1 DEF RollbackTable
      <4>2. granted[id] = 0
        BY <1>t, <2>1, <2>2, <3>1 DEF AcquireInv
      <4> QED
        BY <3>1, <4>1, <4>2
    <3>2. CASE id \in DOMAIN leases /\ acquiring.previous = {}
      <4> DEFINE rest == Remove(leases, id)
      <4>1. leases' = ExpireLeases(rest)
        BY <2>1, <2>2, <3>2 DEF RollbackTable, RestoredTable, AcquireInv
      <4>2. /\ IsTable(rest) /\ DOMAIN rest = DOMAIN leases \ {id}
            /\ \A l \in DOMAIN rest : rest[l] = leases[l]
        BY <1>t, RemoveFacts
      <4>3. granted[id] = 0
        BY <1>t, <2>1, <2>2, <3>2 DEF AcquireInv
      <4> HIDE DEF rest
      <4>4. /\ DOMAIN leases' = {l \in DOMAIN rest : rest[l].left > 0}
            /\ \A l \in DOMAIN leases' : leases'[l] = rest[l]
        BY <4>1, <4>2, ExpireFacts
      <4> QED
        BY <4>2, <4>3, <4>4
    <3>3. CASE id \in DOMAIN leases /\ acquiring.previous # {}
      <4> DEFINE p == CHOOSE p \in acquiring.previous : TRUE
                 old == Insert(leases, id, p)
      <4>1. leases' = ExpireLeases(old)
        BY <2>1, <2>2, <3>3 DEF RollbackTable, RestoredTable, AcquireInv
      <4>2. p \in acquiring.previous
        BY <3>3
      <4>3. p \in Lease /\ p.left = granted[id]
        BY <2>1, <2>2, <4>2 DEF AcquireInv
      <4> HIDE DEF p
      <4>4. /\ IsTable(old) /\ DOMAIN old = DOMAIN leases /\ old[id] = p
            /\ \A l \in DOMAIN leases : l # id => old[l] = leases[l]
        <5>1. IsTable(leases) /\ id \in LeaseIds
          BY <1>t, <2>1
        <5> HIDE DEF id
        <5>0. p \in Lease
          BY <4>3
        <5> HIDE DEF p
        <5>2. /\ IsTable(Insert(leases, id, p))
              /\ DOMAIN Insert(leases, id, p) = DOMAIN leases \cup {id}
              /\ Insert(leases, id, p)[id] = p
              /\ \A l \in DOMAIN leases : l # id => Insert(leases, id, p)[l] = leases[l]
          BY <5>0, <5>1, InsertFacts
        <5> QED
          BY <3>3, <5>2 DEF old
      <4> HIDE DEF old
      <4>5. /\ DOMAIN leases' = {l \in DOMAIN old : old[l].left > 0}
            /\ \A l \in DOMAIN leases' : leases'[l] = old[l]
        BY <4>1, <4>4, ExpireFacts
      <4> QED
        BY <3>3, <4>3, <4>4, <4>5
    <3> QED
      BY <3>1, <3>2, <3>3
  <2> HIDE DEF id
  <2>4. PauseInv'
    BY <1>t, <2>1 DEF PauseInv, Held
  <2>5. \A l : Tentative(l) <=> l = id
    BY <2>1 DEF Tentative, id
  <2>6. GrantInv'
    <3>1. \A l : ~Tentative(l)'
      BY <2>1 DEF Tentative
    <3> QED
      BY <1>t, <2>1, <2>2, <2>3, <2>5, <3>1 DEF GrantInv
  <2> QED
    BY <1>t, <2>1, <2>4, <2>6 DEF TableInv, AcquireInv, TtlInv
<1>7. ASSUME NEW id \in LeaseIds, NEW changed \in BOOLEAN, ReleaseLease(id, changed)
      PROVE  PauseInv' /\ TableInv'
  <2>1. /\ DOMAIN leases' = {l \in DOMAIN leases : leases[l].left > 0} \ {id}
        /\ \A l \in DOMAIN leases' : leases'[l] = leases[l]
    <3> DEFINE live == ExpireLeases(leases)
    <3>1. leases' = Remove(live, id)
      BY <1>7 DEF ReleaseLease
    <3>2. /\ DOMAIN Remove(live, id) = DOMAIN live \ {id}
          /\ \A l \in DOMAIN Remove(live, id) : Remove(live, id)[l] = live[l]
      BY <1>e, RemoveFacts
    <3> QED
      BY <1>e, <3>1, <3>2
  <2>2. /\ granted' = [granted EXCEPT ![id] = 0] /\ ~Blocked /\ ~Blocked'
        /\ UNCHANGED <<desired_state, in_flight, pc, server, pause_acked>>
    BY <1>7 DEF ReleaseLease, Accepts, Blocked
  <2>3. PauseInv'
    BY <1>t, <2>2 DEF PauseInv, Held
  <2>4. GrantInv'
    BY <1>t, <2>1, <2>2 DEF TableInv, GrantInv, Tentative
  <2> QED
    BY <1>t, <2>2, <2>3, <2>4 DEF TableInv, AcquireInv, TtlInv
<1>8. ASSUME NEW id \in LeaseIds, NEW ttl \in Ttls, RenewLease(id, ttl)
      PROVE  PauseInv' /\ TableInv'
  <2>1. /\ UNCHANGED <<desired_state, in_flight, pc, server, acquiring, pause_acked>>
        /\ ~Blocked /\ ~Blocked'
    BY <1>8 DEF RenewLease, Accepts, Blocked
  <2>2. CASE id \notin DOMAIN ExpireLeases(leases)
    <3>1. leases' = ExpireLeases(leases) /\ UNCHANGED granted
      BY <1>8, <2>2 DEF RenewLease
    <3>2. PauseInv'
      BY <1>t, <2>1, <3>1 DEF PauseInv, Held
    <3> QED
      BY <2>1, <3>1, <3>2, ExpireTable
  <2>3. CASE id \in DOMAIN ExpireLeases(leases)
    <3>1. /\ leases' = [ExpireLeases(leases) EXCEPT ![id].left = ttl]
          /\ granted' = [granted EXCEPT ![id] = ttl]
          /\ ttl \in Nat
      BY <1>8, <2>3 DEF RenewLease
    <3>2. ExpireLeases(leases)[id] \in [owner : Owners, left : Nat]
      BY <1>e, <2>3 DEF IsTable, Lease
    <3>3. /\ DOMAIN leases' = DOMAIN ExpireLeases(leases)
          /\ leases'[id].left = ttl
          /\ \A l \in DOMAIN leases' : l # id => leases'[l] = leases[l]
      BY <1>e, <2>3, <3>1, <3>2
    <3>4. granted[id] > 0
      BY <1>e, <1>t, <2>1, <2>3 DEF TableInv, GrantInv, Tentative
    <3>5. Held' \subseteq Held
      BY <1>t, <3>1, <3>4 DEF Held
    <3>6. PauseInv'
      BY <1>t, <2>1, <3>5 DEF PauseInv
    <3>7. GrantInv'
      <4>1. \A l : ~Tentative(l) /\ ~Tentative(l)'
        BY <2>1 DEF Tentative
      <4>2. granted'[id] = ttl /\ \A l \in LeaseIds : l # id => granted'[l] = granted[l]
        BY <1>t, <3>1
      <4>3. ASSUME NEW l \in LeaseIds, granted'[l] > 0
            PROVE  l \in DOMAIN leases' /\ leases'[l].left = granted'[l]
        BY <1>e, <1>t, <2>3, <3>3, <4>1, <4>2, <4>3 DEF TableInv, GrantInv
      <4>4. ASSUME NEW l \in DOMAIN leases', leases'[l].left > 0
            PROVE  leases'[l].left = granted'[l]
        BY <1>e, <1>t, <3>3, <4>1, <4>2, <4>4 DEF TableInv, GrantInv
      <4> QED
        BY <4>3, <4>4 DEF GrantInv
    <3>8. TtlInv'
      BY <1>t, <3>1, OneTtl DEF TableInv, TtlInv
    <3> QED
      BY <2>1, <3>6, <3>7, <3>8 DEF TableInv, AcquireInv
  <2> QED
    BY <2>2, <2>3
<1>9. ASSUME NEW id \in LeaseIds, NEW owner \in Owners, NEW ttl \in Ttls,
             AcquireLease(id, owner, ttl)
      PROVE  PauseInv' /\ TableInv'
  <2> DEFINE lease == [owner |-> owner, left |-> ttl]
             live == ExpireLeases(leases)
  <2>1. ttl \in Nat /\ ttl > 0 /\ lease \in Lease /\ lease.left = ttl
    BY DEF Lease
  <2>2. /\ DOMAIN leases' = DOMAIN live \cup {id}
        /\ leases'[id] = lease
        /\ \A l \in DOMAIN live : l # id => leases'[l] = leases[l]
    <3>1. leases' = Insert(live, id, lease)
      BY <1>9 DEF AcquireLease
    <3>0. IsTable(live) /\ lease \in Lease
      BY <1>e, <2>1
    <3> HIDE DEF live, lease
    <3>2. /\ DOMAIN Insert(live, id, lease) = DOMAIN live \cup {id}
          /\ Insert(live, id, lease)[id] = lease
          /\ \A l \in DOMAIN live : l # id => Insert(live, id, lease)[l] = live[l]
      BY <3>0, InsertFacts
    <3> QED
      BY <1>e, <3>1, <3>2 DEF live
  <2>3. ~Blocked /\ server = "idle" /\ UNCHANGED <<desired_state, in_flight, pc, pause_acked>>
    BY <1>9 DEF AcquireLease, Accepts, Blocked
  <2> HIDE DEF lease
  <2>4. CASE ~in_flight
    <3>1. /\ granted' = [granted EXCEPT ![id] = ttl] /\ UNCHANGED server
      BY <1>9, <2>4 DEF AcquireLease, MarkPauseRequested
    <3>2. PauseInv'
      BY <1>q, <1>t, <2>3, <2>4, <3>1 DEF PauseInv
    <3>3. GrantInv'
      BY <1>e, <1>t, <2>1, <2>2, <2>3, <3>1 DEF TableInv, GrantInv, Tentative, Blocked
    <3>4. TtlInv'
      <4> SUFFICES ASSUME NEW l \in LeaseIds, NEW t \in Ttls
                   PROVE  granted'[l] <= t
        BY DEF TtlInv
      <4>1. ttl = t /\ t \in Nat
        BY OneTtl, ConstantsAssumption
      <4>2. granted \in [LeaseIds -> Nat]
        BY <1>t DEF LeaseInv, TypeOK
      <4>3. granted'[l] = IF l = id THEN ttl ELSE granted[l]
        BY <3>1, <4>2
      <4>4. granted[l] <= t
        BY DEF LeaseInv, TableInv, TtlInv
      <4> QED
        BY <4>1, <4>3, <4>4
    <3> QED
      BY <2>3, <3>1, <3>2, <3>3, <3>4 DEF TableInv, AcquireInv, Blocked
  <2>5. CASE in_flight
    <3>1. /\ server' = "await_lease" /\ UNCHANGED granted
          /\ acquiring' = [id |-> id, lease |-> lease,
                           previous |-> {live[l] : l \in DOMAIN live \cap {id}}]
      BY <1>9, <2>5 DEF AcquireLease, MarkPauseRequested, lease
    <3>2. PauseInv'
      BY <1>t, <2>3, <3>1 DEF PauseInv, Held
    <3>3. Blocked' /\ acquiring'.id = id /\ acquiring'.lease = lease
      BY <3>1 DEF Blocked
    <3>4. GrantInv'
      BY <1>e, <1>t, <2>2, <2>3, <3>1, <3>3 DEF TableInv, GrantInv, Tentative
    <3>5. /\ \A p \in acquiring'.previous : p.left = granted[id]
          /\ granted[id] > 0 => acquiring'.previous # {}
      BY <1>e, <1>t, <2>3, <3>1 DEF TableInv, GrantInv, Tentative
    <3>6. granted[id] <= ttl /\ \A t \in Ttls : ttl <= t
      BY <1>t, <2>1, OneTtl DEF TableInv, TtlInv
    <3>7. AcquireInv'
      BY <2>1, <2>2, <3>1, <3>3, <3>5, <3>6 DEF AcquireInv
    <3> QED
      BY <1>t, <3>1, <3>2, <3>4, <3>7 DEF TableInv, TtlInv
  <2> QED
    BY <2>4, <2>5
<1>10. ASSUME NEW r \in PolicyRequests, SetPolicy(r)
       PROVE  PauseInv' /\ TableInv'
  <2>1. /\ leases' = ExpireLeases(leases)
        /\ UNCHANGED <<desired_state, in_flight, pc, acquiring, granted, pause_acked>>
        /\ server' = "await_policy" /\ ~Blocked /\ ~Blocked'
    BY <1>10 DEF SetPolicy, Expire, Accepts, Blocked
  <2>2. PauseInv'
    BY <1>t, <2>1 DEF PauseInv, Held
  <2>3. GrantInv'
    BY <1>e, <1>t, <2>1 DEF TableInv, GrantInv, Tentative
  <2> QED
    BY <1>t, <2>1, <2>2, <2>3 DEF TableInv, AcquireInv, TtlInv
<1>11. CASE Work
  <2>1. TableInv'
    BY <1>11, <1>t, WorkFacts, QuietTable, ExpireTable DEF Blocked
  <2>2. ~PauseRequested(desired_state, ExpireLeases(leases)) =>
          Held = {} /\ ~pause_acked
    BY <1>e, <1>t, HeldLive DEF PauseRequested, Held, PauseInv
  <2>3. PauseInv'
    BY <1>11, <1>t, <2>2, WorkFacts DEF PauseInv, Held
  <2> QED
    BY <2>1, <2>3
<1>12. CASE Tick
  <2>1. /\ DOMAIN leases' = DOMAIN leases
        /\ \A l \in DOMAIN leases : leases'[l] = Aged(leases[l])
        /\ \A l \in LeaseIds : granted'[l] = Less(granted[l])
        /\ UNCHANGED <<desired_state, in_flight, pc, server, pause_acked>>
        /\ Blocked <=> Blocked'
    BY <1>12 DEF Tick, Blocked
  <2>2. \A n \in Nat : /\ Less(n) \in Nat /\ Less(n) <= n /\ (Less(n) > 0 => n > 0)
    BY DEF Less
  <2>3. \A m, n \in Nat : /\ m <= n => Less(m) <= Less(n)
    BY DEF Less
  <2>4. \A l \in DOMAIN leases : leases'[l].left = Less(leases[l].left)
    BY <1>t, <2>1, AgedFacts
  <2>5. Held' \subseteq Held
    BY <1>t, <2>1, <2>2 DEF Held
  <2>6. PauseInv'
    BY <1>t, <2>1, <2>5 DEF PauseInv
  <2>7. Blocked =>
          /\ acquiring \in AcquireCalls /\ acquiring.id \in LeaseIds
          /\ acquiring.lease \in Lease /\ acquiring.lease.left \in Nat
          /\ acquiring.previous \subseteq Lease
          /\ acquiring' = [acquiring EXCEPT !.lease = Aged(@), !.previous = {Aged(p) : p \in @}]
    BY <1>12, <1>t DEF Tick, Blocked, TypeOK, AcquireCalls, Lease
  <2>8. Blocked =>
          /\ acquiring'.id = acquiring.id
          /\ acquiring'.lease = Aged(acquiring.lease)
          /\ acquiring'.previous = {Aged(p) : p \in acquiring.previous}
    BY <2>7 DEF AcquireCalls
  <2>9. \A l : Tentative(l) <=> Tentative(l)'
    BY <2>1, <2>8 DEF Tentative
  <2>10. GrantInv'
    BY <1>t, <2>1, <2>2, <2>4, <2>9 DEF TableInv, GrantInv
  <2>11. AcquireInv'
    <3> SUFFICES ASSUME Blocked
                 PROVE  AcquireInv'
      BY <2>1 DEF AcquireInv
    <3>0. AcquireInv
      BY <1>t DEF TableInv
    <3>g. /\ granted'[acquiring'.id] = Less(granted[acquiring.id])
          /\ granted[acquiring.id] \in Nat
      BY <1>t, <2>1, <2>7, <2>8
    <3>1. acquiring'.lease.left = Less(acquiring.lease.left)
      BY <2>7, <2>8, AgedFacts
    <3>2. \A p \in acquiring'.previous : p.left = granted'[acquiring'.id]
      <4>1. \A p \in acquiring.previous : Aged(p).left = Less(granted[acquiring.id])
        BY <2>7, <3>0, AgedFacts DEF AcquireInv
      <4> QED
        BY <2>8, <3>g, <4>1
    <3>3. granted'[acquiring'.id] > 0 => acquiring'.previous # {}
      <4>1. granted'[acquiring'.id] > 0 => acquiring.previous # {}
        BY <2>2, <3>0, <3>g DEF AcquireInv
      <4> QED
        BY <2>8, <4>1
    <3>4. granted'[acquiring'.id] <= acquiring'.lease.left
      <4>1. granted[acquiring.id] <= acquiring.lease.left
        BY <3>0 DEF AcquireInv
      <4> QED
        BY <2>3, <2>7, <3>g, <3>1, <4>1
    <3>5. \A t \in Ttls : acquiring'.lease.left <= t
      BY <1>t, <2>2, <2>7, <3>1 DEF TableInv, AcquireInv
    <3>6. /\ acquiring'.id \in DOMAIN leases' => leases'[acquiring'.id] = acquiring'.lease
          /\ acquiring'.lease.left > 0 => acquiring'.id \in DOMAIN leases'
      BY <1>t, <2>1, <2>2, <2>7, <2>8, <3>1 DEF TableInv, AcquireInv
    <3> QED
      BY <3>2, <3>3, <3>4, <3>5, <3>6 DEF AcquireInv
  <2>12. TtlInv'
    BY <1>t, <2>1, <2>2 DEF TableInv, TtlInv
  <2> QED
    BY <2>6, <2>10, <2>11, <2>12 DEF TableInv
<1>13. CASE NewBlock \/ ControlPlaneStops \/ UNCHANGED vars
  <2>1. UNCHANGED <<desired_state, leases, in_flight, pc, server, acquiring, granted, pause_acked>>
    BY <1>13 DEF NewBlock, ControlPlaneStops, vars
  <2>2. PauseInv'
    BY <1>t, <2>1 DEF PauseInv, Held
  <2> QED
    BY <1>t, <2>1, <2>2, QuietTable DEF Blocked
<1>14. CASE WorkerRestart
  <2>1. PauseInv'
    BY <1>14 DEF WorkerRestart, PauseInv, Held
  <2>2. TableInv'
    BY <1>14 DEF WorkerRestart, EmptyTable, TableInv, GrantInv, AcquireInv, TtlInv, Blocked
  <2> QED
    BY <2>1, <2>2
<1> QED
  BY <1>1, <1>2, <1>3, <1>4, <1>5, <1>6, <1>7, <1>8, <1>9, <1>10, <1>11, <1>12, <1>13, <1>14
  DEF Next, Request, Answer

\* The lease invariant holds of the worker.
THEOREM LeaseInvariant == Spec => []LeaseInv
  BY LeaseInit, LeaseStep, PTL DEF Spec

\* While an acknowledged lease lives, no cycle runs and the engine is
\* neither initialized nor reconciled.
THEOREM SpamExcluded == Spec => []LeaseExcludesSpam
<1>1. LeaseInv => LeaseExcludesSpam
  BY DEF LeaseInv, PauseInv, LeaseExcludesSpam
<1> QED
  BY <1>1, LeaseInvariant, PTL

(***************************************************************************)
(* The engine and the policy.                                              *)
(***************************************************************************)
\* The initial state has no engine and no pending policy.
LEMMA EngineInit == Init => EngineInv /\ PolicyInv
  BY ConstantsAssumption DEF Init, EngineInv, PolicyInv

\* Every step keeps the engine tuned and the pending policy newer.
LEMMA EngineStep ==
  TypeOK /\ EngineInv /\ PolicyInv /\ [Next]_vars => EngineInv' /\ PolicyInv'
<1> SUFFICES ASSUME TypeOK, EngineInv, PolicyInv, [Next]_vars
             PROVE  EngineInv' /\ PolicyInv'
  OBVIOUS
<1> USE DEF policyVars, reconcileVars, serverVars, runnerVars, workerVars, clientVars
<1>q. ASSUME UNCHANGED <<policyVars, engine>>, pc' = "cycle" => pc = "cycle"
      PROVE  EngineInv' /\ PolicyInv'
  BY <1>q DEF EngineInv, PolicyInv
<1>1. CASE \/ Status \/ Resume \/ Pause \/ Answer \/ Tick \/ NewBlock \/ ControlPlaneStops
           \/ UNCHANGED vars
  BY <1>1, <1>q
  DEF Status, Resume, Pause, Answer, AckPause, PauseTimesOut, AckLease, LeaseTimesOut,
      RollbackUnacquiredLease, AnswerPolicy, PolicyTimesOut, Tick, NewBlock,
      ControlPlaneStops, vars
<1>2. ASSUME NEW id \in LeaseIds, NEW changed \in BOOLEAN, ReleaseLease(id, changed)
      PROVE  EngineInv' /\ PolicyInv'
  BY <1>2, <1>q DEF ReleaseLease
<1>3. ASSUME NEW id \in LeaseIds, NEW ttl \in Ttls, RenewLease(id, ttl)
      PROVE  EngineInv' /\ PolicyInv'
  BY <1>3, <1>q DEF RenewLease
<1>4. ASSUME NEW id \in LeaseIds, NEW owner \in Owners, NEW ttl \in Ttls,
             AcquireLease(id, owner, ttl)
      PROVE  EngineInv' /\ PolicyInv'
  BY <1>4, <1>q DEF AcquireLease
<1>14. ASSUME NEW id \in LeaseIds, NEW owner \in Owners, RefuseLease(id, owner)
      PROVE  EngineInv' /\ PolicyInv'
  BY <1>14, <1>q DEF RefuseLease
<1>5. ASSUME NEW r \in PolicyRequests, PolicyUnchanged(r)
      PROVE  EngineInv' /\ PolicyInv'
  BY <1>5, <1>q DEF PolicyUnchanged
<1>6. ASSUME NEW r \in PolicyRequests, SetPolicy(r)
      PROVE  EngineInv' /\ PolicyInv'
  <2>1. EngineInv'
    BY <1>6 DEF SetPolicy, EngineInv
  <2>2. r.generation \in Nat /\ generation \in Nat
    BY ConstantsAssumption DEF PendingPolicies, TypeOK
  <2>3. PolicyInv'
    BY <1>6, <2>2 DEF SetPolicy, RefusedPolicy, PolicyInv
  <2> QED
    BY <2>1, <2>3
<1>7. CASE \/ SafePointAppliesPolicy \/ SafePointPauses \/ SafePointInitializes
           \/ SafePointReconciles \/ SafePointDisabled \/ SafePointReady
           \/ InitializationFails \/ StartBuild \/ ReportAfterReconcile \/ WaitForBlockPoll
           \/ BlockCountFails \/ CycleNotDue \/ CycleRefused
           \/ ReconciliationSucceeds \/ ReconciliationFails \/ FinishCycle
  BY <1>7, <1>q
  DEF SafePointAppliesPolicy, SafePointPauses, SafePointInitializes, SafePointReconciles,
      SafePointDisabled, SafePointReady, Enter, InitializationFails, StartBuild,
      ReportAfterReconcile, WaitForBlockPoll, BlockCountFails, CycleNotDue, CycleRefused,
      ReconciliationSucceeds, ReconciliationFails, FinishCycle, Leave, Fail
<1>8. ASSUME NEW m \in Senders, CycleCheckpoint(m) \/ SubmitBatch(m)
      PROVE  EngineInv' /\ PolicyInv'
  BY <1>8, <1>q DEF CycleCheckpoint, SubmitBatch
<1>9. CASE InitializationSucceeds
  BY <1>9 DEF InitializationSucceeds, Leave, EngineInv, PolicyInv
<1>10. CASE PolicyApplied \/ PolicyBuilt
  BY <1>10 DEF PolicyApplied, PolicyBuilt, CompletePolicy, Leave, EngineInv, PolicyInv
<1>11. CASE BuildFails
  BY <1>11 DEF BuildFails, Fail, EngineInv, PolicyInv
<1>12. CASE BeginCycle
  BY <1>12 DEF BeginCycle, MayBegin, Enter, EngineInv, PolicyInv
<1>13. CASE WorkerRestart
  BY <1>13 DEF WorkerRestart, EngineInv, PolicyInv
<1> QED
  BY <1>1, <1>2, <1>3, <1>4, <1>5, <1>6, <1>7, <1>8, <1>9, <1>10, <1>11, <1>12, <1>13, <1>14
  DEF Next, Request, Work

\* The worker invariant: types, lease table, manual pause, engine.
THEOREM WorkerInvariantHolds == Spec => []WorkerInvariant
<1>1. LeaseInv /\ EngineInv => WorkerInvariant
  <2> SUFFICES ASSUME LeaseInv, EngineInv
               PROVE  LeaseTableMatchesGrants /\ ManualPauseHolds /\ CycleHasItsEngine
    BY DEF LeaseInv, WorkerInvariant
  <2>1. LeaseTableMatchesGrants
    BY HeldLive
    DEF LeaseTableMatchesGrants, Held, LeaseInv, TableInv, GrantInv, Tentative, Blocked
  <2>2. ManualPauseHolds
    BY DEF ManualPauseHolds, Spamming, LeaseInv, PauseInv
  <2>3. CycleHasItsEngine
    BY DEF CycleHasItsEngine, Spamming, EngineInv
  <2> QED
    BY <2>1, <2>2, <2>3
<1> QED
  BY <1>1, LeaseInvariant, TypeCorrect, EngineInit, EngineStep, PTL DEF Spec

\* Only complete_policy and a new process move the generation.
LEMMA GenerationMoves ==
  ASSUME TypeOK, [Next]_vars, ~UNCHANGED generation
  PROVE  WorkerRestart \/ \E p \in pending_policy : generation' = p.generation
<1> USE DEF policyVars, reconcileVars, serverVars, runnerVars, workerVars, clientVars
<1>1. CASE Request
  BY <1>1
  DEF Request, Status, Resume, Pause, ReleaseLease, RenewLease, RefuseLease, AcquireLease,
      SetPolicy, PolicyUnchanged
<1>2. CASE Answer
  BY <1>2
  DEF Answer, AckPause, PauseTimesOut, AckLease, LeaseTimesOut,
      RollbackUnacquiredLease, AnswerPolicy, PolicyTimesOut
<1>3. CASE Work
  BY <1>3
  DEF Work, SafePointAppliesPolicy, SafePointPauses, SafePointInitializes,
      SafePointReconciles, SafePointDisabled, SafePointReady, InitializationSucceeds,
      InitializationFails, StartBuild, PolicyApplied, PolicyBuilt, CompletePolicy, BuildFails,
      ReportAfterReconcile, WaitForBlockPoll, BlockCountFails, CycleNotDue, BeginCycle,
      CycleRefused, CycleCheckpoint, SubmitBatch, ReconciliationSucceeds,
      ReconciliationFails, FinishCycle
<1>4. CASE Tick \/ NewBlock \/ ControlPlaneStops \/ UNCHANGED vars
  BY <1>4 DEF Tick, NewBlock, ControlPlaneStops, vars
<1> QED
  BY <1>1, <1>2, <1>3, <1>4 DEF Next

\* The effective generation moves backwards only for a rollback request or
\* because the process started again.
THEOREM RegressionIsRollback == Spec => NoSilentRegression
<1>1. TypeOK /\ PolicyInv /\ [Next]_vars =>
        [generation' < generation =>
           WorkerRestart \/ \E p \in pending_policy : p.rollback]_vars
  <2> SUFFICES ASSUME TypeOK, PolicyInv, [Next]_vars, generation' < generation
               PROVE  WorkerRestart \/ \E p \in pending_policy : p.rollback
    OBVIOUS
  <2>1. generation \in Nat /\ ~UNCHANGED generation
    BY DEF TypeOK
  <2>2. CASE \E p \in pending_policy : generation' = p.generation
    <3>1. PICK p \in pending_policy : generation' = p.generation
      BY <2>2
    <3>2. p.generation \in Nat
      BY DEF TypeOK, PendingPolicies
    <3> QED
      BY <2>1, <3>1, <3>2 DEF PolicyInv
  <2> QED
    BY <2>1, <2>2, GenerationMoves
<1> QED
  BY <1>1, EngineInit, EngineStep, TypeCorrect, PTL DEF Spec, NoSilentRegression

(***************************************************************************)
(* The worker implements PauseGate.                                        *)
(***************************************************************************)
\* The initial state of the worker is one of the gate.
LEMMA GateInit == Init => Gate!Init
  BY DEF Init, Gate!Init, Held, Spamming

\* Every step of the worker is a step of the gate or leaves it unchanged.
LEMMA GateStep == LeaseInv /\ [Next]_vars => [Gate!Next]_(Gate!gate)
<1> SUFFICES ASSUME LeaseInv, [Next]_vars
             PROVE  Gate!Next \/ UNCHANGED Gate!gate
  OBVIOUS
<1> USE ConstantsAssumption
    DEF policyVars, reconcileVars, serverVars, runnerVars, workerVars, clientVars
<1>t. TypeOK /\ granted \in [LeaseIds -> Nat] /\ IsTable(leases)
  BY DEF LeaseInv, TypeOK
<1>p. ~in_flight => ~Spamming
  BY DEF LeaseInv, PauseInv, Spamming
<1>q. ASSUME UNCHANGED <<granted, pause_acked, pc>>
      PROVE  UNCHANGED Gate!gate
  BY <1>q DEF Gate!gate, Spamming, Held
<1>1. CASE \/ Status \/ PauseTimesOut \/ LeaseTimesOut \/ RollbackUnacquiredLease
           \/ AnswerPolicy \/ PolicyTimesOut \/ NewBlock \/ ControlPlaneStops
           \/ UNCHANGED vars
  BY <1>1, <1>q
  DEF Status, PauseTimesOut, LeaseTimesOut, RollbackUnacquiredLease, AnswerPolicy,
      PolicyTimesOut, NewBlock, ControlPlaneStops, vars
<1>2. CASE Resume
  BY <1>2 DEF Resume, Gate!Next, Gate!WithdrawManual, Spamming, Held
<1>3. CASE Pause \/ AckPause
  <2>1. CASE UNCHANGED pause_acked
    BY <1>3, <1>q, <2>1 DEF Pause, AckPause
  <2>2. CASE ~UNCHANGED pause_acked
    <3>1. pause_acked' = TRUE /\ ~Spamming /\ UNCHANGED <<granted, pc>>
      BY <1>3, <1>p, <2>2 DEF Pause, AckPause, IsEffectivelyPaused
    <3> QED
      BY <3>1 DEF Gate!Next, Gate!GrantManual, Spamming, Held
  <2> QED
    BY <2>1, <2>2
<1>4. ASSUME NEW id \in LeaseIds, NEW n \in Nat, granted' = [granted EXCEPT ![id] = n],
             UNCHANGED <<pause_acked, pc>>, n > 0 => ~Spamming
      PROVE  Gate!Next
  <2>1. CASE n = 0
    <3>1. Held' \subseteq Held /\ UNCHANGED <<pause_acked, Spamming>>
      BY <1>4, <1>t, <2>1 DEF Spamming, Held
    <3> QED
      BY <3>1 DEF Gate!Next, Gate!Lapse
  <2>2. CASE n > 0
    <3>1. Held' = Held \cup {id} /\ UNCHANGED <<pause_acked, Spamming>> /\ ~Spamming
      BY <1>4, <1>t, <2>2 DEF Spamming, Held
    <3> QED
      BY <3>1 DEF Gate!Next, Gate!Grant
  <2> QED
    BY <2>1, <2>2
<1>5. CASE AckLease
  <2>1. acquiring \in AcquireCalls
    BY <1>5, <1>t DEF AckLease, TypeOK
  <2>2. acquiring.id \in LeaseIds /\ acquiring.lease.left \in Nat
    BY <2>1 DEF AcquireCalls, Lease
  <2> QED
    BY <1>4, <1>5, <1>p, <2>2 DEF AckLease, IsEffectivelyPaused
<1>6. ASSUME NEW id \in LeaseIds, NEW changed \in BOOLEAN, ReleaseLease(id, changed)
      PROVE  Gate!Next
  <2>1. granted' = [granted EXCEPT ![id] = 0] /\ UNCHANGED <<pause_acked, pc>>
    BY <1>6 DEF ReleaseLease
  <2>2. 0 \in Nat /\ ~(0 > 0)
    OBVIOUS
  <2> QED
    BY <1>4, <2>1, <2>2
<1>7. ASSUME NEW id \in LeaseIds, NEW ttl \in Ttls, RenewLease(id, ttl)
      PROVE  Gate!Next \/ UNCHANGED Gate!gate
  <2>1. CASE id \notin DOMAIN ExpireLeases(leases)
    BY <1>7, <1>q, <2>1 DEF RenewLease
  <2>2. CASE id \in DOMAIN ExpireLeases(leases)
    <3>1. id \in DOMAIN leases /\ leases[id].left > 0
      BY <1>t, <2>2, ExpireFacts
    <3>2. granted[id] > 0
      BY <1>7, <3>1
      DEF RenewLease, Accepts, LeaseInv, TableInv, GrantInv, Tentative, Blocked
    <3>3. ~Spamming
      BY <3>2 DEF LeaseInv, PauseInv, Held, Spamming
    <3> QED
      BY <1>4, <1>7, <2>2, <3>3 DEF RenewLease
  <2> QED
    BY <2>1, <2>2
<1>8. ASSUME NEW id \in LeaseIds, NEW owner \in Owners, RefuseLease(id, owner)
      PROVE  UNCHANGED Gate!gate
  BY <1>8, <1>q DEF RefuseLease
<1>9. ASSUME NEW id \in LeaseIds, NEW owner \in Owners, NEW ttl \in Ttls,
             AcquireLease(id, owner, ttl)
      PROVE  Gate!Next \/ UNCHANGED Gate!gate
  <2>1. CASE ~in_flight
    <3>1. granted' = [granted EXCEPT ![id] = ttl] /\ UNCHANGED <<pause_acked, pc>>
      BY <1>9, <2>1 DEF AcquireLease, MarkPauseRequested
    <3> QED
      BY <1>4, <1>p, <2>1, <3>1
  <2>2. CASE in_flight
    <3>1. UNCHANGED <<granted, pause_acked, pc>>
      BY <1>9, <2>2 DEF AcquireLease, MarkPauseRequested
    <3> QED
      BY <1>q, <3>1
  <2> QED
    BY <2>1, <2>2
<1>10. ASSUME NEW r \in PolicyRequests, SetPolicy(r) \/ PolicyUnchanged(r)
       PROVE  UNCHANGED Gate!gate
  BY <1>10, <1>q DEF SetPolicy, PolicyUnchanged
<1>11. CASE Work
  <2>1. UNCHANGED <<Held, pause_acked>>
    BY <1>11, WorkFacts DEF Held
  <2>2. CASE Spamming' <=> Spamming
    <3>1. UNCHANGED Spamming
      BY <2>2 DEF Spamming
    <3> QED
      BY <2>1, <3>1 DEF Gate!gate
  <2>3. CASE ~Spamming'
    <3>1. Spamming' = FALSE
      BY <2>3 DEF Spamming
    <3> QED
      BY <2>1, <3>1 DEF Gate!Next, Gate!End
  <2>4. CASE Spamming' /\ ~Spamming
    <3>1. ~PauseRequested(desired_state, ExpireLeases(leases))
      BY <1>11, <2>4, WorkFacts DEF Spamming
    <3>2. Held = {}
      BY <1>t, <3>1, HeldLive, ExpireFacts DEF PauseRequested, Held
    <3>3. ~pause_acked
      BY <3>1 DEF PauseRequested, LeaseInv, PauseInv
    <3>4. Spamming' = TRUE
      BY <2>4 DEF Spamming
    <3> QED
      BY <2>1, <3>2, <3>3, <3>4 DEF Gate!Next, Gate!Begin
  <2> QED
    BY <2>2, <2>3, <2>4
<1>12. CASE Tick
  <2>1. /\ granted' = [l \in LeaseIds |-> Less(granted[l])]
        /\ UNCHANGED <<pause_acked, pc>>
    BY <1>12 DEF Tick
  <2>2. Held' \subseteq Held
    BY <1>t, <2>1 DEF Less, Held
  <2> QED
    BY <2>1, <2>2 DEF Gate!Next, Gate!Lapse, Spamming
<1>13. CASE WorkerRestart
  <2>1. Held' = {} /\ pause_acked' = FALSE
    BY <1>13 DEF WorkerRestart, Held
  <2>2. Spamming' = FALSE
    BY <1>13 DEF WorkerRestart, Spamming
  <2> QED
    BY <2>1, <2>2 DEF Gate!Next, Gate!Restart
<1> QED
  BY <1>1, <1>2, <1>3, <1>5, <1>6, <1>7, <1>8, <1>9, <1>10, <1>11, <1>12, <1>13
  DEF Next, Request, Answer

\* The spam worker, for all values of its constants, implements the gate:
\* pauses are granted at rest only, and a cycle begins only with no grant out.
THEOREM RefinesPauseGate == Spec => ImplementsPauseGate
  BY GateInit, GateStep, LeaseInvariant, PTL DEF Spec, Gate!Spec, ImplementsPauseGate

(***************************************************************************)
(* Reconciliation.                                                         *)
(***************************************************************************)
\* The chain is read when the worker starts.
LEMMA ReconcileInit == Init => ReconcileInv
  BY DEF Init, ReconcileInv

\* A noted change is not forgotten.
LEMMA NoteChangeKept ==
  ASSUME NEW changed \in BOOLEAN, NoteChange(changed),
         changes # "none" => reconciliation_pending
  PROVE  changes' # "none" => reconciliation_pending'
  BY DEF NoteChange

\* Every step keeps the reconciliation invariant, if only the owner of a
\* live lease reports that it changed the chain.
LEMMA ReconcileStep ==
  ASSUME ~LateRelease
  PROVE  LeaseInv /\ ReconcileInv /\ [Next]_vars => ReconcileInv'
<1> SUFFICES ASSUME LeaseInv, ReconcileInv, [Next]_vars
             PROVE  ReconcileInv'
  OBVIOUS
<1> USE DEF policyVars, reconcileVars, serverVars, runnerVars, workerVars, clientVars
<1>t. /\ IsTable(leases) /\ TypeOK
      /\ IsTable(ExpireLeases(leases)) /\ SomeExpired(leases) \in BOOLEAN
      /\ DOMAIN ExpireLeases(leases) \subseteq DOMAIN leases
  BY ExpireFacts DEF LeaseInv, TypeOK, SomeExpired
\* An idle server thread finds an empty table while the engine reads the chain.
<1>i. ASSUME pc = "reconciling", ~Blocked
      PROVE  /\ DOMAIN leases = {} /\ DOMAIN ExpireLeases(leases) = {}
             /\ ~SomeExpired(leases) /\ changes = "seen" /\ in_flight
  BY <1>i, <1>t DEF ReconcileInv, Tentative, SomeExpired, LeaseInv, PauseInv
<1>e. ASSUME Expire, UNCHANGED pc, ~Blocked
      PROVE  ReconcileInv'
  <2>1. changes' # "none" => reconciliation_pending'
    BY <1>e, <1>t, NoteChangeKept DEF Expire, ReconcileInv
  <2>2. pc = "reconciling" => DOMAIN leases' = {} /\ changes' = "seen"
    BY <1>e, <1>i DEF Expire, NoteChange
  <2> QED
    BY <1>e, <2>1, <2>2 DEF ReconcileInv
<1>u. ASSUME UNCHANGED <<leases, reconciliation_pending, changes, pc, acquiring>>,
             Blocked' <=> Blocked
      PROVE  ReconcileInv'
  BY <1>u DEF ReconcileInv, Tentative
<1>o. ASSUME UNCHANGED <<reconciliation_pending, changes>>, pc' # "reconciling"
      PROVE  ReconcileInv'
  BY <1>o DEF ReconcileInv
<1>x. ASSUME Expire, pc' # "reconciling"
      PROVE  ReconcileInv'
  <2>1. changes' # "none" => reconciliation_pending'
    BY <1>x, <1>t, NoteChangeKept DEF Expire, ReconcileInv
  <2> QED
    BY <1>x, <2>1 DEF ReconcileInv
<1>1. CASE Status
  BY <1>1, <1>e DEF Status, Accepts, Blocked
<1>2. CASE Resume \/ Pause
  BY <1>2, <1>u DEF Resume, Pause, Accepts, Blocked
<1>3. CASE AckPause \/ PauseTimesOut \/ LeaseTimesOut \/ AnswerPolicy \/ PolicyTimesOut
  BY <1>3, <1>u DEF AckPause, PauseTimesOut, LeaseTimesOut, AnswerPolicy, PolicyTimesOut, Blocked
<1>4. CASE AckLease
  <2>1. ~in_flight /\ pc' = pc /\ UNCHANGED <<reconciliation_pending, changes>>
    BY <1>4 DEF AckLease, IsEffectivelyPaused
  <2> QED
    BY <1>o, <2>1 DEF LeaseInv, PauseInv
<1>5. CASE RollbackUnacquiredLease
  <2> DEFINE restored == RestoredTable(leases, acquiring)
  <2>1. /\ leases' = RollbackTable(leases, acquiring) /\ UNCHANGED pc
        /\ NoteChange(DOMAIN leases' # DOMAIN restored)
    BY <1>5 DEF RollbackUnacquiredLease
  <2>2. (DOMAIN leases' # DOMAIN restored) \in BOOLEAN
    OBVIOUS
  <2>3. changes' # "none" => reconciliation_pending'
    BY <2>1, <2>2, NoteChangeKept DEF ReconcileInv
  <2>4. ASSUME pc = "reconciling"
        PROVE  DOMAIN leases' = {} /\ changes' = "seen"
    <3>1. CASE acquiring.id \notin DOMAIN leases
      <4>1. leases' = leases /\ restored = leases
        BY <2>1, <3>1 DEF RollbackTable, RestoredTable
      <4>2. DOMAIN leases = {}
        BY <2>4, <3>1 DEF ReconcileInv, Tentative
      <4> QED
        BY <2>1, <2>4, <4>1, <4>2 DEF NoteChange, ReconcileInv
    <3>2. CASE acquiring.id \in DOMAIN leases
      <4>1. /\ acquiring.previous = {} /\ Blocked
            /\ DOMAIN leases = {acquiring.id}
        BY <2>4, <3>2 DEF ReconcileInv, Tentative
      <4>2. leases[acquiring.id] = acquiring.lease
        BY <3>2, <4>1 DEF LeaseInv, TableInv, AcquireInv
      <4>3. restored = Remove(leases, acquiring.id) /\ leases' = ExpireLeases(restored)
        BY <2>1, <3>2, <4>1, <4>2 DEF RestoredTable, RollbackTable
      <4>4. DOMAIN restored = {} /\ IsTable(restored)
        <5>1. /\ IsTable(Remove(leases, acquiring.id))
              /\ DOMAIN Remove(leases, acquiring.id) = DOMAIN leases \ {acquiring.id}
          BY <1>t, RemoveFacts
        <5> QED
          BY <4>1, <4>3, <5>1
      <4> HIDE DEF restored
      <4>5. DOMAIN leases' = {}
        BY <4>3, <4>4, ExpireFacts
      <4> QED
        BY <2>1, <2>4, <4>4, <4>5 DEF NoteChange, ReconcileInv
    <3> QED
      BY <3>1, <3>2
  <2> QED
    BY <2>1, <2>3, <2>4 DEF ReconcileInv
<1>6. ASSUME NEW id \in LeaseIds, NEW changed \in BOOLEAN, ReleaseLease(id, changed)
      PROVE  ReconcileInv'
  <2>1. /\ leases' = Remove(ExpireLeases(leases), id) /\ UNCHANGED pc /\ ~Blocked
        /\ NoteChange(SomeExpired(leases) \/ changed)
        /\ changed => id \in DOMAIN ExpireLeases(leases)
    BY <1>6 DEF ReleaseLease, Accepts, Blocked
  <2>2. (SomeExpired(leases) \/ changed) \in BOOLEAN
    OBVIOUS
  <2>3. changes' # "none" => reconciliation_pending'
    BY <2>1, <2>2, NoteChangeKept DEF ReconcileInv
  <2>4. DOMAIN leases' \subseteq DOMAIN ExpireLeases(leases)
    BY <1>t, <2>1, RemoveFacts
  <2>5. pc = "reconciling" => DOMAIN leases' = {} /\ changes' = "seen"
    BY <1>i, <2>1, <2>4 DEF NoteChange
  <2> QED
    BY <2>1, <2>3, <2>5 DEF ReconcileInv
<1>7. ASSUME NEW id \in LeaseIds, NEW ttl \in Ttls, RenewLease(id, ttl)
      PROVE  ReconcileInv'
  <2>1. /\ UNCHANGED pc /\ ~Blocked /\ NoteChange(SomeExpired(leases))
    BY <1>7 DEF RenewLease, Accepts, Blocked
  <2>2. changes' # "none" => reconciliation_pending'
    BY <1>t, <2>1, NoteChangeKept DEF ReconcileInv
  <2>3. ASSUME pc = "reconciling"
        PROVE  DOMAIN leases' = {} /\ changes' = "seen"
    <3>1. leases' = ExpireLeases(leases)
      BY <1>7, <1>i, <2>1, <2>3 DEF RenewLease
    <3> QED
      BY <1>i, <2>1, <2>3, <3>1 DEF NoteChange
  <2> QED
    BY <2>1, <2>2, <2>3 DEF ReconcileInv
<1>8. ASSUME NEW id \in LeaseIds, NEW owner \in Owners, RefuseLease(id, owner)
      PROVE  ReconcileInv'
  BY <1>8, <1>e DEF RefuseLease, Accepts, Blocked
<1>9. ASSUME NEW id \in LeaseIds, NEW owner \in Owners, NEW ttl \in Ttls,
             AcquireLease(id, owner, ttl)
      PROVE  ReconcileInv'
  <2> DEFINE lease == [owner |-> owner, left |-> ttl]
             live == ExpireLeases(leases)
  <2>1. /\ leases' = Insert(live, id, lease)
        /\ UNCHANGED pc /\ ~Blocked /\ NoteChange(SomeExpired(leases))
    BY <1>9 DEF AcquireLease, Accepts, Blocked
  <2>2. changes' # "none" => reconciliation_pending'
    BY <1>t, <2>1, NoteChangeKept DEF ReconcileInv
  <2>3. ASSUME pc = "reconciling"
        PROVE  /\ changes' = "seen" /\ DOMAIN leases' = {id}
               /\ Blocked' /\ acquiring'.id = id /\ acquiring'.previous = {}
    <3>1. DOMAIN live = {} /\ changes' = "seen" /\ in_flight
      BY <1>i, <2>1, <2>3 DEF NoteChange
    <3>2. DOMAIN leases' = {id}
      BY <2>1, <3>1 DEF Insert
    <3>3. /\ server' = "await_lease"
          /\ acquiring' = [id |-> id, lease |-> lease,
                           previous |-> {live[l] : l \in DOMAIN live \cap {id}}]
      BY <1>9, <3>1 DEF AcquireLease, MarkPauseRequested
    <3>4. {live[l] : l \in DOMAIN live \cap {id}} = {}
      BY <3>1
    <3> HIDE DEF live, lease
    <3> QED
      BY <3>1, <3>2, <3>3, <3>4 DEF Blocked
  <2> QED
    BY <2>1, <2>2, <2>3 DEF ReconcileInv, Tentative
<1>10. ASSUME NEW r \in PolicyRequests, SetPolicy(r) \/ PolicyUnchanged(r)
       PROVE  ReconcileInv'
  BY <1>10, <1>e DEF SetPolicy, PolicyUnchanged, Accepts, Blocked
<1>11. CASE \/ SafePointAppliesPolicy \/ SafePointPauses \/ SafePointInitializes
            \/ SafePointDisabled \/ SafePointReady \/ StartBuild \/ ReportAfterReconcile
            \/ CycleRefused \/ WaitForBlockPoll \/ (\E m \in Senders : CycleCheckpoint(m))
  BY <1>11, <1>x
  DEF SafePointAppliesPolicy, SafePointPauses, SafePointInitializes, SafePointDisabled,
      SafePointReady, AtSafePoint, PastPause, Enter, StartBuild, ReportAfterReconcile,
      CycleRefused, WaitForBlockPoll, CycleCheckpoint
<1>12. CASE SafePointReconciles
  <2>1. DOMAIN leases' = {} /\ changes' = "seen" /\ reconciliation_pending'
    BY <1>12 DEF SafePointReconciles, PauseRequested
  <2> QED
    BY <2>1 DEF ReconcileInv
<1>13. CASE \/ InitializationSucceeds \/ InitializationFails \/ PolicyApplied \/ PolicyBuilt
            \/ BuildFails \/ BlockCountFails \/ CycleNotDue \/ BeginCycle \/ FinishCycle
            \/ (\E m \in Senders : SubmitBatch(m))
  BY <1>13, <1>o
  DEF InitializationSucceeds, InitializationFails, PolicyApplied, PolicyBuilt, CompletePolicy,
      BuildFails, BlockCountFails, CycleNotDue, BeginCycle, FinishCycle, SubmitBatch, Leave,
      Fail, Enter
<1>14. CASE ReconciliationSucceeds
  BY <1>14 DEF ReconciliationSucceeds, Leave, ReconcileInv
<1>15. CASE ReconciliationFails
  BY <1>15 DEF ReconciliationFails, Fail, ReconcileInv
<1>16. CASE Tick
  <2>1. /\ DOMAIN leases' = DOMAIN leases /\ UNCHANGED <<reconciliation_pending, changes, pc>>
        /\ Blocked' <=> Blocked
    BY <1>16 DEF Tick, Blocked
  <2>2. Blocked => acquiring'.id = acquiring.id
                   /\ (acquiring.previous = {} => acquiring'.previous = {})
    BY <1>16, <1>t DEF Tick, Blocked, TypeOK, AcquireCalls
  <2> QED
    BY <2>1, <2>2 DEF ReconcileInv, Tentative
<1>17. CASE NewBlock \/ ControlPlaneStops \/ UNCHANGED vars
  BY <1>17, <1>u DEF NewBlock, ControlPlaneStops, vars, Blocked
<1>18. CASE WorkerRestart
  BY <1>18 DEF WorkerRestart, ReconcileInv
<1> QED
  BY <1>1, <1>2, <1>3, <1>4, <1>5, <1>6, <1>7, <1>8, <1>9, <1>10, <1>11, <1>12, <1>13, <1>14,
     <1>15, <1>16, <1>17, <1>18 DEF Next, Request, Answer, Work

\* A cycle begins only when no possible chain change is newer than the last
\* reconciliation, if a job reports a change under its live lease only.
THEOREM ReconciliationComesFirst ==
  ASSUME ~LateRelease
  PROVE  Spec => ReconciledBeforeSending
<1>1. LeaseInv /\ ReconcileInv /\ [Next]_vars =>
        [~Spamming /\ Spamming' => changes' = "none"]_vars
  <2> SUFFICES ASSUME LeaseInv, ReconcileInv, Next, pc # "cycle", pc' = "cycle"
               PROVE  changes' = "none"
    BY DEF Spamming
  <2>1. BeginCycle
    BY DEF Next, Request, Status, Resume, Pause, ReleaseLease, RenewLease, RefuseLease,
       AcquireLease, SetPolicy, PolicyUnchanged, Answer, AckPause, PauseTimesOut, AckLease,
       LeaseTimesOut, RollbackUnacquiredLease, AnswerPolicy, PolicyTimesOut,
       Work, SafePointAppliesPolicy, SafePointPauses, SafePointInitializes,
       SafePointReconciles, SafePointDisabled, SafePointReady, InitializationSucceeds,
       InitializationFails, StartBuild, PolicyApplied, PolicyBuilt, CompletePolicy, BuildFails,
       ReportAfterReconcile, WaitForBlockPoll, BlockCountFails, CycleNotDue,
       CycleRefused, CycleCheckpoint, SubmitBatch, ReconciliationSucceeds,
       ReconciliationFails, FinishCycle, Enter, Leave, Fail, Tick, NewBlock,
       ControlPlaneStops, WorkerRestart, workerVars
  <2> QED
    BY <2>1 DEF BeginCycle, MayBegin, ReconcileInv
<1> QED
  BY <1>1, ReconcileInit, ReconcileStep, LeaseInvariant, PTL DEF Spec, ReconciledBeforeSending
=============================================================================
