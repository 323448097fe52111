------------------------- MODULE ConfigAgentProofs -------------------------
(***************************************************************************)
(* Theorems about the two components through which the control plane       *)
(* changes the rest of the system: the desired state and its apply         *)
(* transaction (ConfigApply), for every set of policies and configurations *)
(* and every number of generations, and the network agent (NetworkAgent),  *)
(* for every set of requests, leases, owners and TTLs and every length of  *)
(* the request history.  The two share no state and are proved apart.      *)
(***************************************************************************)
EXTENDS ConfigApply, NetworkAgent, TLAPS

(***************************************************************************)
(* I.  The desired state and the apply transaction.                        *)
(***************************************************************************)

(***************************************************************************)
(* The inductive invariant.                                                *)
(***************************************************************************)
\* The numbers a transaction works with: the runtime it found and the state
\* it wants are at most one generation ahead, and until a rollback starts the
\* wanted one is not behind.
Numbers ==
  /\ AtMostOneAhead
  /\ \A w \in Workers : before[w].generation <= stored.generation + 1
  /\ next.generation <= stored.generation + 1
  /\ at \in {"set", "verify", "save"} => next.generation >= stored.generation

\* An apply works from the state that is published, which stays until it ends.
Working ==
  /\ at \in {"set", "verify", "save", "restore", "check"} => stored = published
  /\ at \in {"state", "manual"} => todo # <<>>

ConfigInv == TypeOK /\ Numbers /\ Working

(***************************************************************************)
(* What an answer does to the transaction.                                 *)
(***************************************************************************)
USE DEF Workers

\* The transaction's variables after a step that leaves the durable state
\* alone: their types, the numbers in them, and that no apply starts.
TransactionOK ==
  /\ before' \in [Workers -> Snapshots] /\ next' \in ControlStates
  /\ at' \in Positions
  /\ todo' \in Seq(Workers) /\ attempted' \in Seq(Workers)
  /\ sent' \subseteq PolicyRequests
  /\ failed' \in BOOLEAN
  /\ at' = "idle" => todo' = <<>> /\ attempted' = <<>> /\ sent' = {} /\ ~failed'
  /\ at' \in {"state", "manual"} => todo' # <<>>
  /\ \A w \in Workers : before'[w].generation <= stored.generation + 1
  /\ next'.generation <= stored.generation + 1
  /\ at' \in {"set", "verify", "save"} => next'.generation >= stored.generation
  /\ at' \in {"set", "verify", "save", "restore", "check"} => stored = published

\* What a worker's status shows is of its type and no more than one ahead.
LEMMA SnapshotFacts ==
  ASSUME ConfigInv
  PROVE  /\ NoSnapshot \in [Workers -> Snapshots] /\ InitialState \in ControlStates
         /\ \A w \in Workers : NoSnapshot[w].generation = 0
         /\ InitialState.generation = 0
         /\ RuntimeSnapshot \in [Workers -> Snapshots]
         /\ \A w \in Workers : RuntimeSnapshot[w].generation <= stored.generation + 1
         /\ \A v \in Workers :
              /\ StatusOf(v) \in [Workers -> Snapshots]
              /\ \A w \in Workers : StatusOf(v)[w].generation <= stored.generation + 1
         /\ stored.generation \in Nat
<1>1. NoSnapshot \in [Workers -> Snapshots] /\ \A w \in Workers : NoSnapshot[w].generation = 0
  BY ConstantsAssumption DEF NoSnapshot, Snapshots, States
<1>2. InitialState \in ControlStates /\ InitialState.generation = 0
  BY ConstantsAssumption DEF InitialState, ControlStates, States
<1>3. stored.generation \in Nat
  BY DEF ConfigInv, TypeOK, ControlStates
<1>4. \A w \in Workers : /\ Status(w) \in Snapshots
                         /\ Status(w).generation <= stored.generation + 1
  BY DEF ConfigInv, TypeOK, Numbers, AtMostOneAhead, WorkerStates, Snapshots, Status
<1>5. /\ RuntimeSnapshot \in [Workers -> Snapshots]
      /\ \A w \in Workers : RuntimeSnapshot[w].generation <= stored.generation + 1
  BY <1>4 DEF RuntimeSnapshot
<1>6. ASSUME NEW v \in Workers
      PROVE  /\ StatusOf(v) \in [Workers -> Snapshots]
             /\ \A w \in Workers : StatusOf(v)[w].generation <= stored.generation + 1
  BY <1>1, <1>3, <1>4 DEF StatusOf
<1> QED
  BY <1>1, <1>2, <1>3, <1>5, <1>6

\* A mutation that ends leaves nothing behind.
LEMMA FinishStep ==
  ASSUME ConfigInv, Finish
  PROVE  TransactionOK
<1>1. failed' \in BOOLEAN /\ ~failed'
  BY Zenon DEF Finish
<1>2. <<>> \in Seq(Workers)
  OBVIOUS
<1> QED
  BY <1>1, <1>2, SnapshotFacts DEF Finish, TransactionOK, Positions

\* What there is to know of a transaction.
LEMMA TransactionFacts ==
  ASSUME ConfigInv
  PROVE  /\ before \in [Workers -> Snapshots] /\ next \in ControlStates
         /\ at \in Positions /\ sent \subseteq PolicyRequests /\ failed \in BOOLEAN
         /\ todo \in Seq(Workers) /\ attempted \in Seq(Workers)
         /\ \A w \in Workers : before[w].generation <= stored.generation + 1
         /\ next.generation <= stored.generation + 1
         /\ at \in {"set", "verify", "save"} => next.generation >= stored.generation
         /\ at \in {"set", "verify", "save", "restore", "check"} => stored = published
  BY DEF ConfigInv, TypeOK, Numbers, Working

\* What is left of the workers to call.
LEMMA TodoFacts ==
  ASSUME NEW S, NEW s \in Seq(S), s # <<>>
  PROVE  Tail(s) \in Seq(S) /\ Head(s) \in S /\ (Tail(s) # <<>> => Head(Tail(s)) \in S)
  OBVIOUS

\* The reconciliation turns to its next worker, or ends.
LEMMA NextWorkerStep ==
  ASSUME ConfigInv, at \in {"reconcile", "state"}, todo # <<>>, NextWorker
  PROVE  TransactionOK
<1>1. CASE Tail(todo) = <<>>
  BY <1>1, FinishStep DEF NextWorker
<1>2. CASE Tail(todo) # <<>>
  <2>1. /\ at' = "reconcile" /\ todo' = Tail(todo) /\ sent' = {}
        /\ before' = StatusOf(Head(Tail(todo)))
        /\ next' = next /\ attempted' = attempted /\ failed' = failed
    BY <1>2 DEF NextWorker
  <2>2. Tail(todo) \in Seq(Workers) /\ Head(Tail(todo)) \in Workers
    BY <1>2, TransactionFacts, TodoFacts
  <2>3. /\ before' \in [Workers -> Snapshots]
        /\ \A w \in Workers : before'[w].generation <= stored.generation + 1
    BY <2>1, <2>2, SnapshotFacts
  <2>4. failed' \in BOOLEAN
    BY <2>1, TransactionFacts, Zenon
  <2> QED
    BY <2>1, <2>2, <2>3, <2>4, TransactionFacts DEF TransactionOK, Positions
<1> QED
  BY <1>1, <1>2

\* An apply or its rollback turns to the next worker, or to the step after it.
LEMMA AdvanceStep ==
  ASSUME ConfigInv, todo # <<>>, attempted' \in Seq(Workers), failed' \in BOOLEAN,
         NEW then, Advance(then),
         \/ at = "set" /\ then = "verify"
         \/ at = "restore" /\ then = "check"
  PROVE  TransactionOK
<1>1. Tail(todo) \in Seq(Workers)
  BY TransactionFacts, TodoFacts
<1>2. /\ todo' = Tail(todo) /\ at' \in {at, then} /\ sent' = {}
      /\ before' = before /\ next' = next
  BY DEF Advance
<1> QED
  BY <1>1, <1>2, TransactionFacts DEF TransactionOK, Positions

\* The rollback starts.
LEMMA RollbackStep ==
  ASSUME ConfigInv, at \in {"set", "verify", "save"}, NEW calls \in Seq(Workers),
         StartRollback(calls), attempted' \in Seq(Workers)
  PROVE  TransactionOK
<1>1. /\ at' \in {"check", "restore"} /\ todo' = calls /\ sent' = {}
      /\ before' = before /\ next' = next /\ failed' = failed
  BY DEF StartRollback
<1>2. failed' \in BOOLEAN
  BY <1>1, TransactionFacts, Zenon
<1> QED
  BY <1>1, <1>2, TransactionFacts DEF TransactionOK, Positions

\* Every answer to a call.
LEMMA AnswerStep ==
  ASSUME ConfigInv, NEW w \in Workers, Calls(w), Accepted(w) \/ Rejected(w)
  PROVE  TransactionOK
<1>1. todo # <<>> /\ todo \in Seq(Workers) /\ attempted \in Seq(Workers)
  BY TransactionFacts DEF Calls
<1>2. Append(attempted, w) \in Seq(Workers)
  BY <1>1
<1>3. /\ failed' = failed => failed' \in BOOLEAN
      /\ failed' = TRUE => failed' \in BOOLEAN
  BY TransactionFacts, Zenon
<1>4. CASE Accepted(w) /\ at = "set"
  BY <1>1, <1>2, <1>3, <1>4, AdvanceStep DEF Accepted
<1>5. CASE Accepted(w) /\ at = "restore"
  BY <1>1, <1>3, <1>5, AdvanceStep DEF Accepted
<1>6. CASE Accepted(w) /\ at = "reconcile"
  <2>1. /\ at' = "state" /\ sent' = {} /\ before' = before /\ next' = next
        /\ todo' = todo /\ attempted' = attempted /\ failed' = failed
    BY <1>6 DEF Accepted
  <2> QED
    BY <1>1, <1>3, <2>1, TransactionFacts DEF TransactionOK, Positions
<1>7. CASE Rejected(w) /\ at = "set"
  BY <1>2, <1>7, RollbackStep DEF Rejected
<1>8. CASE Rejected(w) /\ at = "restore"
  BY <1>1, <1>3, <1>8, AdvanceStep DEF Rejected
<1>9. CASE Rejected(w) /\ at = "reconcile"
  BY <1>1, <1>9, NextWorkerStep DEF Rejected
<1> QED
  BY <1>4, <1>5, <1>6, <1>7, <1>8, <1>9 DEF Calls

(***************************************************************************)
(* What a step leaves of the workers, and what the two together keep.      *)
(***************************************************************************)
\* A worker of its type, at most one pending policy, neither far ahead.
WorkerOK(e) ==
  /\ e \in WorkerStates
  /\ \A p, q \in e.pending : p = q
  /\ e.generation <= stored.generation + 1
  /\ \A p \in e.pending : p.generation <= stored.generation + 1

WorkersOK == worker' \in [Workers -> WorkerStates] /\ \A w \in Workers : WorkerOK(worker'[w])

Flags == job' \in BOOLEAN /\ rolled_back' \in BOOLEAN /\ steady' \in BOOLEAN

\* The workers are in order before the step.
LEMMA WorkerFacts ==
  ASSUME ConfigInv
  PROVE  worker \in [Workers -> WorkerStates] /\ \A w \in Workers : WorkerOK(worker[w])
  BY DEF ConfigInv, TypeOK, Numbers, AtMostOneAhead, WorkerOK

\* A step that leaves the workers alone.
LEMMA WorkersStay ==
  ASSUME ConfigInv, worker' = worker
  PROVE  WorkersOK
  BY WorkerFacts DEF WorkersOK

\* A step that changes one worker.
LEMMA WorkerEdit ==
  ASSUME ConfigInv, NEW w \in Workers, NEW e, WorkerOK(e), worker' = [worker EXCEPT ![w] = e]
  PROVE  WorkersOK
<1>1. e \in WorkerStates
  BY DEF WorkerOK
<1>2. \A v \in Workers : worker'[v] = IF v = w THEN e ELSE worker[v]
  BY WorkerFacts
<1>3. worker' \in [Workers -> WorkerStates]
  BY <1>1, WorkerFacts
<1> QED
  BY <1>2, <1>3, WorkerFacts DEF WorkersOK

\* A step that leaves the transaction alone.
LEMMA TransactionStays ==
  ASSUME ConfigInv, UNCHANGED transaction
  PROVE  TransactionOK
<1>1. /\ at' = at /\ before' = before /\ next' = next /\ todo' = todo
      /\ attempted' = attempted /\ sent' = sent /\ failed' = failed
  BY DEF transaction
<1>2. failed' \in BOOLEAN
  BY <1>1, TransactionFacts, Zenon
<1>3. at' = "idle" => todo' = <<>> /\ attempted' = <<>> /\ sent' = {} /\ failed' = FALSE
  <2>1. at = "idle" => todo = <<>> /\ attempted = <<>> /\ sent = {} /\ failed = FALSE
    BY Zenon DEF ConfigInv, TypeOK, Idle
  <2> QED
    BY <1>1, <2>1
<1>4. at' \in {"state", "manual"} => todo' # <<>>
  BY <1>1 DEF ConfigInv, Working
<1> QED
  BY <1>1, <1>2, <1>3, <1>4, TransactionFacts DEF TransactionOK

\* The flags of a step that leaves them alone, or clears the rollback report.
LEMMA FlagsStay ==
  ASSUME ConfigInv, job' = job, steady' = steady, rolled_back' \in {rolled_back, FALSE}
  PROVE  Flags
  BY Zenon DEF ConfigInv, TypeOK, Flags

\* A step that leaves the durable state alone.
LEMMA StepKeeps ==
  ASSUME ConfigInv, TransactionOK, WorkersOK, Flags,
         stored' = stored, published' \in {published, stored}
  PROVE  ConfigInv'
<1>1. stored \in ControlStates /\ published \in ControlStates
  BY DEF ConfigInv, TypeOK
<1>2. Numbers'
  BY DEF TransactionOK, WorkersOK, WorkerOK, Numbers, AtMostOneAhead
<1>3. Working'
  BY DEF TransactionOK, Working
<1>4. \A w \in Workers : \A p, q \in worker'[w].pending : p = q
  BY DEF WorkersOK, WorkerOK
<1>5. worker' \in [Workers -> WorkerStates]
  BY DEF WorkersOK
<1>6. TypeOK'
  BY <1>1, <1>4, <1>5 DEF TransactionOK, Flags, TypeOK, Idle
<1> QED
  BY <1>2, <1>3, <1>6 DEF ConfigInv

(***************************************************************************)
(* The actions.                                                            *)
(***************************************************************************)
\* The answers that leave the workers alone.
LEMMA AnswerKeeps ==
  ASSUME ConfigInv, NEW w \in Workers, Calls(w), Accepted(w) \/ Rejected(w),
         UNCHANGED <<stored, published, worker, job, rolled_back, steady>>
  PROVE  ConfigInv'
<1>1. TransactionOK
  BY AnswerStep
<1>2. WorkersOK
  BY WorkersStay
<1>3. Flags
  BY FlagsStay
<1> QED
  BY <1>1, <1>2, <1>3, StepKeeps

\* The request of a mutation is of its type and at most one generation ahead.
LEMMA RequestFacts ==
  ASSUME ConfigInv, NEW w \in Workers, at \in {"set", "restore", "reconcile"}
  PROVE  PolicyRequest(w) \in PolicyRequests /\ PolicyRequest(w).generation <= stored.generation + 1
<1>1. stored \in ControlStates /\ next \in ControlStates /\ before[w] \in Snapshots
  BY TransactionFacts DEF ConfigInv, TypeOK
<1>2. CASE at = "set"
  BY <1>1, <1>2, TransactionFacts DEF PolicyRequest, PolicyRequests, ControlStates
<1>3. CASE at = "restore"
  BY <1>1, <1>3, TransactionFacts DEF PolicyRequest, PolicyRequests, Snapshots
<1>4. CASE at = "reconcile"
  <2>1. (before[w].generation >= stored.generation) \in BOOLEAN
    BY <1>1 DEF Snapshots, ControlStates
  <2>2. PolicyRequest(w) =
          [generation |-> stored.generation, policy |-> stored.desired[w],
           rollback |-> before[w].generation >= stored.generation]
    BY <1>4 DEF PolicyRequest
  <2> QED
    BY <1>1, <2>1, <2>2 DEF PolicyRequests, ControlStates
<1> QED
  BY <1>2, <1>3, <1>4

\* A request becomes the pending policy of its worker.
LEMMA SendPolicyKeeps ==
  ASSUME ConfigInv, NEW w \in Workers, SendPolicy(w)
  PROVE  ConfigInv'
<1> DEFINE r == PolicyRequest(w)
           p == [generation |-> r.generation, policy |-> r.policy]
           e == [worker[w] EXCEPT !.pending = {p}]
<1>1. /\ at \in {"set", "restore", "reconcile"} /\ sent' = {r}
      /\ worker' = [worker EXCEPT ![w].pending = {p}]
      /\ at' = at /\ before' = before /\ next' = next /\ todo' = todo
      /\ attempted' = attempted /\ failed' = failed
      /\ UNCHANGED <<stored, published, job, rolled_back, steady>>
  BY DEF SendPolicy, Calls
<1>2. r \in PolicyRequests /\ r.generation <= stored.generation + 1
  BY <1>1, RequestFacts
<1> HIDE DEF r
<1>3. p \in PendingPolicies /\ p.generation <= stored.generation + 1
  BY <1>2 DEF PolicyRequests, PendingPolicies
<1> HIDE DEF p
<1>4. worker[w] \in WorkerStates /\ WorkerOK(worker[w])
  BY WorkerFacts
<1>5. WorkerOK(e)
  BY <1>3, <1>4 DEF WorkerOK, WorkerStates
<1>6. WorkersOK
  BY <1>1, <1>5, WorkerFacts, WorkerEdit
<1>7. failed' \in BOOLEAN
  BY <1>1, TransactionFacts, Zenon
<1>8. TransactionOK
  BY <1>1, <1>2, <1>7, TransactionFacts DEF TransactionOK
<1>9. Flags
  BY <1>1, FlagsStay
<1> QED
  BY <1>1, <1>6, <1>8, <1>9, StepKeeps

\* The workers an apply calls, and the state it wants.
LEMMA WantedFacts ==
  ASSUME ConfigInv, NEW desired \in Configurations
  PROVE  /\ SuccessfulApply(desired) \in ControlStates
         /\ SuccessfulApply(desired).generation \in {stored.generation, stored.generation + 1}
         /\ \A state : Scopes(state) \in Seq(Workers)
<1>1. stored \in ControlStates /\ desired \in [Workers -> Policies]
  BY ConstantsAssumption DEF ConfigInv, TypeOK
<1>2. /\ SuccessfulApply(desired) \in ControlStates
      /\ SuccessfulApply(desired).generation \in {stored.generation, stored.generation + 1}
  <2>1. stored.generation \in Nat /\ stored.state \in [Workers -> States]
    BY <1>1 DEF ControlStates
  <2>2. PICK k \in {0, 1} : SuccessfulApply(desired) =
          [stored EXCEPT !.desired = desired, !.generation = stored.generation + k]
    BY DEF SuccessfulApply
  <2>3. SuccessfulApply(desired) =
          [generation |-> stored.generation + k, desired |-> desired, state |-> stored.state]
    BY <1>1, <2>2 DEF ControlStates
  <2>4. stored.generation + k \in Nat
        /\ stored.generation + k \in {stored.generation, stored.generation + 1}
    BY <2>1
  <2> QED
    BY <1>1, <2>1, <2>3, <2>4 DEF ControlStates
<1>3. ASSUME NEW state PROVE Scopes(state) \in Seq(Workers)
  <2>1. <<"mining">> \in Seq(Workers) /\ <<"spam">> \in Seq(Workers) /\ <<>> \in Seq(Workers)
    OBVIOUS
  <2>2. PICK m \in Seq(Workers), s \in Seq(Workers) : Scopes(state) = m \o s
    BY <2>1 DEF Scopes
  <2> QED
    BY <2>2
<1> QED
  BY <1>2, <1>3

\* An apply starts, from the stored state that becomes the published one.
LEMMA BeginApplyKeeps ==
  ASSUME ConfigInv, NEW desired \in Configurations, BeginApply(desired)
  PROVE  ConfigInv'
<1> DEFINE wanted == SuccessfulApply(desired)
           scopes == Scopes(wanted)
<1>1. /\ published' = stored /\ stored' = stored /\ worker' = worker
      /\ job' = job /\ steady' = steady /\ rolled_back' = FALSE /\ at = "idle"
  BY DEF BeginApply, Idle
<1>2. WorkersOK
  BY <1>1, WorkersStay
<1>3. Flags
  BY <1>1, FlagsStay
<1>4. CASE Finish
  <2>1. TransactionOK
    BY <1>4, FinishStep
  <2> QED
    BY <1>1, <1>2, <1>3, <2>1, StepKeeps
<1>5. CASE ~Finish
  <2>1. /\ next' = wanted /\ before' = RuntimeSnapshot /\ todo' = scopes
        /\ at' \in {"verify", "set"}
        /\ attempted' = attempted /\ sent' = sent /\ failed' = failed
    BY <1>5 DEF BeginApply
  <2>2. /\ wanted \in ControlStates /\ scopes \in Seq(Workers)
        /\ wanted.generation \in {stored.generation, stored.generation + 1}
    BY WantedFacts
  <2> HIDE DEF wanted, scopes
  <2>3. stored \in ControlStates /\ stored.generation \in Nat
    BY DEF ConfigInv, TypeOK, ControlStates
  <2>4. failed' \in BOOLEAN
    BY <2>1, TransactionFacts, Zenon
  <2>5. Numbers'
    BY <1>1, <1>2, <2>1, <2>2, <2>3, SnapshotFacts
       DEF WorkersOK, WorkerOK, Numbers, AtMostOneAhead
  <2>6. Working'
    BY <1>1, <2>1 DEF Working
  <2>7. worker' \in [Workers -> WorkerStates]
        /\ \A w \in Workers : \A p, q \in worker'[w].pending : p = q
    BY <1>2 DEF WorkersOK, WorkerOK
  <2>8. before' \in [Workers -> Snapshots]
    BY <2>1, SnapshotFacts
  <2>9. TypeOK'
    BY <1>1, <1>3, <2>1, <2>2, <2>3, <2>4, <2>7, <2>8, TransactionFacts
       DEF Flags, TypeOK, Idle, Positions
  <2> QED
    BY <2>5, <2>6, <2>9 DEF ConfigInv
<1> QED
  BY <1>4, <1>5

\* The commit: the workers count on from the generation that is stored.
LEMMA SaveKeeps ==
  ASSUME ConfigInv, Save
  PROVE  ConfigInv'
<1>1. /\ stored' = next /\ published' = next /\ worker' = worker /\ Finish
      /\ next.generation >= stored.generation
  BY TransactionFacts DEF Save
<1>2. next \in ControlStates /\ next.generation \in Nat /\ stored.generation \in Nat
  BY TransactionFacts DEF ConfigInv, TypeOK, ControlStates
<1>3. Flags
  BY FlagsStay DEF Save
<1>4. /\ at' = "idle" /\ before' = NoSnapshot /\ next' = InitialState
      /\ todo' = <<>> /\ attempted' = <<>> /\ sent' = {}
  BY <1>1 DEF Finish
<1>5. failed' \in BOOLEAN /\ ~failed'
  BY <1>1, Zenon DEF Finish
<1>6. <<>> \in Seq(Workers)
  OBVIOUS
<1>7. \A w \in Workers :
        /\ worker[w].generation \in Nat
        /\ worker[w].generation <= next.generation + 1
        /\ \A p \in worker[w].pending : p.generation <= next.generation + 1
  BY <1>1, <1>2, WorkerFacts DEF WorkerOK, WorkerStates, PendingPolicies
<1>8. Numbers'
  BY <1>1, <1>2, <1>4, <1>7, SnapshotFacts DEF Numbers, AtMostOneAhead
<1>9. Working'
  BY <1>4 DEF Working
<1>10. worker \in [Workers -> WorkerStates]
       /\ \A w \in Workers : \A p, q \in worker[w].pending : p = q
  BY WorkerFacts DEF WorkerOK
<1>11. TypeOK'
  BY <1>1, <1>2, <1>3, <1>4, <1>5, <1>6, <1>10, SnapshotFacts DEF Flags, TypeOK, Idle, Positions
<1> QED
  BY <1>8, <1>9, <1>11 DEF ConfigInv

\* A manual change is durable before its worker hears of it.
LEMMA SetStateKeeps ==
  ASSUME ConfigInv, NEW w \in Workers, NEW state \in States, SetState(w, state)
  PROVE  ConfigInv'
<1>1. /\ stored' = [stored EXCEPT !.state[w] = state] /\ published' = stored'
      /\ at = "idle" /\ at' = "manual" /\ todo' = <<w>> /\ worker' = worker
      /\ before' = before /\ next' = next /\ attempted' = attempted /\ sent' = sent
      /\ failed' = failed
  BY DEF SetState, Idle
<1>2. Flags
  BY FlagsStay DEF SetState
<1>3. stored \in ControlStates
  BY DEF ConfigInv, TypeOK
<1>4. stored' \in ControlStates /\ stored'.generation = stored.generation
  BY <1>1, <1>3 DEF ControlStates
<1>5. <<w>> \in Seq(Workers) /\ <<w>> # <<>>
  OBVIOUS
<1>6. failed' \in BOOLEAN
  BY <1>1, TransactionFacts, Zenon
<1>7. Numbers'
  BY <1>1, <1>4 DEF ConfigInv, Numbers, AtMostOneAhead
<1>8. Working'
  BY <1>1, <1>5 DEF Working
<1>9. worker \in [Workers -> WorkerStates]
      /\ \A v \in Workers : \A p, q \in worker[v].pending : p = q
  BY WorkerFacts DEF WorkerOK
<1>10. TypeOK'
  BY <1>1, <1>2, <1>4, <1>5, <1>6, <1>9, TransactionFacts DEF Flags, TypeOK, Idle, Positions
<1> QED
  BY <1>7, <1>8, <1>10 DEF ConfigInv

\* A worker that takes its stored state.
LEMMA StateEdit ==
  ASSUME ConfigInv, todo # <<>>,
         worker' \in {worker, [worker EXCEPT ![Head(todo)].state = stored.state[Head(todo)]]}
  PROVE  WorkersOK
<1> DEFINE w == Head(todo)
           e == [worker[w] EXCEPT !.state = stored.state[w]]
<1>1. w \in Workers
  BY TransactionFacts, TodoFacts
<1> HIDE DEF w
<1>2. stored.state[w] \in States
  BY <1>1 DEF ConfigInv, TypeOK, ControlStates
<1>3. worker[w] \in WorkerStates /\ WorkerOK(worker[w])
  BY <1>1, WorkerFacts
<1>4. WorkerOK(e)
  BY <1>2, <1>3 DEF WorkerOK, WorkerStates
<1>5. CASE worker' = worker
  BY <1>5, WorkersStay
<1>6. CASE worker' = [worker EXCEPT ![w].state = stored.state[w]]
  <2>1. worker' = [worker EXCEPT ![w] = e]
    BY <1>1, <1>6, WorkerFacts
  <2> QED
    BY <1>1, <1>4, <2>1, WorkerEdit
<1> QED
  BY <1>5, <1>6 DEF w

\* The step that sends a manual change.
LEMMA SendStateKeeps ==
  ASSUME ConfigInv, SendState
  PROVE  ConfigInv'
<1>1. at = "manual" /\ todo # <<>>
  BY DEF SendState, ConfigInv, Working
<1>2. WorkersOK
  BY <1>1, StateEdit DEF SendState
<1>3. TransactionOK
  BY FinishStep DEF SendState
<1>4. Flags
  BY FlagsStay DEF SendState
<1> QED
  BY <1>2, <1>3, <1>4, StepKeeps DEF SendState

\* The reconciliation reads the first worker.
LEMMA ReconcileOnceKeeps ==
  ASSUME ConfigInv, ReconcileOnce
  PROVE  ConfigInv'
<1>1. /\ stored' = stored /\ published' = stored /\ before' = StatusOf("mining")
      /\ at' = "reconcile" /\ todo' = <<"mining", "spam">> /\ worker' = worker
      /\ next' = next /\ attempted' = attempted /\ sent' = sent /\ failed' = failed
  BY DEF ReconcileOnce
<1>2. failed' \in BOOLEAN
  BY <1>1, TransactionFacts, Zenon
<1>3. <<"mining", "spam">> \in Seq(Workers)
  OBVIOUS
<1>4. /\ before' \in [Workers -> Snapshots]
      /\ \A w \in Workers : before'[w].generation <= stored.generation + 1
  BY <1>1, SnapshotFacts
<1>5. TransactionOK
  BY <1>1, <1>2, <1>3, <1>4, TransactionFacts DEF TransactionOK, Positions
<1>6. WorkersOK
  BY <1>1, WorkersStay
<1>7. Flags
  BY FlagsStay DEF ReconcileOnce
<1> QED
  BY <1>1, <1>5, <1>6, <1>7, StepKeeps

\* The policy of a worker matches: its state is next.
LEMMA PolicyMatchesKeeps ==
  ASSUME ConfigInv, NEW w \in Workers, PolicyMatches(w)
  PROVE  ConfigInv'
<1>1. /\ stored' = stored /\ published' = published /\ worker' = worker
      /\ at' = "state" /\ todo # <<>> /\ todo' = todo /\ before' = before
      /\ next' = next /\ attempted' = attempted /\ sent' = sent /\ failed' = failed
  BY DEF PolicyMatches, Calls
<1>2. failed' \in BOOLEAN
  BY <1>1, TransactionFacts, Zenon
<1>3. TransactionOK
  BY <1>1, <1>2, TransactionFacts DEF TransactionOK, Positions
<1>4. WorkersOK
  BY <1>1, WorkersStay
<1>5. Flags
  BY FlagsStay DEF PolicyMatches
<1> QED
  BY <1>1, <1>3, <1>4, <1>5, StepKeeps

\* The state of a worker is brought in line, or the call fails.
LEMMA ReconcileStateKeeps ==
  ASSUME ConfigInv, ReconcileState \/ ReconcileStateFails
  PROVE  ConfigInv'
<1>1. /\ at = "state" /\ NextWorker
      /\ UNCHANGED <<stored, published, job, rolled_back, steady>>
      /\ worker' \in {worker, [worker EXCEPT ![Head(todo)].state = stored.state[Head(todo)]]}
  BY DEF ReconcileState, ReconcileStateFails
<1>2. todo # <<>>
  BY <1>1 DEF ConfigInv, Working
<1>3. WorkersOK
  BY <1>1, <1>2, StateEdit
<1>4. TransactionOK
  BY <1>1, <1>2, NextWorkerStep
<1>5. Flags
  BY <1>1, FlagsStay
<1> QED
  BY <1>1, <1>3, <1>4, <1>5, StepKeeps

\* An apply that fails its verification or its save starts its rollback; one
\* that passes goes on to the save.
LEMMA VerifyKeeps ==
  ASSUME ConfigInv, VerifyRuntime \/ VerifyFails \/ SaveFails
  PROVE  ConfigInv'
<1>1. UNCHANGED <<stored, published, worker, job, rolled_back, steady>> /\ attempted' = attempted
  BY DEF VerifyRuntime, VerifyFails, SaveFails
<1>2. WorkersOK
  BY <1>1, WorkersStay
<1>3. Flags
  BY <1>1, FlagsStay
<1>4. CASE VerifyRuntime
  <2>1. /\ at = "verify" /\ at' = "save" /\ before' = before /\ next' = next /\ todo' = todo
        /\ sent' = sent /\ failed' = failed
    BY <1>4 DEF VerifyRuntime
  <2>2. failed' \in BOOLEAN
    BY <2>1, TransactionFacts, Zenon
  <2>3. TransactionOK
    BY <1>1, <2>1, <2>2, TransactionFacts DEF TransactionOK, Positions
  <2> QED
    BY <1>1, <1>2, <1>3, <2>3, StepKeeps
<1>5. CASE VerifyFails \/ SaveFails
  <2>1. at \in {"verify", "save"} /\ StartRollback(attempted)
    BY <1>5 DEF VerifyFails, SaveFails
  <2>2. TransactionOK
    BY <1>1, <2>1, TransactionFacts, RollbackStep
  <2> QED
    BY <1>1, <1>2, <1>3, <2>2, StepKeeps
<1> QED
  BY <1>4, <1>5

\* The steps that end a mutation without touching the durable state.
LEMMA EndKeeps ==
  ASSUME ConfigInv, VerifyRollback \/ ControlPlaneRestart
  PROVE  ConfigInv'
<1>1. /\ stored' = stored /\ published' \in {published, stored} /\ worker' = worker
      /\ job' = job /\ steady' = steady /\ Finish
  BY DEF VerifyRollback, ControlPlaneRestart
<1>2. rolled_back' \in BOOLEAN
  BY Zenon DEF VerifyRollback, ControlPlaneRestart
<1>3. Flags
  BY <1>1, <1>2, Zenon DEF ConfigInv, TypeOK, Flags
<1>4. TransactionOK
  BY <1>1, FinishStep
<1>5. WorkersOK
  BY <1>1, WorkersStay
<1> QED
  BY <1>1, <1>3, <1>4, <1>5, StepKeeps

\* A safe point, or an engine that rejects what is pending.
LEMMA PendingKeeps ==
  ASSUME ConfigInv, NEW w \in Workers,
         ApplyPendingPolicy(w) \/ (w = "spam" /\ RejectPendingPolicy)
  PROVE  ConfigInv'
<1>1. UNCHANGED <<stored, published, job, transaction, rolled_back, steady>>
  BY DEF ApplyPendingPolicy, RejectPendingPolicy
<1>2. worker[w] \in WorkerStates /\ WorkerOK(worker[w])
  BY WorkerFacts
<1>3. WorkersOK
  <2>1. CASE ApplyPendingPolicy(w)
    <3>1. PICK p \in worker[w].pending :
            worker' = [worker EXCEPT ![w].generation = p.generation, ![w].policy = p.policy,
                                     ![w].pending = {}]
      BY <2>1 DEF ApplyPendingPolicy
    <3> DEFINE e == [worker[w] EXCEPT !.generation = p.generation, !.policy = p.policy,
                                      !.pending = {}]
    <3>2. p \in PendingPolicies /\ p.generation <= stored.generation + 1
      BY <1>2 DEF WorkerOK, WorkerStates
    <3>3. WorkerOK(e)
      BY <1>2, <3>2 DEF WorkerOK, WorkerStates, PendingPolicies
    <3>4. worker' = [worker EXCEPT ![w] = e]
      BY <3>1, WorkerFacts
    <3> QED
      BY <3>3, <3>4, WorkerEdit
  <2>2. CASE w = "spam" /\ RejectPendingPolicy
    <3> DEFINE e == [worker[w] EXCEPT !.pending = {}]
    <3>1. WorkerOK(e)
      BY <1>2 DEF WorkerOK, WorkerStates
    <3>2. worker' = [worker EXCEPT ![w] = e]
      BY <2>2, WorkerFacts DEF RejectPendingPolicy
    <3> QED
      BY <3>1, <3>2, WorkerEdit
  <2> QED
    BY <2>1, <2>2
<1>4. TransactionOK
  BY <1>1, TransactionStays
<1>5. Flags
  BY <1>1, FlagsStay
<1> QED
  BY <1>1, <1>3, <1>4, <1>5, StepKeeps

\* A worker starts again with the environment's policy.
LEMMA WorkerRestartKeeps ==
  ASSUME ConfigInv, NEW w \in Workers, WorkerRestart(w)
  PROVE  ConfigInv'
<1>1. stored.generation \in Nat
  BY SnapshotFacts
<1>2. WorkerOK(BootedWorker)
  BY <1>1, ConstantsAssumption DEF WorkerOK, BootedWorker, WorkerStates, States
<1>3. WorkersOK
  BY <1>2, WorkerEdit DEF WorkerRestart
<1>4. TransactionOK
  BY AnswerStep, TransactionStays DEF WorkerRestart
<1>5. Flags
  BY FlagsStay DEF WorkerRestart
<1> QED
  BY <1>3, <1>4, <1>5, StepKeeps DEF WorkerRestart

\* Jobs and the end of the disturbances touch one flag each.
LEMMA FlagKeeps ==
  ASSUME ConfigInv, JobStarts \/ JobEnds \/ Settle \/ UNCHANGED vars
  PROVE  ConfigInv'
<1>1. UNCHANGED <<stored, published, worker, transaction>>
  BY DEF JobStarts, JobEnds, Settle, vars
<1>2. Flags
  BY Zenon DEF ConfigInv, TypeOK, Flags, JobStarts, JobEnds, Settle, vars
<1>3. TransactionOK
  BY <1>1, TransactionStays
<1>4. WorkersOK
  BY <1>1, WorkersStay
<1> QED
  BY <1>1, <1>2, <1>3, <1>4, StepKeeps

(***************************************************************************)
(* The theorem.                                                            *)
(***************************************************************************)
\* The first start.
LEMMA ConfigInit ==
  ASSUME Init
  PROVE  ConfigInv
<1>1. NoSnapshot \in [Workers -> Snapshots] /\ \A w \in Workers : NoSnapshot[w].generation = 0
  BY ConstantsAssumption DEF NoSnapshot, Snapshots, States
<1>2. InitialState \in ControlStates /\ InitialState.generation = 0
  BY ConstantsAssumption DEF InitialState, ControlStates, States
<1>3. /\ BootedWorker \in WorkerStates /\ BootedWorker.generation = 0
      /\ BootedWorker.pending = {}
  BY ConstantsAssumption DEF BootedWorker, WorkerStates, States
<1>4. worker \in [Workers -> WorkerStates] /\ \A w \in Workers : worker[w] = BootedWorker
  BY <1>3 DEF Init
<1>5. /\ job \in BOOLEAN /\ failed \in BOOLEAN /\ rolled_back \in BOOLEAN /\ steady \in BOOLEAN
      /\ ~failed
  BY Zenon DEF Init
<1>6. <<>> \in Seq(Workers)
  OBVIOUS
<1>7. TypeOK
  BY <1>1, <1>2, <1>3, <1>4, <1>5, <1>6 DEF Init, TypeOK, Idle, Positions
<1>8. Numbers
  BY <1>1, <1>2, <1>3, <1>4 DEF Init, Numbers, AtMostOneAhead
<1>9. Working
  BY DEF Init, Working
<1> QED
  BY <1>7, <1>8, <1>9 DEF ConfigInv

\* Every step keeps the invariant.
LEMMA ConfigNext ==
  ASSUME ConfigInv, [Next]_vars
  PROVE  ConfigInv'
<1>1. ASSUME NEW w \in Workers,
             PolicyInForce(w) \/ PolicyAcked(w) \/ PolicyRefused(w) \/ PolicyFails(w)
      PROVE  ConfigInv'
  BY <1>1, AnswerKeeps DEF PolicyInForce, PolicyAcked, PolicyRefused, PolicyFails
<1>2. CASE Mutation
  BY <1>1, <1>2, SendPolicyKeeps, VerifyKeeps, SaveKeeps, EndKeeps, SendStateKeeps,
     PolicyMatchesKeeps, ReconcileStateKeeps DEF Mutation
<1>3. ASSUME NEW w \in Controlled, NEW state \in States, SetState(w, state)
      PROVE  ConfigInv'
  BY <1>3, ConstantsAssumption, SetStateKeeps
<1>4. CASE Disturbance
  BY <1>1, <1>3, <1>4, BeginApplyKeeps, WorkerRestartKeeps, ReconcileStateKeeps, PendingKeeps,
     FlagKeeps, EndKeeps DEF Disturbance
<1> QED
  BY <1>2, <1>4, ReconcileOnceKeeps, FlagKeeps, PendingKeeps DEF Next

\* The inductive invariant holds throughout.
THEOREM ConfigInvHolds == Spec => []ConfigInv
<1>1. Init => ConfigInv
  BY ConfigInit
<1>2. ConfigInv /\ [Next]_vars => ConfigInv'
  BY ConfigNext
<1> QED
  BY <1>1, <1>2, PTL DEF Spec

\* However many applies fail, are repeated or are cut off: no worker gets more
\* than one generation ahead of the durable state, and no rollback runs
\* against a configuration that has been committed.
THEOREM AppliesStayInStep == Spec => []ConfigInvariant
<1>1. ConfigInv => ConfigInvariant
  BY DEF ConfigInv, Numbers, Working, ConfigInvariant, DesiredStatePreserved
<1> QED
  BY <1>1, ConfigInvHolds, PTL

(***************************************************************************)
(* II.  The network agent.                                                 *)
(***************************************************************************)

(***************************************************************************)
(* The inductive invariants.                                               *)
(***************************************************************************)
Clearing == stage \in {"starting", "healing", "preparing", "undoing", "releasing"}

\* The request that holds the mutex was not acknowledged before, once it is
\* being executed, and is of the kind that is executed.
HolderInv ==
  /\ stage \in {"preparing", "undoing", "releasing"} => \A r \in holder : Fresh(r)
  /\ stage \in {"preparing", "undoing"} => \A r \in holder : r.op = "acquire"
  /\ stage = "releasing" => \A r \in holder : r.op = "release"
  /\ \A r \in holder : r.op = "release" => granted[r.id] = 0

\* The namespace: a clear has removed what it is past, and between operations
\* an agent without an error has exactly its lease's impairment there.
KernelInv ==
  /\ Clearing => kernel \subseteq Range(clearing)
  /\ ~Clearing /\ ~last_error => kernel = {a.impairment : a \in active}
  /\ stage \in {"starting", "preparing", "undoing"} => active = {}

\* A lease that clients count on is the active one, with the time they were
\* told, and nothing is cleared meanwhile.
GrantInv ==
  \A l \in LeaseIds : granted[l] > 0 =>
    /\ ~Clearing
    /\ \E a \in active : a.id = l /\ a.left = granted[l]

\* A guarded request is still in the history, as many places from the end
\* that is forgotten as its client may count on.
HistoryInv ==
  \A i \in RequestIds : guarded[i] > 0 =>
    \E k \in 1 .. Len(request_order) :
      request_order[k] = i /\ guarded[i] <= k + MaxHistory - Len(request_order)

AgentInv == AgentTypeOK /\ HolderInv /\ KernelInv /\ GrantInv /\ HistoryInv

(***************************************************************************)
(* Requests and the history.                                               *)
(***************************************************************************)
\* What a request is made of.
LEMMA AgentRequestFacts ==
  ASSUME NEW r \in Requests
  PROVE  /\ r.rid \in RequestIds /\ r.id \in LeaseIds
         /\ r.op \in {"acquire", "renew", "release"}
         /\ r.op = "acquire" => /\ r.owner \in Owners /\ r.impairment \in Impairments
                                /\ r.ttl \in Nat \ {0}
         /\ r.op = "renew" => r.ttl \in Nat \ {0}
  BY AgentAssumption DEF AcquireRequests, RenewRequests, ReleaseRequests

\* Appending to a sequence.
LEMMA AppendFacts ==
  ASSUME NEW S, NEW s \in Seq(S), NEW e \in S
  PROVE  /\ Append(s, e) \in Seq(S) /\ Len(Append(s, e)) = Len(s) + 1 /\ Len(s) \in Nat
         /\ Append(s, e)[Len(s) + 1] = e
         /\ \A k \in 1 .. Len(s) : Append(s, e)[k] = s[k]
  OBVIOUS

\* Dropping the first element of a sequence.
LEMMA TailFacts ==
  ASSUME NEW S, NEW s \in Seq(S), Len(s) > 0
  PROVE  /\ Tail(s) \in Seq(S) /\ Len(Tail(s)) = Len(s) - 1 /\ Len(s) \in Nat
         /\ \A k \in 1 .. Len(s) - 1 : Tail(s)[k] = s[k + 1]
  OBVIOUS

\* remember appends a new identifier; when the history is full every other
\* one moves up and the first is forgotten.
LEMMA KeptFacts ==
  ASSUME AgentTypeOK, NEW r \in Requests, Fresh(r), Remember(r)
  PROVE  /\ request_order' \in Seq(RequestIds)
         /\ \/ /\ Len(request_order') = Len(request_order) + 1
               /\ Len(request_order) < MaxHistory
               /\ \A k \in 1 .. Len(request_order) : request_order'[k] = request_order[k]
            \/ /\ Len(request_order') = Len(request_order)
               /\ Len(request_order) = MaxHistory
               /\ \A k \in 2 .. Len(request_order) : request_order'[k - 1] = request_order[k]
         /\ Len(request_order') > 0 => request_order'[Len(request_order')] = r.rid
<1> DEFINE order == Append(request_order, r.rid)
<1>1. /\ request_order \in Seq(RequestIds) /\ Len(request_order) <= MaxHistory
      /\ r.rid \in RequestIds /\ MaxHistory \in Nat
  BY AgentRequestFacts, AgentAssumption DEF AgentTypeOK
<1>2. /\ order \in Seq(RequestIds) /\ Len(order) = Len(request_order) + 1
      /\ Len(request_order) \in Nat
      /\ order[Len(request_order) + 1] = r.rid
      /\ \A k \in 1 .. Len(request_order) : order[k] = request_order[k]
  BY <1>1, AppendFacts
<1>3. request_order' = IF Len(order) > MaxHistory THEN Tail(order) ELSE order
  BY DEF Remember
<1> HIDE DEF order
<1>4. CASE Len(order) > MaxHistory
  <2>1. /\ Tail(order) \in Seq(RequestIds) /\ Len(Tail(order)) = Len(order) - 1
        /\ \A k \in 1 .. Len(order) - 1 : Tail(order)[k] = order[k + 1]
    BY <1>2, TailFacts
  <2>2. Len(request_order') = Len(request_order) /\ Len(request_order) = MaxHistory
    BY <1>1, <1>2, <1>3, <1>4, <2>1
  <2>3. ASSUME NEW k \in 2 .. Len(request_order)
        PROVE  request_order'[k - 1] = request_order[k]
    <3>1. k - 1 \in 1 .. Len(order) - 1 /\ k \in 1 .. Len(request_order) /\ (k - 1) + 1 = k
      BY <1>2
    <3>2. Tail(order)[k - 1] = order[(k - 1) + 1]
      BY <2>1, <3>1
    <3> QED
      BY <1>2, <1>3, <1>4, <3>1, <3>2
  <2>4. Len(request_order') > 0 => request_order'[Len(request_order')] = r.rid
    BY <1>2, <1>3, <1>4, <2>1
  <2> QED
    BY <1>3, <1>4, <2>1, <2>2, <2>3, <2>4
<1>5. CASE ~(Len(order) > MaxHistory)
  BY <1>1, <1>2, <1>3, <1>5
<1> QED
  BY <1>4, <1>5

\* The history stays what it is: requests by identifier, in order, without
\* repetition, and no longer than MaxHistory.
LEMMA RememberType ==
  ASSUME AgentTypeOK, NEW r \in Requests, Fresh(r), Remember(r)
  PROVE  /\ request_order' \in Seq(RequestIds)
         /\ DOMAIN requests' = Range(request_order')
         /\ \A i \in DOMAIN requests' : requests'[i] \in Requests
         /\ Len(request_order') <= MaxHistory
         /\ IsInjective(request_order')
<1> DEFINE o == request_order
           n == Len(request_order)
<1>1. /\ o \in Seq(RequestIds) /\ n \in Nat /\ n <= MaxHistory /\ MaxHistory \in Nat
      /\ DOMAIN o = 1 .. n
      /\ \A i \in 1 .. n, j \in 1 .. n : o[i] = o[j] => i = j
      /\ \A k \in 1 .. n : o[k] # r.rid /\ o[k] \in DOMAIN requests
  BY AgentAssumption DEF AgentTypeOK, IsInjective, Fresh, Range
<1>2. /\ o' \in Seq(RequestIds) /\ n' \in Nat /\ DOMAIN o' = 1 .. n'
  BY KeptFacts
<1>k. /\ \/ n' = n + 1 /\ n < MaxHistory /\ \A k \in 1 .. n : o'[k] = o[k]
         \/ n' = n /\ n = MaxHistory /\ \A k \in 2 .. n : o'[k - 1] = o[k]
      /\ n' > 0 => o'[n'] = r.rid
  BY KeptFacts
<1>6. /\ DOMAIN requests' = Range(o')
      /\ \A i \in DOMAIN requests' : requests'[i] = IF i = r.rid THEN r ELSE requests[i]
  BY DEF Remember
<1>r. Range(o') = {o'[k] : k \in 1 .. n'}
  BY <1>2 DEF Range
<1> HIDE DEF o, n
<1>3. n' <= MaxHistory
  BY <1>1, <1>k
<1>4. ASSUME NEW k \in 1 .. n'
      PROVE  \/ k = n' /\ o'[k] = r.rid
             \/ k < n' /\ \E j \in 1 .. n : o'[k] = o[j] /\ j = k + n + 1 - n'
  <2>1. CASE k = n'
    BY <1>2, <1>k, <2>1
  <2>2. CASE k < n' /\ n' = n + 1 /\ \A j \in 1 .. n : o'[j] = o[j]
    BY <1>1, <1>2, <2>2
  <2>3. CASE k < n' /\ n' = n /\ \A j \in 2 .. n : o'[j - 1] = o[j]
    <3>1. k + 1 \in 2 .. n /\ (k + 1) - 1 = k
      BY <1>1, <1>2, <2>3
    <3>2. o'[(k + 1) - 1] = o[k + 1]
      BY <2>3, <3>1
    <3> QED
      BY <1>1, <1>2, <2>3, <3>1, <3>2
  <2> QED
    <3>1. k = n' \/ k < n'
      BY <1>2
    <3> QED
      BY <1>k, <2>1, <2>2, <2>3, <3>1, Zenon
<1>5. ASSUME NEW i \in 1 .. n', NEW j \in 1 .. n', o'[i] = o'[j]
      PROVE  i = j
  <2>1. CASE i = n' /\ j = n'
    BY <2>1
  <2>2. CASE i < n' /\ j < n'
    <3>1. PICK a \in 1 .. n : o'[i] = o[a] /\ a = i + n + 1 - n'
      BY <1>2, <1>4, <2>2
    <3>2. PICK b \in 1 .. n : o'[j] = o[b] /\ b = j + n + 1 - n'
      BY <1>2, <1>4, <2>2
    <3>3. a = b
      BY <1>1, <1>5, <3>1, <3>2
    <3> QED
      BY <1>1, <1>2, <3>1, <3>2, <3>3
  <2>3. CASE i = n' /\ j < n'
    <3>1. PICK b \in 1 .. n : o'[j] = o[b]
      BY <1>2, <1>4, <2>3
    <3>2. o'[i] = r.rid
      BY <1>2, <1>k, <2>3
    <3> QED
      BY <1>1, <1>5, <3>1, <3>2
  <2>4. CASE i < n' /\ j = n'
    <3>1. PICK b \in 1 .. n : o'[i] = o[b]
      BY <1>2, <1>4, <2>4
    <3>2. o'[j] = r.rid
      BY <1>2, <1>k, <2>4
    <3> QED
      BY <1>1, <1>5, <3>1, <3>2
  <2> QED
    BY <1>2, <2>1, <2>2, <2>3, <2>4
<1>7. \A i \in Range(o') : i = r.rid \/ i \in DOMAIN requests
  <2>1. ASSUME NEW k \in 1 .. n'
        PROVE  o'[k] = r.rid \/ o'[k] \in DOMAIN requests
    BY <1>1, <1>4
  <2> QED
    BY <1>r, <2>1
<1>8. \A i \in DOMAIN requests' : requests'[i] \in Requests
  BY <1>6, <1>7 DEF AgentTypeOK
<1> QED
  BY <1>2, <1>3, <1>5, <1>6, <1>8 DEF IsInjective, o, n

\* Only an acknowledgement of a new request and a restart move the history.
LEMMA HistoryMoves ==
  ASSUME HolderInv, [AgentNext]_agentVars
  PROVE  \/ UNCHANGED <<request_order, requests, guarded>>
         \/ \E r \in Requests : Fresh(r) /\ Remember(r) /\ Guard(r)
         \/ AgentRestart
<1> USE DEF history, operation, clientVars
<1>1. ASSUME NEW r \in Requests, Acquired(r) \/ Released(r)
      PROVE  Fresh(r) /\ Remember(r) /\ Guard(r)
  BY <1>1 DEF Acquired, Released, HolderInv
<1>2. ASSUME NEW r \in Requests, AcquireAgain(r) \/ Renew(r) \/ ReleaseNothing(r)
      PROVE  Fresh(r) /\ Remember(r) /\ Guard(r)
  BY <1>2 DEF AcquireAgain, Renew, ReleaseNothing
<1>3. ASSUME NEW r \in Requests,
             \/ Receive(r) \/ Replay(r) \/ AcquireRefused(r) \/ Apply(r) \/ ApplyFails(r)
             \/ RenewRefused(r) \/ ReleaseRefused(r) \/ Release(r)
      PROVE  UNCHANGED <<request_order, requests, guarded>>
  BY <1>3
  DEF Receive, Replay, AcquireRefused, Apply, ApplyFails, RenewRefused, ReleaseRefused, Release
<1>4. CASE \/ Started \/ RunClearCommand \/ ExpireIfNeeded \/ Healed \/ HealFails
           \/ ApplyGivenUp \/ UndoFails \/ ReleaseFails \/ Tick \/ ControlPlaneStops
           \/ UNCHANGED agentVars
  BY <1>4
  DEF Started, RunClearCommand, ExpireIfNeeded, Healed, HealFails, ApplyGivenUp, UndoFails,
      ReleaseFails, Tick, ControlPlaneStops, agentVars
<1> QED
  BY <1>1, <1>2, <1>3, <1>4 DEF AgentNext, Agent

\* A request that clients count on stays in the history.
LEMMA HistoryStep == AgentTypeOK /\ HolderInv /\ HistoryInv /\ [AgentNext]_agentVars => HistoryInv'
<1> SUFFICES ASSUME AgentTypeOK, HolderInv, HistoryInv, [AgentNext]_agentVars
             PROVE  HistoryInv'
  OBVIOUS
<1>1. CASE UNCHANGED <<request_order, requests, guarded>>
  BY <1>1 DEF HistoryInv
<1>2. ASSUME NEW r \in Requests, Fresh(r), Remember(r), Guard(r)
      PROVE  HistoryInv'
  <2> DEFINE o == request_order
             n == Len(request_order)
  <2>1. /\ n \in Nat /\ n' \in Nat /\ MaxHistory \in Nat /\ guarded \in [RequestIds -> 0 .. MaxHistory]
        /\ r.rid \in RequestIds
    BY <1>2, KeptFacts, AgentRequestFacts, AgentAssumption DEF AgentTypeOK
  <2>2. /\ \/ n' = n + 1 /\ n < MaxHistory /\ \A k \in 1 .. n : o'[k] = o[k]
           \/ n' = n /\ n = MaxHistory /\ \A k \in 2 .. n : o'[k - 1] = o[k]
        /\ n' > 0 => o'[n'] = r.rid
    BY <1>2, KeptFacts
  <2>3. \A i \in RequestIds : guarded[i] > 0 =>
          \E k \in 1 .. n : o[k] = i /\ guarded[i] <= k + MaxHistory - n
    BY DEF HistoryInv
  <2>4. guarded' = [i \in RequestIds |-> IF i = r.rid THEN MaxHistory ELSE Less(guarded[i])]
    BY <1>2 DEF Guard
  <2> SUFFICES ASSUME NEW i \in RequestIds, guarded'[i] > 0
               PROVE  \E k \in 1 .. n' : o'[k] = i /\ guarded'[i] <= k + MaxHistory - n'
    BY DEF HistoryInv
  <2> HIDE DEF o, n
  <2>5. CASE i = r.rid
    <3>1. n' \in 1 .. n' /\ o'[n'] = i /\ guarded'[i] <= n' + MaxHistory - n'
      BY <2>1, <2>2, <2>4, <2>5
    <3> QED
      BY <3>1
  <2>6. CASE i # r.rid
    <3>1. guarded[i] \in Nat /\ guarded[i] > 1 /\ guarded'[i] = guarded[i] - 1
      BY <2>1, <2>4, <2>6 DEF Less
    <3>2. PICK k \in 1 .. n : o[k] = i /\ guarded[i] <= k + MaxHistory - n
      BY <2>3, <3>1
    <3>3. CASE n' = n + 1 /\ \A j \in 1 .. n : o'[j] = o[j]
      <4>1. k \in 1 .. n' /\ o'[k] = i /\ guarded'[i] <= k + MaxHistory - n'
        BY <2>1, <3>1, <3>2, <3>3
      <4> QED
        BY <4>1
    <3>4. CASE n' = n /\ n = MaxHistory /\ \A j \in 2 .. n : o'[j - 1] = o[j]
      <4>1. k \in 2 .. n
        BY <2>1, <3>1, <3>2, <3>4
      <4>2. k - 1 \in 1 .. n' /\ o'[k - 1] = i /\ guarded'[i] <= (k - 1) + MaxHistory - n'
        BY <2>1, <3>1, <3>2, <3>4, <4>1
      <4> QED
        BY <4>2
    <3> QED
      BY <2>2, <3>3, <3>4
  <2> QED
    BY <2>5, <2>6
<1>3. CASE AgentRestart
  BY <1>3 DEF AgentRestart, HistoryInv
<1> QED
  BY <1>1, <1>2, <1>3, HistoryMoves

(***************************************************************************)
(* Type correctness.                                                       *)
(***************************************************************************)
\* The initial state has its types.
LEMMA TypeInit == AgentInit => AgentTypeOK
<1> SUFFICES ASSUME AgentInit PROVE AgentTypeOK
  OBVIOUS
<1>1. last_error \in BOOLEAN /\ up \in BOOLEAN /\ control_up \in BOOLEAN
  BY Zenon DEF AgentInit
<1>2. /\ request_order \in Seq(RequestIds) /\ Len(request_order) <= MaxHistory
      /\ IsInjective(request_order) /\ DOMAIN requests = Range(request_order)
      /\ DOMAIN requests = {}
  BY AgentAssumption DEF AgentInit, IsInjective, Range
<1>3. guarded \in [RequestIds -> 0 .. MaxHistory]
  BY AgentAssumption DEF AgentInit
<1> QED
  BY <1>1, <1>2, <1>3 DEF AgentInit, AgentTypeOK, AgentPositions

\* Every step keeps the types.
LEMMA TypeStep == AgentTypeOK /\ HolderInv /\ [AgentNext]_agentVars => AgentTypeOK'
<1> SUFFICES ASSUME AgentTypeOK, HolderInv, [AgentNext]_agentVars
             PROVE  AgentTypeOK'
  OBVIOUS
<1> USE AgentAssumption DEF history, operation, clientVars, AgentPositions
<1>h. /\ request_order' \in Seq(RequestIds)
      /\ DOMAIN requests' = Range(request_order')
      /\ \A i \in DOMAIN requests' : requests'[i] \in Requests
      /\ Len(request_order') <= MaxHistory
      /\ IsInjective(request_order')
      /\ guarded' \in [RequestIds -> 0 .. MaxHistory]
  <2>1. CASE UNCHANGED <<request_order, requests, guarded>>
    BY <2>1 DEF AgentTypeOK, IsInjective, Range
  <2>2. ASSUME NEW r \in Requests, Fresh(r), Remember(r), Guard(r)
        PROVE  /\ request_order' \in Seq(RequestIds)
               /\ DOMAIN requests' = Range(request_order')
               /\ \A i \in DOMAIN requests' : requests'[i] \in Requests
               /\ Len(request_order') <= MaxHistory
               /\ IsInjective(request_order')
               /\ guarded' \in [RequestIds -> 0 .. MaxHistory]
    <3>1. guarded' \in [RequestIds -> 0 .. MaxHistory]
      BY <2>2 DEF Guard, Less, AgentTypeOK
    <3> QED
      BY <2>2, <3>1, RememberType
  <2>3. CASE AgentRestart
    BY <2>3 DEF AgentRestart, IsInjective, Range
  <2> QED
    BY <2>1, <2>2, <2>3, HistoryMoves
<1>c. Tail(ClearCommands) = <<"netem">> /\ Tail(Tail(ClearCommands)) = <<>> /\ ClearCommands # <<>>
  BY DEF ClearCommands
<1>1. /\ last_error' \in BOOLEAN /\ up' \in BOOLEAN /\ control_up' \in BOOLEAN
  BY Zenon
  DEF AgentTypeOK, agentVars, AgentNext, Agent, Receive, Started, RunClearCommand, ExpireIfNeeded,
      Healed, HealFails, ApplyGivenUp, UndoFails, ReleaseFails, Replay, AcquireAgain,
      AcquireRefused, Apply, Acquired, ApplyFails, Renew, RenewRefused, ReleaseNothing,
      ReleaseRefused, Release, Released, Tick, AgentRestart, ControlPlaneStops
<1>d. Done => /\ holder' \subseteq Requests /\ \A r, s \in holder' : r = s
              /\ stage' \in AgentPositions
              /\ clearing' \in {ClearCommands, Tail(ClearCommands), <<>>}
              /\ clearing' # <<>> => stage' \notin {"idle", "deciding"}
  BY DEF Done
<1>2. ASSUME NEW r \in Requests, Receive(r)
      PROVE  AgentTypeOK'
  <2>1. granted' \in [LeaseIds -> Nat]
    BY <1>2, AgentRequestFacts DEF Receive, AgentTypeOK
  <2> QED
    BY <1>2, <1>h, <1>1, <2>1 DEF Receive, AgentTypeOK
<1>3. CASE Started \/ ApplyGivenUp \/ UndoFails \/ ReleaseFails
  BY <1>3, <1>h, <1>1, <1>d DEF Started, ApplyGivenUp, UndoFails, ReleaseFails, AgentTypeOK
<1>4. CASE RunClearCommand
  <2>1. clearing' \in {ClearCommands, Tail(ClearCommands), <<>>} /\ kernel' \subseteq Impairments
    BY <1>4, <1>c DEF RunClearCommand, AgentTypeOK
  <2>2. clearing # <<>>
    BY <1>4 DEF RunClearCommand
  <2> QED
    BY <1>4, <1>h, <1>1, <2>1, <2>2 DEF RunClearCommand, AgentTypeOK
<1>5. CASE ExpireIfNeeded \/ Healed \/ HealFails
  BY <1>5, <1>h, <1>1 DEF ExpireIfNeeded, Healed, HealFails, AgentTypeOK
<1>6. ASSUME NEW r \in Requests, Replay(r) \/ AcquireRefused(r) \/ RenewRefused(r) \/ ReleaseRefused(r)
      PROVE  AgentTypeOK'
  BY <1>6, <1>h, <1>1, <1>d DEF Replay, AcquireRefused, RenewRefused, ReleaseRefused, AgentTypeOK
<1>7. ASSUME NEW r \in Requests, AcquireAgain(r) \/ ReleaseNothing(r)
      PROVE  AgentTypeOK'
  BY <1>7, <1>h, <1>1, <1>d DEF AcquireAgain, ReleaseNothing, AgentTypeOK
<1>8. ASSUME NEW r \in Requests, Apply(r) \/ Release(r)
      PROVE  AgentTypeOK'
  BY <1>8, <1>h, <1>1 DEF Apply, Release, AgentTypeOK
<1>9. ASSUME NEW r \in Requests, Acquired(r)
      PROVE  AgentTypeOK'
  <2>1. r.op = "acquire"
    BY <1>9 DEF Acquired, HolderInv
  <2>2. /\ r.id \in LeaseIds /\ r.owner \in Owners /\ r.impairment \in Impairments /\ r.ttl \in Nat
    BY <2>1, AgentRequestFacts
  <2>3. [id |-> r.id, owner |-> r.owner, impairment |-> r.impairment, left |-> r.ttl] \in Leases
    BY <2>2 DEF Leases
  <2>4. /\ active' \subseteq Leases /\ \A a, b \in active' : a = b
        /\ kernel' \subseteq Impairments /\ granted' \in [LeaseIds -> Nat]
    BY <1>9, <2>2, <2>3 DEF Acquired, AgentTypeOK
  <2> QED
    BY <1>9, <1>h, <1>1, <1>d, <2>4 DEF Acquired, AgentTypeOK
<1>10. ASSUME NEW r \in Requests, ApplyFails(r)
       PROVE  AgentTypeOK'
  <2>1. r.impairment \in Impairments
    BY <1>10, AgentRequestFacts DEF ApplyFails, HolderInv
  <2> QED
    BY <1>10, <1>h, <1>1, <2>1 DEF ApplyFails, AgentTypeOK
<1>a. ASSUME NEW a \in active, NEW n \in Nat
      PROVE  [a EXCEPT !.left = n] \in Leases
  BY DEF AgentTypeOK, Leases
<1>11. ASSUME NEW r \in Requests, Renew(r)
       PROVE  AgentTypeOK'
  <2>1. r.ttl \in Nat /\ r.id \in LeaseIds
    BY <1>11, AgentRequestFacts DEF Renew, Decides
  <2>2. granted' \in [LeaseIds -> Nat]
    BY <1>11, <2>1 DEF Renew, AgentTypeOK
  <2>3. active' \subseteq Leases /\ \A a, b \in active' : a = b
    BY <1>11, <1>a, <2>1 DEF Renew, AgentTypeOK
  <2> QED
    BY <1>11, <1>h, <1>1, <1>d, <2>2, <2>3 DEF Renew, AgentTypeOK
<1>12. ASSUME NEW r \in Requests, Released(r)
       PROVE  AgentTypeOK'
  BY <1>12, <1>h, <1>1, <1>d DEF Released, AgentTypeOK
<1>13. CASE Tick
  <2>1. \A a \in active : a.left \in Nat /\ Less(a.left) \in Nat
    BY DEF AgentTypeOK, Leases, Less
  <2>2. active' \subseteq Leases /\ \A a, b \in active' : a = b
    BY <1>13, <1>a, <2>1 DEF Tick, AgentTypeOK
  <2>3. granted' \in [LeaseIds -> Nat]
    BY <1>13 DEF Tick, AgentTypeOK, Less
  <2> QED
    BY <1>13, <1>h, <1>1, <2>2, <2>3 DEF Tick, AgentTypeOK
<1>14. CASE AgentRestart
  BY <1>14, <1>h, <1>1 DEF AgentRestart, AgentTypeOK
<1>15. CASE ControlPlaneStops \/ UNCHANGED agentVars
  BY <1>15, <1>h, <1>1 DEF ControlPlaneStops, agentVars, AgentTypeOK
<1> QED
  BY <1>2, <1>3, <1>4, <1>5, <1>6, <1>7, <1>8, <1>9, <1>10, <1>11, <1>12, <1>13, <1>14, <1>15
  DEF AgentNext, Agent

(***************************************************************************)
(* The lease and the namespace.                                            *)
(***************************************************************************)
\* The initial state satisfies the invariants.
LEMMA AgentStarts == AgentInit => AgentInv
<1> SUFFICES ASSUME AgentInit PROVE HolderInv /\ KernelInv /\ GrantInv /\ HistoryInv
  BY TypeInit DEF AgentInv
<1>1. HolderInv /\ GrantInv /\ HistoryInv
  BY DEF AgentInit, HolderInv, GrantInv, HistoryInv
<1>2. Range(clearing) = Impairments
  BY DEF AgentInit, ClearCommands, Range, Impairments
<1>3. KernelInv
  BY <1>2 DEF AgentInit, KernelInv, Clearing
<1> QED
  BY <1>1, <1>3

\* A clear command removes what it stands for.
LEMMA ClearFacts ==
  /\ Range(ClearCommands) = Impairments
  /\ \A c \in {ClearCommands, Tail(ClearCommands)} : Range(c) \ {Head(c)} \subseteq Range(Tail(c))
  /\ Range(<<>>) = {}
<1>1. ClearCommands = <<"partition", "netem">> /\ Tail(ClearCommands) = <<"netem">>
  BY DEF ClearCommands
<1>2. Range(<<"partition", "netem">>) = {"partition", "netem"}
  BY DEF Range
<1>3. Range(<<"netem">>) = {"netem"}
  BY DEF Range
<1>4. Range(<<>>) = {}
  BY DEF Range
<1>5. /\ Head(<<"partition", "netem">>) = "partition" /\ Tail(<<"partition", "netem">>) = <<"netem">>
      /\ Head(<<"netem">>) = "netem" /\ Tail(<<"netem">>) = <<>>
  OBVIOUS
<1> QED
  BY <1>1, <1>2, <1>3, <1>4, <1>5 DEF Impairments

\* Every step keeps the invariants of the lease and the namespace.
LEMMA AgentStep == AgentInv /\ [AgentNext]_agentVars => AgentInv'
<1> SUFFICES ASSUME AgentInv, [AgentNext]_agentVars
             PROVE  HolderInv' /\ KernelInv' /\ GrantInv'
  BY TypeStep, HistoryStep DEF AgentInv
<1> USE DEF history, operation, clientVars
<1>t. /\ AgentTypeOK /\ HolderInv /\ KernelInv /\ GrantInv /\ AgentTypeOK'
      /\ granted \in [LeaseIds -> Nat] /\ kernel \subseteq Impairments
      /\ active \subseteq Leases /\ \A a, b \in active : a = b
      /\ holder \subseteq Requests /\ \A r, s \in holder : r = s
  BY TypeStep DEF AgentInv, AgentTypeOK
<1>a. \A a \in active : /\ a.id \in LeaseIds /\ a.left \in Nat /\ a.impairment \in Impairments
  BY <1>t DEF Leases
\* What heals is not counted on any more, and nothing is while there is no lease.
<1>x. ASSUME Expired \/ active = {}
      PROVE  \A l \in LeaseIds : granted[l] = 0
  BY <1>x, <1>a, <1>t DEF Expired, GrantInv
\* The end of an operation that changed neither lease nor namespace.
<1>q. ASSUME Done, ~Clearing, UNCHANGED <<active, last_error, kernel, granted>>
      PROVE  HolderInv' /\ KernelInv' /\ GrantInv'
  BY <1>q, <1>t DEF Done, HolderInv, KernelInv, GrantInv, Clearing
\* The end of an operation that failed in a clear.
<1>f. ASSUME holder' \in {{}, holder}, stage' \in {"idle", "deciding"}, last_error' = TRUE,
             Clearing, UNCHANGED <<active, granted>>
      PROVE  HolderInv' /\ KernelInv' /\ GrantInv'
  BY <1>f, <1>t DEF HolderInv, KernelInv, GrantInv, Clearing
\* The end of a clear that succeeded, after which there is no lease.
<1>s. ASSUME holder' \in {{}, holder}, stage' \in {"idle", "deciding"}, active' = {}, kernel = {},
             Clearing, UNCHANGED <<kernel, granted>>
      PROVE  HolderInv' /\ KernelInv' /\ GrantInv'
  BY <1>s, <1>t DEF HolderInv, KernelInv, GrantInv, Clearing
<1>e. Clearing /\ clearing = <<>> => kernel = {}
  BY <1>t, ClearFacts DEF KernelInv
\* A clear begins, with nothing counted on.
<1>b. ASSUME clearing' = ClearCommands, Clearing', \A l \in LeaseIds : granted'[l] = 0
      PROVE  GrantInv' /\ (Clearing' => kernel' \subseteq Range(clearing'))
  BY <1>b, <1>t, ClearFacts DEF GrantInv, AgentTypeOK
<1>1. ASSUME NEW r \in Requests, Receive(r)
      PROVE  HolderInv' /\ KernelInv' /\ GrantInv'
  <2>1. /\ \A l \in LeaseIds : granted'[l] \in {0, granted[l]}
        /\ r.op = "release" => granted'[r.id] = 0
        /\ holder' = {r} /\ UNCHANGED <<active, last_error, kernel>> /\ ~Clearing
    BY <1>1, <1>t, AgentRequestFacts DEF Receive, AgentIdle, Clearing
  <2>2. HolderInv'
    BY <1>1, <2>1 DEF Receive, HolderInv
  <2>3. CASE Expired
    <3>1. clearing' = ClearCommands /\ stage' = "healing"
      BY <1>1, <2>3 DEF Receive
    <3>2. \A l \in LeaseIds : granted'[l] = 0
      BY <1>x, <2>1, <2>3
    <3>3. GrantInv' /\ (Clearing' => kernel' \subseteq Range(clearing'))
      BY <1>b, <3>1, <3>2 DEF Clearing
    <3> QED
      BY <2>2, <3>1, <3>3 DEF KernelInv, Clearing
  <2>4. CASE ~Expired
    <3>1. stage' = "deciding"
      BY <1>1, <2>4 DEF Receive
    <3> QED
      BY <1>t, <2>1, <2>2, <3>1 DEF KernelInv, GrantInv, Clearing
  <2> QED
    BY <2>3, <2>4
<1>2. CASE Started
  <2>1. active = {} /\ kernel = {}
    BY <1>2, <1>t, <1>e DEF Started, KernelInv, Clearing
  <2> QED
    BY <1>2, <1>s, <2>1 DEF Started, Done, Clearing
<1>3. CASE RunClearCommand
  <2>1. /\ Clearing /\ Clearing' /\ clearing \in {ClearCommands, Tail(ClearCommands)}
        /\ UNCHANGED <<active, last_error, holder, stage, granted, requests>>
        /\ kernel' = kernel \ {Head(clearing)} /\ clearing' = Tail(clearing)
    BY <1>3, <1>t DEF RunClearCommand, AgentTypeOK, AgentPositions, Clearing
  <2>2. kernel' \subseteq Range(clearing')
    BY <1>t, <2>1, ClearFacts DEF KernelInv
  <2> QED
    BY <1>t, <2>1, <2>2 DEF HolderInv, KernelInv, GrantInv, Fresh
<1>4. CASE ExpireIfNeeded
  <2>1. /\ clearing' = ClearCommands /\ stage' = "healing" /\ Expired
        /\ UNCHANGED <<active, holder, granted>>
    BY <1>4 DEF ExpireIfNeeded
  <2>2. GrantInv' /\ (Clearing' => kernel' \subseteq Range(clearing'))
    BY <1>b, <1>x, <2>1 DEF Clearing
  <2> QED
    BY <1>t, <2>1, <2>2 DEF HolderInv, KernelInv, Clearing
<1>5. CASE Healed
  BY <1>5, <1>e, <1>s DEF Healed, Clearing
<1>6. CASE HealFails
  BY <1>6, <1>f DEF HealFails, Clearing
<1>7. CASE ApplyGivenUp \/ UndoFails \/ ReleaseFails
  BY <1>7, <1>f DEF ApplyGivenUp, UndoFails, ReleaseFails, Done, Clearing
<1>8. ASSUME NEW r \in Requests,
             \/ Replay(r) \/ AcquireAgain(r) \/ AcquireRefused(r) \/ RenewRefused(r)
             \/ ReleaseNothing(r) \/ ReleaseRefused(r)
      PROVE  HolderInv' /\ KernelInv' /\ GrantInv'
  BY <1>8, <1>q
  DEF Replay, AcquireAgain, AcquireRefused, RenewRefused, ReleaseNothing, ReleaseRefused,
      Decides, Clearing
<1>9. ASSUME NEW r \in Requests, Apply(r)
      PROVE  HolderInv' /\ KernelInv' /\ GrantInv'
  <2>1. /\ clearing' = ClearCommands /\ stage' = "preparing" /\ active = {}
        /\ UNCHANGED <<active, last_error, holder, granted, requests>>
        /\ r \in holder /\ Fresh(r) /\ r.op = "acquire"
    BY <1>9 DEF Apply, Decides
  <2>2. GrantInv' /\ (Clearing' => kernel' \subseteq Range(clearing'))
    BY <1>b, <1>x, <2>1 DEF Clearing
  <2>3. HolderInv'
    BY <1>t, <2>1 DEF HolderInv, Fresh
  <2> QED
    BY <2>1, <2>2, <2>3 DEF KernelInv, Clearing
<1>10. ASSUME NEW r \in Requests, Acquired(r)
       PROVE  HolderInv' /\ KernelInv' /\ GrantInv'
  <2> DEFINE a == [id |-> r.id, owner |-> r.owner, impairment |-> r.impairment, left |-> r.ttl]
  <2>1. active = {} /\ kernel = {}
    BY <1>10, <1>e, <1>t DEF Acquired, KernelInv, Clearing
  <2>2. /\ kernel' = {r.impairment} /\ active' = {a} /\ stage' = "idle" /\ holder' = {}
        /\ granted' = [granted EXCEPT ![r.id] = r.ttl]
    BY <1>10, <2>1 DEF Acquired, Done
  <2>3. \A l \in LeaseIds : granted'[l] > 0 => l = r.id /\ granted'[l] = r.ttl
    BY <1>t, <1>x, <2>1, <2>2
  <2>4. a.id = r.id /\ a.left = r.ttl /\ a.impairment = r.impairment
    OBVIOUS
  <2> HIDE DEF a
  <2>5. HolderInv' /\ GrantInv'
    BY <2>2, <2>3, <2>4 DEF HolderInv, GrantInv, Clearing
  <2>6. KernelInv'
    BY <2>2, <2>4 DEF KernelInv, Clearing
  <2> QED
    BY <2>5, <2>6
<1>11. ASSUME NEW r \in Requests, ApplyFails(r)
       PROVE  HolderInv' /\ KernelInv' /\ GrantInv'
  <2>1. /\ clearing' = ClearCommands /\ stage' = "undoing" /\ stage = "preparing"
        /\ UNCHANGED <<active, last_error, holder, granted, requests>>
    BY <1>11 DEF ApplyFails
  <2>2. active = {}
    BY <1>t, <2>1 DEF KernelInv
  <2>3. GrantInv' /\ (Clearing' => kernel' \subseteq Range(clearing'))
    BY <1>b, <1>x, <2>1, <2>2 DEF Clearing
  <2>4. HolderInv'
    BY <1>t, <2>1 DEF HolderInv, Fresh
  <2> QED
    BY <2>1, <2>2, <2>3, <2>4 DEF KernelInv, Clearing
<1>12. ASSUME NEW r \in Requests, Renew(r)
       PROVE  HolderInv' /\ KernelInv' /\ GrantInv'
  <2>1. /\ stage' = "idle" /\ holder' = {} /\ ~Clearing /\ UNCHANGED <<kernel, last_error>>
        /\ active' = {[a EXCEPT !.left = r.ttl] : a \in active}
        /\ granted' = [granted EXCEPT ![r.id] = r.ttl]
    BY <1>12 DEF Renew, Done, Decides, Clearing
  <2>2. PICK a \in active : a.id = r.id
    BY <1>12 DEF Renew
  <2> DEFINE b == [a EXCEPT !.left = r.ttl]
  <2>3. b.id = r.id /\ b.left = r.ttl /\ b.impairment = a.impairment
    BY <1>t, <2>2 DEF Leases
  <2>4. active = {a} /\ active' = {b}
    BY <1>t, <2>1
  <2> HIDE DEF b
  <2>5. \A l \in LeaseIds : granted'[l] > 0 => l = r.id /\ granted'[l] = r.ttl
    BY <1>t, <2>1, <2>2, <2>4 DEF GrantInv
  <2>6. HolderInv' /\ GrantInv'
    BY <2>1, <2>3, <2>4, <2>5 DEF HolderInv, GrantInv, Clearing
  <2>7. KernelInv'
    BY <1>t, <2>1, <2>3, <2>4 DEF KernelInv, Clearing
  <2> QED
    BY <2>6, <2>7
<1>13. ASSUME NEW r \in Requests, Release(r)
       PROVE  HolderInv' /\ KernelInv' /\ GrantInv'
  <2>1. /\ clearing' = ClearCommands /\ stage' = "releasing"
        /\ UNCHANGED <<active, last_error, holder, granted, requests>>
        /\ r \in holder /\ Fresh(r) /\ r.op = "release"
        /\ \E a \in active : a.id = r.id
    BY <1>13 DEF Release, Decides
  <2>2. \A l \in LeaseIds : granted[l] = 0
    BY <1>t, <2>1 DEF HolderInv, GrantInv
  <2>3. GrantInv' /\ (Clearing' => kernel' \subseteq Range(clearing'))
    BY <1>b, <2>1, <2>2 DEF Clearing
  <2>4. HolderInv'
    BY <1>t, <2>1 DEF HolderInv, Fresh
  <2> QED
    BY <2>1, <2>3, <2>4 DEF KernelInv, Clearing
<1>14. ASSUME NEW r \in Requests, Released(r)
       PROVE  HolderInv' /\ KernelInv' /\ GrantInv'
  BY <1>14, <1>e, <1>s DEF Released, Done, Clearing
<1>15. CASE Tick
  <2>1. /\ active' = {[a EXCEPT !.left = Less(@)] : a \in active}
        /\ \A l \in LeaseIds : granted'[l] = Less(granted[l])
        /\ UNCHANGED <<last_error, requests, holder, stage, clearing, kernel>>
        /\ Clearing <=> Clearing'
    BY <1>15 DEF Tick, Clearing
  <2> DEFINE aged(a) == [a EXCEPT !.left = Less(@)]
  <2>2. \A a \in active : /\ aged(a).id = a.id /\ aged(a).left = Less(a.left)
                          /\ aged(a).impairment = a.impairment
    BY <1>t DEF Leases
  <2>8. active' = {aged(a) : a \in active}
    BY <2>1
  <2> HIDE DEF aged
  <2>3. HolderInv'
    BY <1>t, <2>1, AgentRequestFacts DEF HolderInv, Fresh, Less
  <2>4. \A n \in Nat : Less(n) > 0 => n > 0
    BY DEF Less
  <2>5. GrantInv'
    <3> SUFFICES ASSUME NEW l \in LeaseIds, granted'[l] > 0
                 PROVE  ~Clearing' /\ \E b \in active' : b.id = l /\ b.left = granted'[l]
      BY DEF GrantInv
    <3>1. ~Clearing /\ granted'[l] = Less(granted[l]) /\ granted[l] > 0
      BY <1>t, <2>1, <2>4 DEF GrantInv
    <3>2. PICK a \in active : a.id = l /\ a.left = granted[l]
      BY <1>t, <3>1 DEF GrantInv
    <3>3. aged(a) \in active' /\ aged(a).id = l /\ aged(a).left = granted'[l]
      BY <2>2, <2>8, <3>1, <3>2
    <3> QED
      BY <2>1, <3>1, <3>3
  <2>6. {a.impairment : a \in active'} = {a.impairment : a \in active}
    BY <2>2, <2>8
  <2>7. KernelInv'
    BY <1>t, <2>1, <2>6 DEF KernelInv
  <2> QED
    BY <2>3, <2>5, <2>7
<1>16. CASE AgentRestart
  <2>1. HolderInv' /\ GrantInv'
    BY <1>16 DEF AgentRestart, HolderInv, GrantInv
  <2> QED
    BY <1>16, <1>t, <2>1, ClearFacts DEF AgentRestart, KernelInv, Clearing
<1>17. CASE ControlPlaneStops \/ UNCHANGED agentVars
  BY <1>17, <1>t
  DEF ControlPlaneStops, agentVars, HolderInv, KernelInv, GrantInv, Clearing, Fresh
<1> QED
  BY <1>1, <1>2, <1>3, <1>4, <1>5, <1>6, <1>7, <1>8, <1>9, <1>10, <1>11, <1>12, <1>13, <1>14,
     <1>15, <1>16, <1>17 DEF AgentNext, Agent

\* The agent's inductive invariant holds.
THEOREM AgentInvHolds == AgentSpec => []AgentInv
  BY AgentStarts, AgentStep, PTL DEF AgentSpec

\* Types, the bound of the history, and nothing left over in the namespace of
\* an agent at rest that reports no error.
THEOREM AgentInvariantHolds == AgentSpec => []AgentInvariant
<1>1. AgentInv => AgentInvariant
  BY DEF AgentInv, AgentInvariant, NothingLeftOver, KernelInv, AgentIdle, Clearing
<1> QED
  BY <1>1, AgentInvHolds, PTL

\* An acknowledged impairment is in force, alone, until its TTL ends, its job
\* releases it or the agent restarts; the exception is reported.
THEOREM AcknowledgedLeaseInForce == AgentSpec => []LeaseInForce
<1>1. AgentInv => LeaseInForce
  <2> SUFFICES ASSUME AgentInv, NEW l \in LeaseIds, granted[l] > 0
               PROVE  \E a \in active : /\ a.id = l /\ a.left = granted[l]
                                        /\ kernel = {a.impairment} \/ last_error
    BY DEF LeaseInForce
  <2>1. ~Clearing
    BY DEF AgentInv, GrantInv
  <2>2. PICK a \in active : a.id = l /\ a.left = granted[l]
    BY DEF AgentInv, GrantInv
  <2>3. active = {a}
    BY DEF AgentInv, AgentTypeOK
  <2>4. ~last_error => kernel = {a.impairment}
    BY <2>1, <2>3 DEF AgentInv, KernelInv
  <2> QED
    BY <2>2, <2>4
<1> QED
  BY <1>1, AgentInvHolds, PTL

\* A request acknowledged once does not change the lease again before
\* MaxHistory other requests have been acknowledged.
THEOREM RequestsActAtMostOnce == AgentSpec => AtMostOnce
<1>1. AgentInv =>
        [\A r \in Requests : Acquired(r) \/ Renew(r) \/ Released(r) => guarded[r.rid] = 0]_agentVars
  <2> SUFFICES ASSUME AgentInv, NEW r \in Requests, Acquired(r) \/ Renew(r) \/ Released(r)
               PROVE  guarded[r.rid] = 0
    OBVIOUS
  <2>1. Fresh(r)
    BY DEF Acquired, Renew, Released, AgentInv, HolderInv
  <2>2. r.rid \in RequestIds /\ guarded[r.rid] \in Nat
    BY AgentRequestFacts, AgentAssumption DEF AgentInv, AgentTypeOK
  <2>3. \A k \in 1 .. Len(request_order) : request_order[k] # r.rid
    BY <2>1 DEF Fresh, AgentInv, AgentTypeOK, Range
  <2> QED
    BY <2>2, <2>3 DEF AgentInv, HistoryInv
<1> QED
  BY <1>1, AgentInvHolds, PTL DEF AtMostOnce

=============================================================================
