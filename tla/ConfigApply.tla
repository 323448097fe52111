---------------------------- MODULE ConfigApply ----------------------------
(***************************************************************************)
(* The control plane's desired state and how it reaches the two workers:   *)
(* the apply transaction (apply.rs), the manual state changes (service.rs) *)
(* and the reconciliation loop (reconcile.rs), which exclude each other by *)
(* apply_lock, over the durable state of control_state.rs.                 *)
(*                                                                         *)
(* A worker is what MiningControl and SpamControl say of their policy: a   *)
(* policy in force, at most one pending, applied at a safe point.  Every   *)
(* request to a worker is a step of its own: it may be refused, fail with  *)
(* or without having had its effect, and either process may end meanwhile. *)
(***************************************************************************)
EXTENDS Naturals, Sequences, SequencesExt

CONSTANTS
  Policies,       \* policies of one worker
  BootPolicy,     \* the policy of the environment
  Configurations, \* the configurations operators apply
  Controlled,     \* the workers operators pause and resume
  MaxGeneration   \* bound on the durable generation

Workers == {"mining", "spam"}
States == {"running", "paused"}

ASSUME ConstantsAssumption ==
  /\ BootPolicy \in Policies
  /\ Configurations \subseteq [Workers -> Policies]
  /\ Controlled \subseteq Workers
  /\ MaxGeneration \in Nat

VARIABLES
  \* state.json and its copy in memory (control_state)
  stored, published,
  \* the workers
  worker,
  \* whether a job is active
  job,
  \* the mutation that holds apply_lock: where it is, the runtime it found,
  \* the state it wants, the workers it still has to call, the workers it has
  \* called, the request it waits for, whether a rollback call failed
  at, before, next, todo, attempted, sent, failed,
  \* whether the last mutation was an apply answered as rolled back
  rolled_back,
  \* whether requests and failures have ceased
  steady

transaction == <<at, before, next, todo, attempted, sent, failed>>
vars == <<stored, published, worker, job, transaction, rolled_back, steady>>

ControlStates == [generation : Nat, desired : [Workers -> Policies], state : [Workers -> States]]
PolicyRequests == [generation : Nat, policy : Policies, rollback : BOOLEAN]
PendingPolicies == [generation : Nat, policy : Policies]
WorkerStates ==
  [generation : Nat, policy : Policies, pending : SUBSET PendingPolicies, state : States]
Snapshots == [generation : Nat, policy : Policies, state : States]
Positions ==
  {"idle", "set", "verify", "save", "restore", "check", "reconcile", "state", "manual"}

BootedWorker ==
  [generation |-> 0, policy |-> BootPolicy, pending |-> {}, state |-> "running"]

\* What a worker's status shows of it.
Status(w) == [generation |-> worker[w].generation, policy |-> worker[w].policy,
              state |-> worker[w].state]
RuntimeSnapshot == [w \in Workers |-> Status(w)]
NoSnapshot ==
  [w \in Workers |-> [generation |-> 0, policy |-> BootPolicy, state |-> "running"]]
\* The reconciliation reads one worker at a time.
StatusOf(w) == [NoSnapshot EXCEPT ![w] = Status(w)]

InitialState ==
  [generation |-> 0, desired |-> [w \in Workers |-> BootPolicy],
   state |-> [w \in Workers |-> "running"]]

\* The first start writes the environment's configuration to state.json.
Init ==
  /\ stored = InitialState
  /\ published = stored
  /\ worker = [w \in Workers |-> BootedWorker]
  /\ job = FALSE
  /\ at = "idle"
  /\ before = NoSnapshot
  /\ next = InitialState
  /\ todo = <<>> /\ attempted = <<>> /\ sent = {} /\ failed = FALSE
  /\ rolled_back = FALSE
  /\ steady = FALSE

Idle == at = "idle"

(***************************************************************************)
(* A policy request to worker w, as its set_policy decides it.             *)
(***************************************************************************)
InForce(w, r) == worker[w].generation = r.generation /\ worker[w].policy = r.policy

SamePolicy(p, r) == p.generation = r.generation /\ p.policy = r.policy

Refuses(w, r) ==
  /\ ~InForce(w, r)
  /\ \/ ~r.rollback /\ r.generation <= worker[w].generation
     \/ \E p \in worker[w].pending : ~SamePolicy(p, r)

\* The mining worker waits for the generation only.
Acknowledges(w, r) ==
  /\ worker[w].generation = r.generation
  /\ w = "spam" => worker[w].policy = r.policy

\* Mutant of PolicyRequest: the reconciliation never asks for a rollback.
PolicyRequestForward(w) ==
  CASE at = "set" ->
         [generation |-> next.generation, policy |-> next.desired[w], rollback |-> FALSE]
    [] at = "restore" ->
         [generation |-> before[w].generation, policy |-> before[w].policy, rollback |-> TRUE]
    [] at = "reconcile" ->
         [generation |-> stored.generation, policy |-> stored.desired[w], rollback |-> FALSE]

\* The request of the current mutation to w.
PolicyRequest(w) ==
  CASE at = "set" ->
         [generation |-> next.generation, policy |-> next.desired[w], rollback |-> FALSE]
    [] at = "restore" ->
         [generation |-> before[w].generation, policy |-> before[w].policy, rollback |-> TRUE]
    [] at = "reconcile" ->
         [generation |-> stored.generation, policy |-> stored.desired[w],
          rollback |-> before[w].generation >= stored.generation]

(***************************************************************************)
(* What an answer means to the mutation.                                   *)
(***************************************************************************)
\* The mutation's locals are gone with it.
Finish ==
  /\ at' = "idle" /\ todo' = <<>> /\ attempted' = <<>> /\ sent' = {}
  /\ before' = NoSnapshot /\ next' = InitialState
  /\ failed' = FALSE

\* The next worker of a reconciliation, whose status is read.
NextWorker ==
  IF Tail(todo) = <<>> THEN Finish
  ELSE /\ at' = "reconcile" /\ todo' = Tail(todo) /\ sent' = {}
       /\ before' = StatusOf(Head(Tail(todo)))
       /\ UNCHANGED <<next, attempted, failed>>

\* Turn to the next worker, or to the step after the last one.
Advance(then) ==
  /\ todo' = Tail(todo)
  /\ at' = IF Tail(todo) = <<>> THEN then ELSE at
  /\ sent' = {}
  /\ UNCHANGED <<before, next>>

\* rollback_runtime calls every worker the apply has attempted.
StartRollback(calls) ==
  /\ at' = IF calls = <<>> THEN "check" ELSE "restore"
  /\ todo' = calls
  /\ sent' = {}
  /\ UNCHANGED <<before, next, failed>>

Accepted(w) ==
  \/ at = "set" /\ attempted' = Append(attempted, w) /\ Advance("verify") /\ UNCHANGED failed
  \/ at = "restore" /\ Advance("check") /\ UNCHANGED <<attempted, failed>>
  \/ /\ at = "reconcile" /\ at' = "state" /\ sent' = {}
     /\ UNCHANGED <<before, next, todo, attempted, failed>>

\* A worker that the reconciliation cannot bring to its policy keeps its
\* state too.
Rejected(w) ==
  \/ at = "set" /\ attempted' = Append(attempted, w) /\ StartRollback(attempted')
  \/ at = "restore" /\ failed' = TRUE /\ Advance("check") /\ UNCHANGED attempted
  \/ at = "reconcile" /\ NextWorker

(***************************************************************************)
(* The calls.                                                              *)
(***************************************************************************)
Calls(w) ==
  /\ at \in {"set", "restore", "reconcile"}
  /\ todo # <<>> /\ w = Head(todo)

\* The reconciliation calls only a worker whose status differed.
Due(w) ==
  at = "reconcile" => \/ before[w].generation # stored.generation
                      \/ before[w].policy # stored.desired[w]

\* The policy is in force already: acknowledged at once, whatever is pending.
PolicyInForce(w) ==
  /\ Calls(w) /\ sent = {} /\ Due(w)
  /\ InForce(w, PolicyRequest(w))
  /\ Accepted(w)
  /\ UNCHANGED <<stored, published, worker, job, rolled_back, steady>>

\* The policy becomes the pending one, or is the pending one already.
SendPolicy(w) ==
  LET r == PolicyRequest(w)
  IN /\ Calls(w) /\ sent = {} /\ Due(w)
     /\ ~InForce(w, r) /\ ~Refuses(w, r)
     /\ sent' = {r}
     /\ worker' = [worker EXCEPT ![w].pending =
                      {[generation |-> r.generation, policy |-> r.policy]}]
     /\ UNCHANGED <<stored, published, job, at, before, next, todo, attempted, failed,
                    rolled_back, steady>>

PolicyAcked(w) ==
  /\ Calls(w) /\ \E r \in sent : Acknowledges(w, r)
  /\ Accepted(w)
  /\ UNCHANGED <<stored, published, worker, job, rolled_back, steady>>

\* The worker refuses the request for what it has in force or pending, or its
\* engine has rejected the policy.
PolicyRefused(w) ==
  /\ Calls(w)
  /\ \/ sent = {} /\ Due(w) /\ Refuses(w, PolicyRequest(w))
     \/ sent # {} /\ worker[w].pending = {} /\ ~\E r \in sent : Acknowledges(w, r)
  /\ Rejected(w)
  /\ UNCHANGED <<stored, published, worker, job, rolled_back, steady>>

\* The worker cannot be reached or holds a lease, or the request it accepted
\* times out or loses its answer.
PolicyFails(w) ==
  /\ ~steady
  /\ Calls(w) /\ (sent = {} => Due(w))
  /\ Rejected(w)
  /\ UNCHANGED <<stored, published, worker, job, rolled_back, steady>>

(***************************************************************************)
(* apply_with_context.                                                     *)
(***************************************************************************)
\* scopes_needing_apply, mining first.
NeedsApply(w, state) ==
  worker[w].policy # state.desired[w] \/ worker[w].generation # state.generation

Scopes(state) ==
  (IF NeedsApply("mining", state) THEN <<"mining">> ELSE <<>>)
    \o (IF NeedsApply("spam", state) THEN <<"spam">> ELSE <<>>)

\* successful_apply: only a changed configuration is a new generation.
SuccessfulApply(desired) ==
  [stored EXCEPT !.desired = desired,
                 !.generation = @ + (IF desired = stored.desired THEN 0 ELSE 1)]

\* The requests the transaction refuses before its first call change nothing.
BeginApply(desired) ==
  LET wanted == SuccessfulApply(desired)
      scopes == Scopes(wanted)
  IN /\ Idle /\ ~steady
     /\ stored.generation < MaxGeneration
     /\ published' = stored
     /\ IF desired = stored.desired /\ scopes = <<>>
        THEN Finish
        ELSE /\ next' = wanted /\ before' = RuntimeSnapshot
             /\ todo' = scopes /\ at' = IF scopes = <<>> THEN "verify" ELSE "set"
             /\ UNCHANGED <<attempted, sent, failed>>
     /\ rolled_back' = FALSE
     /\ UNCHANGED <<stored, worker, job, steady>>

Verified == \A w \in Range(attempted) : InForce(w, [generation |-> next.generation,
                                                  policy |-> next.desired[w]])

\* The last of verify_runtime's polls decides.
VerifyRuntime ==
  /\ at = "verify" /\ Verified
  /\ at' = "save"
  /\ UNCHANGED <<stored, published, worker, job, before, next, todo, attempted, sent, failed,
                 rolled_back, steady>>

\* A worker or node1 failed the verification.
VerifyFails ==
  /\ at = "verify"
  /\ StartRollback(attempted)
  /\ UNCHANGED <<stored, published, worker, job, attempted, rolled_back, steady>>

\* The rename of the new file is the commit point.
Save ==
  /\ at = "save"
  /\ stored' = next /\ published' = next
  /\ Finish
  /\ UNCHANGED <<worker, job, rolled_back, steady>>

\* Mutant of SaveFails: a failure after the commit point is reported as one.
SaveFailsCommitted ==
  /\ at = "save"
  /\ stored' = next
  /\ StartRollback(attempted)
  /\ UNCHANGED <<published, worker, job, attempted, rolled_back, steady>>

SaveFails ==
  /\ at = "save"
  /\ StartRollback(attempted)
  /\ UNCHANGED <<stored, published, worker, job, attempted, rolled_back, steady>>

Restored == \A w \in Range(attempted) : InForce(w, before[w])

\* The last of verify_rollback's polls decides, together with the answers.
VerifyRollback ==
  /\ at = "check"
  /\ rolled_back' \in {FALSE, Restored /\ ~failed}
  /\ Finish
  /\ UNCHANGED <<stored, published, worker, job, steady>>

(***************************************************************************)
(* set_mining_state and set_spam_state: durable first, then the worker.    *)
(***************************************************************************)
SetState(w, state) ==
  /\ ~steady
  /\ Idle /\ ~job
  /\ stored' = [stored EXCEPT !.state[w] = state]
  /\ published' = stored'
  /\ at' = "manual" /\ todo' = <<w>>
  /\ rolled_back' = FALSE
  /\ UNCHANGED <<worker, job, before, next, attempted, sent, failed, steady>>

\* The worker takes the state, or the call fails with or without effect.
SendState ==
  /\ at = "manual"
  /\ worker' \in {worker, [worker EXCEPT ![Head(todo)].state = stored.state[Head(todo)]]}
  /\ Finish
  /\ UNCHANGED <<stored, published, job, rolled_back, steady>>

(***************************************************************************)
(* reconcile_once: each worker's status is read once, then its policy and  *)
(* its state are brought in line.                                          *)
(***************************************************************************)
ReconcileOnce ==
  /\ Idle /\ ~job
  /\ published' = stored
  /\ before' = StatusOf("mining")
  /\ at' = "reconcile" /\ todo' = <<"mining", "spam">>
  /\ rolled_back' = FALSE
  /\ UNCHANGED <<stored, worker, job, next, attempted, sent, failed, steady>>

PolicyMatches(w) ==
  /\ Calls(w) /\ at = "reconcile" /\ sent = {} /\ ~Due(w)
  /\ at' = "state"
  /\ UNCHANGED <<stored, published, worker, job, before, next, todo, attempted, sent, failed,
                 rolled_back, steady>>

ReconcileState ==
  /\ at = "state"
  /\ worker' = IF before[Head(todo)].state = stored.state[Head(todo)] THEN worker
               ELSE [worker EXCEPT ![Head(todo)].state = stored.state[Head(todo)]]
  /\ NextWorker
  /\ UNCHANGED <<stored, published, job, rolled_back, steady>>

ReconcileStateFails ==
  /\ ~steady
  /\ at = "state" /\ before[Head(todo)].state # stored.state[Head(todo)]
  /\ NextWorker
  /\ UNCHANGED <<stored, published, worker, job, rolled_back, steady>>

(***************************************************************************)
(* The workers and the processes.                                          *)
(***************************************************************************)
\* A safe point applies the pending policy.
ApplyPendingPolicy(w) ==
  /\ \E p \in worker[w].pending :
       worker' = [worker EXCEPT ![w].generation = p.generation, ![w].policy = p.policy,
                                ![w].pending = {}]
  /\ UNCHANGED <<stored, published, job, transaction, rolled_back, steady>>

\* The spam worker's engine rejects the pending policy.
RejectPendingPolicy ==
  /\ ~steady
  /\ worker["spam"].pending # {}
  /\ worker' = [worker EXCEPT !["spam"].pending = {}]
  /\ UNCHANGED <<stored, published, job, transaction, rolled_back, steady>>

\* A worker ends and is started again under its boot policy; a call to it in
\* progress fails.
WorkerRestart(w) ==
  /\ ~steady
  /\ worker' = [worker EXCEPT ![w] = BootedWorker]
  /\ IF Calls(w) /\ sent # {} THEN Rejected(w) ELSE UNCHANGED transaction
  /\ UNCHANGED <<stored, published, job, rolled_back, steady>>

\* Starting a job takes apply_lock; a scenario's own applies run inside it.
JobStarts ==
  /\ ~steady
  /\ Idle /\ ~job
  /\ job' = TRUE
  /\ UNCHANGED <<stored, published, worker, transaction, rolled_back, steady>>

JobEnds ==
  /\ job
  /\ job' = FALSE
  /\ UNCHANGED <<stored, published, worker, transaction, rolled_back, steady>>

\* The control plane ends anywhere and reads its state again.
ControlPlaneRestart ==
  /\ ~steady
  /\ published' = stored
  /\ Finish
  /\ rolled_back' = FALSE
  /\ UNCHANGED <<stored, worker, job, steady>>

\* What goes on by itself.
Mutation ==
  \/ \E w \in Workers : PolicyInForce(w) \/ SendPolicy(w) \/ PolicyAcked(w) \/ PolicyRefused(w)
  \/ VerifyRuntime \/ VerifyFails \/ Save \/ SaveFails \/ VerifyRollback
  \/ SendState
  \/ \E w \in Workers : PolicyMatches(w)
  \/ ReconcileState

\* Requests, failures and the ends of processes.
Disturbance ==
  \/ \E desired \in Configurations : BeginApply(desired)
  \/ \E w \in Controlled, state \in States : SetState(w, state)
  \/ \E w \in Workers : PolicyFails(w) \/ WorkerRestart(w)
  \/ ReconcileStateFails \/ RejectPendingPolicy
  \/ JobStarts \/ ControlPlaneRestart

Settle ==
  /\ ~steady
  /\ steady' = TRUE
  /\ UNCHANGED <<stored, published, worker, job, transaction, rolled_back>>

Next ==
  \/ Mutation
  \/ ReconcileOnce
  \/ JobEnds
  \/ \E w \in Workers : ApplyPendingPolicy(w)
  \/ Disturbance
  \/ Settle

Spec == Init /\ [][Next]_vars

\* Fairness: a mutation's calls return, the reconciliation loop comes round
\* every five seconds, jobs end and the workers reach safe points.
FairSpec ==
  /\ Spec
  /\ WF_vars(Mutation)
  /\ WF_vars(ReconcileOnce)
  /\ WF_vars(JobEnds)
  /\ \A w \in Workers : WF_vars(ApplyPendingPolicy(w))

(***************************************************************************)
(* Properties.                                                             *)
(***************************************************************************)
\* Every variable has its type, and nothing of a mutation outlives it.
TypeOK ==
  /\ stored \in ControlStates /\ published \in ControlStates /\ next \in ControlStates
  /\ worker \in [Workers -> WorkerStates] /\ before \in [Workers -> Snapshots]
  /\ \A w \in Workers : \A p, q \in worker[w].pending : p = q
  /\ job \in BOOLEAN
  /\ at \in Positions
  /\ todo \in Seq(Workers) /\ attempted \in Seq(Workers)
  /\ sent \subseteq PolicyRequests
  /\ failed \in BOOLEAN
  /\ Idle => todo = <<>> /\ attempted = <<>> /\ sent = {} /\ ~failed
  /\ rolled_back \in BOOLEAN
  /\ steady \in BOOLEAN

\* A worker is never more than one generation ahead of the durable state,
\* neither in force nor pending: however many applies failed or were cut off,
\* the next one is not refused as stale for a number of its own making.
AtMostOneAhead ==
  \A w \in Workers :
    /\ worker[w].generation <= stored.generation + 1
    /\ \A p \in worker[w].pending : p.generation <= stored.generation + 1

\* A rollback leaves the durable desired state as the apply found it, which
\* is what its report says (desired_state_preserved): no worker is rolled
\* back from a configuration that has been committed.
DesiredStatePreserved == at \in {"restore", "check"} => stored = published

\* What failed, repeated and interrupted applies never do to the durable state
\* and to the numbers the workers count by.
ConfigInvariant == TypeOK /\ AtMostOneAhead /\ DesiredStatePreserved

\* Everything is as the durable state says.
Converged ==
  \A w \in Workers :
    /\ worker[w].generation = stored.generation
    /\ worker[w].policy = stored.desired[w]
    /\ worker[w].state = stored.state[w]

\* "Durable intent is continuously reapplied": when requests and failures
\* cease, both workers reach the durable policy, generation and state and
\* stay there, whatever half-done applies, failed rollbacks, leftover pending
\* policies and crashes came before.
DesiredStateReached == <>steady => <>[]Converged

\* Does not hold (see README, Disagreements).
\* "Mixed mining/spam applies roll back transactionally if a worker cannot
\* accept or verify the new generation": after a rollback was reported
\* complete no worker takes up the generation that was rolled back.
RollbackIsFinal ==
  [][rolled_back =>
       \A w \in Workers : worker'[w].generation <= stored.generation
                          \/ worker'[w].generation = worker[w].generation]_vars

=============================================================================
