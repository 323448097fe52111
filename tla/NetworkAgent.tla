---------------------------- MODULE NetworkAgent ----------------------------
(***************************************************************************)
(* The network agent of one node (crates/network-agent): a single          *)
(* impairment lease, the nftables and tc state it stands for, the server   *)
(* loop that answers one request at a time and the expiry thread that      *)
(* heals what nobody renews.                                               *)
(*                                                                         *)
(* Both threads hold the control mutex through the commands they run, so   *)
(* one operation at a time is under way; its commands are steps of their   *)
(* own because each may fail and the process may end between two of them.  *)
(***************************************************************************)
EXTENDS Naturals, Sequences, SequencesExt, FiniteSets

CONSTANTS
  LeaseIds,      \* lease identifiers of jobs
  Owners,        \* owner_job_id and purpose of a lease
  Ttls,          \* the ttl_secs of requests, in ticks
  RequestIds,    \* request identifiers of clients
  MaxHistory,    \* MAX_REQUEST_HISTORY
  Requests       \* the requests clients send

Impairments == {"partition", "netem"}

AcquireRequests ==
  [rid : RequestIds, op : {"acquire"}, id : LeaseIds, owner : Owners,
   impairment : Impairments, ttl : Ttls]
RenewRequests == [rid : RequestIds, op : {"renew"}, id : LeaseIds, ttl : Ttls]
ReleaseRequests == [rid : RequestIds, op : {"release"}, id : LeaseIds]

ASSUME AgentAssumption ==
  /\ Ttls \subseteq Nat \ {0}
  /\ MaxHistory \in Nat
  /\ Requests \subseteq AcquireRequests \cup RenewRequests \cup ReleaseRequests

VARIABLES
  \* struct Inner: the lease, whether last_error is set, the acknowledged
  \* requests by identifier and in order
  active, last_error, requests, request_order,
  \* the operation that holds the mutex, where it is, and the rest of the
  \* clear it runs
  holder, stage, clearing,
  \* the process, and the namespace's state, which outlives it
  up, kernel,
  \* what clients were told: remaining time of every acknowledged lease; how
  \* many more requests may be acknowledged before a repetition of one may
  \* act again; whether clients call
  granted, guarded, control_up

history == <<requests, request_order>>
operation == <<holder, stage, clearing>>
clientVars == <<granted, guarded, control_up>>
agentVars == <<active, last_error, history, operation, up, kernel, clientVars>>

Leases == [id : LeaseIds, owner : Owners, impairment : Impairments, left : Nat]
AgentPositions ==
  {"idle", "starting", "healing", "deciding", "preparing", "undoing", "releasing"}

(***************************************************************************)
(* Commands.                                                               *)
(***************************************************************************)
\* clear deletes the nftables table, then the root qdisc.
ClearCommands == <<"partition", "netem">>

\* The commands succeed on state that is already gone.
RunClearCommand ==
  /\ clearing # <<>>
  /\ kernel' = kernel \ {Head(clearing)}
  /\ clearing' = Tail(clearing)
  /\ UNCHANGED <<active, last_error, history, holder, stage, up, clientVars>>

Expired == \E a \in active : a.left = 0

(***************************************************************************)
(* The request history.                                                    *)
(***************************************************************************)
\* Mutant of Remember: the history is one entry short.
RememberOneLess(r) ==
  LET order == Append(request_order, r.rid)
      kept  == IF Len(order) >= MaxHistory THEN Tail(order) ELSE order
  IN /\ request_order' = kept
     /\ requests' = [i \in Range(kept) |-> IF i = r.rid THEN r ELSE requests[i]]

\* remember: the oldest entry gives way.  A request gets here only if its
\* identifier is not in the history.
Remember(r) ==
  LET order == Append(request_order, r.rid)
      kept  == IF Len(order) > MaxHistory THEN Tail(order) ELSE order
  IN /\ request_order' = kept
     /\ requests' = [i \in Range(kept) |-> IF i = r.rid THEN r ELSE requests[i]]

Less(n) == IF n = 0 THEN 0 ELSE n - 1

\* The acknowledgement of r, as its client may count on it: MaxHistory others
\* are acknowledged before r is forgotten.
Guard(r) ==
  guarded' = [i \in RequestIds |-> IF i = r.rid THEN MaxHistory ELSE Less(guarded[i])]

Done == holder' = {} /\ stage' = "idle" /\ clearing' = <<>>

(***************************************************************************)
(* The agent starts with whatever the namespace holds, and serves only     *)
(* after it has cleared it.                                                *)
(***************************************************************************)
AgentInit ==
  /\ active = {}
  /\ last_error = FALSE
  /\ requests = [i \in {} |-> i]
  /\ request_order = <<>>
  /\ holder = {}
  /\ stage = "starting"
  /\ clearing = ClearCommands
  /\ up = FALSE
  /\ kernel \in SUBSET Impairments
  /\ granted = [l \in LeaseIds |-> 0]
  /\ guarded = [i \in RequestIds |-> 0]
  /\ control_up = TRUE

\* Mutant of Started: the agent serves before the namespace is clear.
StartedAtOnce ==
  /\ stage = "starting"
  /\ up' = TRUE
  /\ Done
  /\ UNCHANGED <<active, last_error, history, kernel, clientVars>>

Started ==
  /\ stage = "starting" /\ clearing = <<>>
  /\ up' = TRUE
  /\ Done
  /\ UNCHANGED <<active, last_error, history, kernel, clientVars>>

(***************************************************************************)
(* Taking the mutex.  Every operation heals an expired lease first; a      *)
(* status read and the expiry thread do nothing else.                      *)
(***************************************************************************)
AgentIdle == up /\ stage = "idle"

\* A client that asks for a release no longer counts on the impairment.
Receive(r) ==
  /\ AgentIdle /\ control_up
  /\ holder' = {r}
  /\ stage' = IF Expired THEN "healing" ELSE "deciding"
  /\ clearing' = IF Expired THEN ClearCommands ELSE <<>>
  /\ granted' = IF r.op = "release" THEN [granted EXCEPT ![r.id] = 0] ELSE granted
  /\ UNCHANGED <<active, last_error, history, up, kernel, guarded, control_up>>

\* Mutant of ExpireIfNeeded: the thread looks at live leases only.
ExpireLiveLease ==
  /\ AgentIdle /\ active # {} /\ ~Expired
  /\ stage' = "healing" /\ clearing' = ClearCommands
  /\ UNCHANGED <<active, last_error, history, holder, up, kernel, clientVars>>

ExpireIfNeeded ==
  /\ AgentIdle /\ Expired
  /\ stage' = "healing" /\ clearing' = ClearCommands
  /\ UNCHANGED <<active, last_error, history, holder, up, kernel, clientVars>>

Healed ==
  /\ stage = "healing" /\ clearing = <<>>
  /\ active' = {}
  /\ last_error' = FALSE
  /\ stage' = IF holder = {} THEN "idle" ELSE "deciding"
  /\ UNCHANGED <<history, holder, clearing, up, kernel, clientVars>>

\* The lease stays, to be healed by a later attempt; the request goes on.
HealFails ==
  /\ stage = "healing" /\ clearing # <<>>
  /\ last_error' = TRUE
  /\ stage' = IF holder = {} THEN "idle" ELSE "deciding"
  /\ clearing' = <<>>
  /\ UNCHANGED <<active, history, holder, up, kernel, clientVars>>

(***************************************************************************)
(* Deciding a request r.                                                   *)
(***************************************************************************)
Decides(r, op) == stage = "deciding" /\ r \in holder /\ r.op = op
Fresh(r) == r.rid \notin DOMAIN requests

\* replay: a repeated request gets its old answer, a different one under the
\* same identifier is refused.
Replay(r) ==
  /\ stage = "deciding" /\ r \in holder /\ ~Fresh(r)
  /\ Done
  /\ UNCHANGED <<active, last_error, history, up, kernel, clientVars>>

Matches(a, r) == a.id = r.id /\ a.owner = r.owner /\ a.impairment = r.impairment

\* The lease is already there: acknowledged, its deadline unchanged.
AcquireAgain(r) ==
  /\ Decides(r, "acquire") /\ Fresh(r)
  /\ \E a \in active : Matches(a, r)
  /\ Remember(r)
  /\ Guard(r)
  /\ Done
  /\ UNCHANGED <<active, last_error, up, kernel, granted, control_up>>

AcquireRefused(r) ==
  /\ Decides(r, "acquire") /\ Fresh(r)
  /\ \E a \in active : ~Matches(a, r)
  /\ Done
  /\ UNCHANGED <<active, last_error, history, up, kernel, clientVars>>

\* apply begins with a clear.
Apply(r) ==
  /\ Decides(r, "acquire") /\ Fresh(r)
  /\ active = {}
  /\ stage' = "preparing" /\ clearing' = ClearCommands
  /\ UNCHANGED <<active, last_error, history, holder, up, kernel, clientVars>>

Acquired(r) ==
  /\ stage = "preparing" /\ clearing = <<>> /\ r \in holder
  /\ kernel' = kernel \cup {r.impairment}
  /\ active' = {[id |-> r.id, owner |-> r.owner, impairment |-> r.impairment,
                 left |-> r.ttl]}
  /\ last_error' = FALSE
  /\ Remember(r)
  /\ Done
  /\ granted' = [granted EXCEPT ![r.id] = r.ttl]
  /\ Guard(r)
  /\ UNCHANGED <<up, control_up>>

\* The command failed, having changed the namespace or not: clear again.
ApplyFails(r) ==
  /\ stage = "preparing" /\ clearing = <<>> /\ r \in holder
  /\ kernel' \in {kernel, kernel \cup {r.impairment}}
  /\ stage' = "undoing" /\ clearing' = ClearCommands
  /\ UNCHANGED <<active, last_error, history, holder, up, clientVars>>

\* The clear before the command failed, or the command failed and was undone.
ApplyGivenUp ==
  /\ \/ stage = "preparing" /\ clearing # <<>>
     \/ stage = "undoing" /\ clearing = <<>>
  /\ last_error' = TRUE
  /\ Done
  /\ UNCHANGED <<active, history, up, kernel, clientVars>>

\* The command failed and its undoing failed too.
UndoFails ==
  /\ stage = "undoing" /\ clearing # <<>>
  /\ last_error' = TRUE
  /\ Done
  /\ UNCHANGED <<active, history, up, kernel, clientVars>>

Renew(r) ==
  /\ Decides(r, "renew") /\ Fresh(r)
  /\ \E a \in active : a.id = r.id
  /\ active' = {[a EXCEPT !.left = r.ttl] : a \in active}
  /\ Remember(r)
  /\ Done
  /\ granted' = [granted EXCEPT ![r.id] = r.ttl]
  /\ Guard(r)
  /\ UNCHANGED <<last_error, up, kernel, control_up>>

RenewRefused(r) ==
  /\ Decides(r, "renew") /\ Fresh(r)
  /\ \A a \in active : a.id # r.id
  /\ Done
  /\ UNCHANGED <<active, last_error, history, up, kernel, clientVars>>

\* Nothing to release: acknowledged without a clear.
ReleaseNothing(r) ==
  /\ Decides(r, "release") /\ Fresh(r)
  /\ active = {}
  /\ Remember(r)
  /\ Guard(r)
  /\ Done
  /\ UNCHANGED <<active, last_error, up, kernel, granted, control_up>>

ReleaseRefused(r) ==
  /\ Decides(r, "release") /\ Fresh(r)
  /\ \E a \in active : a.id # r.id
  /\ Done
  /\ UNCHANGED <<active, last_error, history, up, kernel, clientVars>>

\* Mutant of Release: any release clears the lease that is there.
ReleaseWhatever(r) ==
  /\ Decides(r, "release") /\ Fresh(r)
  /\ active # {}
  /\ stage' = "releasing" /\ clearing' = ClearCommands
  /\ UNCHANGED <<active, last_error, history, holder, up, kernel, clientVars>>

Release(r) ==
  /\ Decides(r, "release") /\ Fresh(r)
  /\ \E a \in active : a.id = r.id
  /\ stage' = "releasing" /\ clearing' = ClearCommands
  /\ UNCHANGED <<active, last_error, history, holder, up, kernel, clientVars>>

Released(r) ==
  /\ stage = "releasing" /\ clearing = <<>> /\ r \in holder
  /\ active' = {}
  /\ last_error' = FALSE
  /\ Remember(r)
  /\ Done
  /\ Guard(r)
  /\ UNCHANGED <<up, kernel, granted, control_up>>

\* The lease stays although part of its impairment may be gone.
ReleaseFails ==
  /\ stage = "releasing" /\ clearing # <<>>
  /\ last_error' = TRUE
  /\ Done
  /\ UNCHANGED <<active, history, up, kernel, clientVars>>

(***************************************************************************)
(* Environment.                                                            *)
(***************************************************************************)
Tick ==
  /\ active' = {[a EXCEPT !.left = Less(@)] : a \in active}
  /\ granted' = [l \in LeaseIds |-> Less(granted[l])]
  /\ UNCHANGED <<last_error, history, operation, up, kernel, guarded, control_up>>

\* The process ends anywhere, also in a failed start, and is started again in
\* the same namespace.
AgentRestart ==
  /\ active' = {} /\ last_error' = FALSE
  /\ requests' = [i \in {} |-> i] /\ request_order' = <<>>
  /\ holder' = {} /\ stage' = "starting" /\ clearing' = ClearCommands
  /\ up' = FALSE
  /\ granted' = [l \in LeaseIds |-> 0] /\ guarded' = [i \in RequestIds |-> 0]
  /\ UNCHANGED <<kernel, control_up>>

ControlPlaneStops ==
  /\ control_up
  /\ control_up' = FALSE
  /\ UNCHANGED <<active, last_error, history, operation, up, kernel, granted, guarded>>

Agent ==
  \/ Started \/ RunClearCommand \/ ExpireIfNeeded \/ Healed \/ HealFails
  \/ ApplyGivenUp \/ UndoFails \/ ReleaseFails
  \/ \E r \in Requests :
       \/ Replay(r)
       \/ AcquireAgain(r) \/ AcquireRefused(r) \/ Apply(r) \/ Acquired(r) \/ ApplyFails(r)
       \/ Renew(r) \/ RenewRefused(r)
       \/ ReleaseNothing(r) \/ ReleaseRefused(r) \/ Release(r) \/ Released(r)

AgentNext ==
  \/ \E r \in Requests : Receive(r)
  \/ Agent \/ Tick \/ AgentRestart \/ ControlPlaneStops

AgentSpec == AgentInit /\ [][AgentNext]_agentVars

\* Fairness: the agent's threads run (the expiry thread every 250 ms) and time
\* passes.
FairAgentSpec == AgentSpec /\ WF_agentVars(Agent) /\ WF_agentVars(Tick)

(***************************************************************************)
(* Properties.                                                             *)
(***************************************************************************)
\* Every variable has its type; there is at most one lease, the history has
\* its order, and a clear under way belongs to an operation.
AgentTypeOK ==
  /\ active \subseteq Leases
  /\ \A a, b \in active : a = b
  /\ last_error \in BOOLEAN
  /\ request_order \in Seq(RequestIds)
  /\ DOMAIN requests = Range(request_order)
  /\ \A i \in DOMAIN requests : requests[i] \in Requests
  /\ Len(request_order) <= MaxHistory
  /\ IsInjective(request_order)
  /\ holder \subseteq Requests
  /\ \A r, s \in holder : r = s
  /\ stage \in AgentPositions
  /\ clearing \in {ClearCommands, Tail(ClearCommands), <<>>}
  /\ clearing # <<>> => stage \notin {"idle", "deciding"}
  /\ up \in BOOLEAN
  /\ kernel \subseteq Impairments
  /\ granted \in [LeaseIds -> Nat]
  /\ guarded \in [RequestIds -> 0..MaxHistory]
  /\ control_up \in BOOLEAN

\* An acknowledged impairment is in force, alone, until its TTL ends, its own
\* job asks for its release or the agent restarts: no other job's request,
\* late release or healing touches it.  The exception is reported: a heal that
\* failed half way and a renewal that came just after it (renew does not look
\* at the namespace) leave last_error set.
LeaseInForce ==
  \A l \in LeaseIds : granted[l] > 0 =>
    \E a \in active : /\ a.id = l /\ a.left = granted[l]
                      /\ kernel = {a.impairment} \/ last_error

\* An agent at rest that reports no error has exactly its lease's impairment
\* in the namespace: nothing is left of failed, released, expired or earlier
\* processes' impairments, and nothing is missing of an expired one's.
NothingLeftOver ==
  AgentIdle /\ ~last_error => kernel = {a.impairment : a \in active}

\* The invariant of the agent at rest, with the bound of its history.
AgentInvariant == AgentTypeOK /\ NothingLeftOver

\* A request acknowledged once does not change the lease again, also when its
\* client repeats it after the lease was released or has expired, until
\* MaxHistory other requests have been acknowledged (replay, remember).
AtMostOnce ==
  [][\A r \in Requests : Acquired(r) \/ Renew(r) \/ Released(r) => guarded[r.rid] = 0]_agentVars

\* The commands fail or the process ends.
Trouble == HealFails \/ AgentRestart

\* "If the control plane dies, an agent's TTL worker clears nftables/tc state
\* automatically": also across agent restarts and failed commands, provided
\* commands succeed in the end.  Only an impairment whose command failed and
\* whose undoing failed too has no lease to expire; the agent reports it.
AbandonedImpairmentHeals ==
  (<>[][~Trouble]_agentVars) =>
    (~control_up ~> (kernel = {} \/ (AgentIdle /\ active = {} /\ last_error)))

\* Does not hold (see README, Disagreements).
\* "Every impairment now has an owning job and lease deadline": an agent at
\* rest has no impairment without a lease.
EveryImpairmentLeased == AgentIdle /\ kernel # {} => active # {}

=============================================================================
