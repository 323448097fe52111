----------------------------- MODULE ChainNodes -----------------------------
(***************************************************************************)
(* The three Bitcoin nodes as the chain jobs see them through RPC.  A      *)
(* chain is the sequence of its blocks above the common base; blocks are   *)
(* numbered as they are mined, 1..Depth being the branch a job is about to *)
(* take away, so that block 1 is the one it invalidates.                   *)
(*                                                                         *)
(* Also here: what the two jobs share, namely their place, their two       *)
(* worker leases, their saved recovery context and the abort flag.         *)
(***************************************************************************)
EXTENDS Naturals, Sequences, FiniteSets

CONSTANTS
  Depth,      \* blocks to take away
  MaxForeign, \* bound: blocks mined by the miners while no lease holds them
  MaxFaults   \* bound: calls, answers and saves that fail, and restarts

ASSUME ChainConstants ==
  /\ Depth \in Nat \ {0} /\ MaxForeign \in Nat /\ MaxFaults \in Nat

NodeNames == {"node1", "node2", "node3"}
Miners == {"node2", "node3"}

Original == [i \in 1..Depth |-> i]

VARIABLES
  known,    \* per node, the ends of the branches it has
  active,   \* per node, its active chain
  bad,      \* nodes on which block 1 is marked invalid
  minted,   \* number of the last block mined
  at,       \* what the job does next
  outcome,  \* how the job ended
  context,  \* its recovery context in memory: "none", "prepared", "resolved"
  saved,    \* the same in the job table's file
  leased,   \* the job's leases hold spam and mining
  abort,    \* the abort flag
  foreign,  \* blocks mined while no lease held the miners
  faults    \* failures still to come

nodeVars == <<known, active, bad, minted>>
jobVars == <<at, outcome, context, saved, leased, abort>>
vars == <<nodeVars, jobVars, foreign, faults>>

Fault == faults > 0 /\ faults' = faults - 1
NoFault == UNCHANGED faults

-----------------------------------------------------------------------------
\* A node follows the longest chain it has not been told to reject.

GoesThrough(c, d) == Len(d) <= Len(c) /\ SubSeq(c, 1, Len(d)) = d

Rejected(c) == c # <<>> /\ c[1] = 1

Longest(chains) == {c \in chains : \A d \in chains : Len(d) <= Len(c)}

\* Of equally long chains the node keeps the one it is on.
Best(k, isBad, current) ==
  LET best == Longest({c \in k \cup {<<>>} : ~(isBad /\ Rejected(c))})
  IN IF current \in best THEN {current} ELSE best

SetNode(n, k, isBad, current) ==
  /\ known' = [known EXCEPT ![n] = k]
  /\ bad' = IF isBad THEN bad \cup {n} ELSE bad \ {n}
  /\ \E c \in Best(k, isBad, current) : active' = [active EXCEPT ![n] = c]

\* A branch replaces the shorter ones it contains.
Learn(k, c) == {d \in k : ~GoesThrough(c, d)} \cup {c}

invalidateblock(n) ==
  SetNode(n, known[n], TRUE, active[n]) /\ UNCHANGED minted

\* Which of two equally long branches a node that had rejected one turns to
\* is its own affair.
reconsiderblock(n) ==
  /\ SetNode(n, known[n], FALSE, IF n \in bad THEN <<>> ELSE active[n])
  /\ UNCHANGED minted

generateblock(n) ==
  LET c == Append(active[n], minted + 1)
  IN /\ SetNode(n, Learn(known[n], c), n \in bad, c)
     /\ minted' = minted + 1

\* m does not have n's chain and may take it.
Unheard(n, m) ==
  /\ ~(m \in bad /\ Rejected(active[n]))
  /\ \A c \in known[m] \cup {<<>>} : ~GoesThrough(c, active[n])

Relay(n, m) ==
  /\ Unheard(n, m)
  /\ SetNode(m, Learn(known[m], active[n]), m \in bad, active[m])
  /\ UNCHANGED <<minted, jobVars, foreign, faults>>

\* A miner works while no lease holds it.
MineForeign(m) ==
  /\ ~leased /\ foreign < MaxForeign
  /\ generateblock(m)
  /\ foreign' = foreign + 1
  /\ UNCHANGED <<jobVars, faults>>

-----------------------------------------------------------------------------
\* What a job reads from the nodes.

CommonTip == \A n \in NodeNames : active[n] = active["node1"]

TipsEqual(c) == \A n \in NodeNames : active[n] = c

\* common_chain_contains.
CommonChainContains(c) == CommonTip /\ GoesThrough(active["node1"], c)

-----------------------------------------------------------------------------
\* Steps of the job.  An RPC call that fails may have taken effect.

\* A place is a name and, where the job counts, a number.
Step(p) == <<p, 0>>

Go(a) == at' = a

Call(effect, next, broken) ==
  \/ effect /\ Go(next) /\ NoFault
  \/ effect /\ Go(broken) /\ Fault
  \/ UNCHANGED nodeVars /\ Go(broken) /\ Fault

Persist(c, next, broken) ==
  /\ context' = c
  /\ \/ saved' = c /\ Go(next) /\ NoFault
     \/ UNCHANGED saved /\ Go(broken) /\ Fault

\* The leases end early: a worker restarts, or renewals stay out.
LoseLeases ==
  /\ leased /\ Fault
  /\ leased' = FALSE
  /\ UNCHANGED <<nodeVars, at, outcome, context, saved, abort, foreign>>

RequestAbort ==
  /\ at \notin {Step("idle"), Step("end")} /\ outcome = "none" /\ ~abort
  /\ abort' = TRUE
  /\ UNCHANGED <<nodeVars, at, outcome, context, saved, leased, foreign, faults>>

NodesInit ==
  /\ known = [n \in NodeNames |-> {Original}]
  /\ active = [n \in NodeNames |-> Original]
  /\ bad = {} /\ minted = Depth
  /\ at = Step("idle") /\ outcome = "none"
  /\ context = "none" /\ saved = "none"
  /\ leased = TRUE /\ abort = FALSE
  /\ foreign = 0 /\ faults = MaxFaults
=============================================================================
