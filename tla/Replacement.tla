----------------------------- MODULE Replacement -----------------------------
(***************************************************************************)
(* What a reorg mines in place of the blocks it orphaned (crates/reorg:    *)
(* double_spend.rs, wallet.rs, chain.rs and the mining loop of reorg.rs).  *)
(* The orphaned transactions are back in the node's mempool; some of the   *)
(* wallet's are to be dropped for good by mining a conflicting transaction *)
(* instead, fresh ones may be added, and the rest is spread over depth + 1 *)
(* blocks by weight.  The module Reorg has the phases around this one.     *)
(*                                                                         *)
(* Transactions are numbered parents first.  1 .. Orphaned were in the     *)
(* orphaned blocks, the others up to Originals in the mempool all along,   *)
(* and those above are injected.                                           *)
(***************************************************************************)
EXTENDS OrderedSets, FiniteSetsExt, SequencesExt

CONSTANTS
    Originals, Orphaned,
    Adds,         \* adds_new_txs of the request
    Pcts,         \* double_spend_pct, the values tried
    ReorgDepth,   \* blocks orphaned
    Weights,      \* weights tried; a conflict and an injected one weigh 1
    Budget,       \* BLOCK_WEIGHT_BUDGET
    MaxFailures   \* bound: evictions, failed or unanswered RPCs

ReplacementConstants ==
    /\ {Originals, ReorgDepth, Budget} \subseteq Nat \ {0}
    /\ {Orphaned, Adds, MaxFailures} \subseteq Nat /\ Orphaned <= Originals
    /\ Weights \subseteq 1 .. Budget /\ Pcts \subseteq 0 .. 100

ASSUME ReplacementAssumption == ReplacementConstants

Tx == 1 .. Originals + Adds

VARIABLES
    parents, weight, \* of the transactions
    wallet,          \* the ones of the reorg node's wallet
    pct,             \* of the request
    mempool,         \* of the reorg node
    chain,           \* the replacement blocks, each a sequence of items
    replacements,    \* plan.replacements: the originals, in selection order
    excluded,        \* plan.excluded_mempool_txids
    injected,        \* the fresh transactions
    pending,         \* the conflicts not yet given to a block
    index,           \* replacement blocks mined so far
    items,           \* the items of the block being mined
    seen,            \* the mempool they were chosen from
    pc, failures

blocksVars == <<parents, weight, wallet, pct, mempool, chain, replacements, excluded,
                injected, pending, index, items, seen, pc, failures>>
given == <<parents, weight, wallet, pct>>

---------------------------------------------------------------------------
(* The node. *)

Ancestors ==
    LET above[t \in Tx] == parents[t] \cup UNION {above[p] : p \in parents[t]}
    IN  above
WithDescendants(S) == {t \in Tx : t \in S \/ Ancestors[t] \cap S # {}}

Raw(t) == [raw |-> TRUE, id |-> t]
Mempool(t) == [raw |-> FALSE, id |-> t]
WeightOf(item) == IF item.raw THEN 1 ELSE weight[item.id]
TotalWeight(list) == FoldLeft(LAMBDA sum, item : sum + WeightOf(item), 0, list)
OnChain == UNION {Range(chain[i]) : i \in DOMAIN chain}

\* generateblock takes a list when every transaction of it is known and comes
\* after its parents, and no coin is spent twice.
Minable(list) ==
    /\ TotalWeight(list) <= Budget
    /\ \A k \in DOMAIN list : LET t == list[k].id IN
         IF list[k].raw
         THEN {Raw(t), Mempool(t)} \cap OnChain = {} /\ Mempool(t) \notin Range(list)
         ELSE /\ t \in mempool
              /\ \A p \in parents[t] : \/ Mempool(p) \in OnChain
                                       \/ \E j \in 1 .. k - 1 : list[j] = Mempool(p)

\* The block is connected: what it holds, and what conflicts with it, leaves
\* the mempool.
Connect(list) ==
    /\ chain' = Append(chain, list)
    /\ mempool' = mempool
                    \ ({item.id : item \in {i \in Range(list) : ~i.raw}}
                         \cup WithDescendants({item.id : item \in {i \in Range(list) : i.raw}}))

---------------------------------------------------------------------------
(* The plan. *)

SelectedCount(eligible, p) ==
    IF eligible = 0 \/ p = 0 THEN 0 ELSE MaxOf((eligible * MinOf(p, 100)) \div 100, 1)

\* A root spends coins of the rolled-back chain only; the others die with it.
Eligible == {t \in wallet \cap 1 .. Orphaned : parents[t] = {} /\ t \in mempool}

FirstOf(S, n) == SubSeq(Ascending(S), 1, MinOf(n, Cardinality(S)))

\* Signing may fail, and the next eligible one is tried; descendants that
\* cannot be read are not excluded.
BuildPlan ==
    /\ pc = "plan"
    /\ \E signable \in {Eligible} \cup {Eligible \ {t} : t \in Eligible}, read \in BOOLEAN :
         /\ failures' = failures + (IF signable = Eligible THEN 0 ELSE 1) + (IF read THEN 0 ELSE 1)
         /\ failures' <= MaxFailures
         /\ replacements' = FirstOf(signable, SelectedCount(Cardinality(Eligible), pct))
         /\ excluded' = (IF read THEN WithDescendants(Range(replacements')) \cap mempool
                                 ELSE Range(replacements'))
         /\ pending' = replacements'
    /\ pc' = "inject"
    /\ UNCHANGED <<given, mempool, chain, injected, index, items, seen>>

\* One more transaction from the wallet: it spends a confirmed coin, or the
\* unconfirmed change of another wallet transaction.
InjectTransaction ==
    /\ pc = "inject" /\ Cardinality(injected) < Adds
    /\ LET t == Originals + Cardinality(injected) + 1
       IN  \E ps \in {{}} \cup {{p} : p \in mempool \cap (wallet \cup injected)} :
             /\ parents' = [parents EXCEPT ![t] = ps]
             /\ injected' = injected \cup {t}
             /\ mempool' = mempool \cup {t}
    /\ UNCHANGED <<weight, wallet, pct, chain, replacements, excluded, pending, index,
                   items, seen, pc, failures>>

\* All of them, or the wallet has run out of funds.
EndInjection ==
    /\ pc = "inject"
    /\ Cardinality(injected) = Adds \/ failures < MaxFailures
    /\ failures' = failures + (IF Cardinality(injected) = Adds THEN 0 ELSE 1)
    /\ pc' = "select"
    /\ UNCHANGED <<given, mempool, chain, replacements, excluded, injected, pending,
                   index, items, seen>>

---------------------------------------------------------------------------
(* Packing. *)

\* Parents first: by the number of ancestors in the mempool, then by txid.
LiveMempoolWeighted ==
    LET count(t) == Cardinality(Ancestors[t] \cap mempool)
    IN  InOrder(mempool \ excluded,
                LAMBDA a, b : count(a) < count(b) \/ (count(a) = count(b) /\ a < b))

\* The items of a list that fit, up to the first that does not.
WeightPrefix(list, budget) ==
    LET fits == {k \in 0 .. Len(list) : TotalWeight(SubSeq(list, 1, k)) <= budget}
    IN  SubSeq(list, 1, Max({k \in fits : 0 .. k \subseteq fits}))

\* Mutant of BalancedWeightBudget: an even share, whatever it fits.
BalancedNoProgress(list, blocksLeft) ==
    IF list = <<>> THEN 0 ELSE MinOf(CeilDiv(TotalWeight(list), blocksLeft), Budget)
BalancedWeightBudget(list, blocksLeft) ==
    IF list = <<>> THEN 0
    ELSE MinOf(MaxOf(CeilDiv(TotalWeight(list), blocksLeft), WeightOf(list[1])), Budget)

\* Mutant of CollectMempoolAncestors: a transaction is packed by itself.
NoAncestors(t, live) == {t}
\* A transaction and its ancestors, as far as the list knows them.
CollectMempoolAncestors(t, live) ==
    LET up[x \in Tx] == {x} \cup UNION {up[p] : p \in parents[x] \cap live}
    IN  up[t]

SetWeight(S) == MapThenSumSet(LAMBDA t : weight[t], S)

\* The injected transactions go first, each with its ancestors.
TakeInjected(list, budget) ==
    LET take(sel, t) ==
            LET closure == CollectMempoolAncestors(t, Range(list))
            IN  IF t \in injected /\ SetWeight(sel \cup closure) <= budget
                THEN sel \cup closure ELSE sel
    IN  FoldLeft(take, {}, list)

\* The others follow in the order of the list, up to the first that does not
\* fit.
FillInOrder(list, budget, first) ==
    LET fill(acc, t) ==
            IF acc.full \/ t \in acc.sel THEN acc
            ELSE IF SetWeight(acc.sel \cup {t}) > budget THEN [acc EXCEPT !.full = TRUE]
            ELSE [acc EXCEPT !.sel = @ \cup {t}]
    IN  FoldLeft(fill, [sel |-> first, full |-> FALSE], list)

PackPrioritized(list, budget) ==
    LET filled == FillInOrder(list, budget, TakeInjected(list, budget)).sel
    IN  Kept(list, LAMBDA t : t \in filled)

BlocksLeft == ReorgDepth + 1 - index

Select ==
    /\ pc = "select" /\ index < ReorgDepth + 1
    /\ LET live == LiveMempoolWeighted
           conflicts == [k \in DOMAIN pending |-> Raw(pending[k])]
           budget == BalancedWeightBudget(
                         conflicts \o [k \in DOMAIN live |-> Mempool(live[k])], BlocksLeft)
           chosen == WeightPrefix(conflicts, budget)
           packed == PackPrioritized(live, budget - TotalWeight(chosen))
       IN  /\ items' = chosen \o [k \in DOMAIN packed |-> Mempool(packed[k])]
           /\ pending' = SubSeq(pending, Len(chosen) + 1, Len(pending))
    /\ seen' = mempool
    /\ pc' = "mine"
    /\ UNCHANGED <<given, mempool, chain, replacements, excluded, injected, index, failures>>

NextBlock == items' = <<>> /\ seen' = {} /\ index' = index + 1 /\ pc' = "select"

\* The block as chosen; answered says whether the caller hears of it.
MineExact ==
    /\ pc = "mine"
    /\ \E answered \in BOOLEAN :
         /\ failures' = failures + (IF answered THEN 0 ELSE 1)
         /\ failures' <= MaxFailures
         /\ IF Minable(items) THEN Connect(items) ELSE answered /\ UNCHANGED <<chain, mempool>>
         /\ IF answered /\ Minable(items) THEN NextBlock
            ELSE pc' = "ladder" /\ UNCHANGED <<items, seen, index>>
    /\ UNCHANGED <<given, replacements, excluded, injected, pending>>

\* The rungs below a rejected block, in their order: without what has left the
\* mempool, the conflicts alone, the rest alone, nothing.
Rungs ==
    LET filtered == Kept(items, LAMBDA i : i.raw \/ i.id \in mempool)
        raw == Kept(items, LAMBDA i : i.raw)
        rest == Kept(filtered, LAMBDA i : ~i.raw)
    IN  (IF Len(filtered) < Len(items) /\ filtered # <<>> THEN <<filtered>> ELSE <<>>)
          \o (IF raw # <<>> /\ Len(raw) < Len(filtered) THEN <<raw>> ELSE <<>>)
          \o (IF raw # <<>> /\ rest # <<>> THEN <<rest>> ELSE <<>>)
          \o <<<<>>>>

Salvage ==
    /\ pc = "ladder"
    /\ Connect(Rungs[Min({k \in DOMAIN Rungs : Minable(Rungs[k])})])
    /\ NextBlock
    /\ UNCHANGED <<given, replacements, excluded, injected, pending, failures>>

\* The reorg succeeds when every requested transaction was made and mined.
VerifyNewTransactions ==
    /\ pc = "select" /\ index = ReorgDepth + 1
    /\ pc' = IF Cardinality(injected) = Adds /\ \A t \in injected : Mempool(t) \in OnChain
             THEN "succeeded" ELSE "failed"
    /\ UNCHANGED <<given, mempool, chain, replacements, excluded, injected, pending,
                   index, items, seen, failures>>

\* A transaction is replaced or evicted while the blocks are mined.
Evict ==
    /\ pc \in {"select", "mine", "ladder"} /\ failures < MaxFailures
    /\ \E t \in mempool : mempool' = mempool \ WithDescendants({t})
    /\ failures' = failures + 1
    /\ UNCHANGED <<given, chain, replacements, excluded, injected, pending, index,
                   items, seen, pc>>

---------------------------------------------------------------------------
BlocksInit ==
    /\ parents \in {f \in [Tx -> {{}} \cup {{p} : p \in 1 .. Originals - 1}] :
                      /\ \A t \in 1 .. Originals : \A p \in f[t] : p < t
                      /\ \A t \in Tx \ (1 .. Originals) : f[t] = {}}
    /\ weight \in {f \in [Tx -> Weights \cup {1}] :
                     /\ \A t \in 1 .. Originals : f[t] \in Weights
                     /\ \A t \in Tx \ (1 .. Originals) : f[t] = 1}
    /\ wallet \in SUBSET (1 .. Originals)
    /\ pct \in Pcts
    /\ mempool = 1 .. Originals
    /\ chain = <<>> /\ replacements = <<>> /\ excluded = {} /\ injected = {} /\ pending = <<>>
    /\ index = 0 /\ items = <<>> /\ seen = {} /\ pc = "plan" /\ failures = 0

BlocksNext ==
    \/ BuildPlan \/ InjectTransaction \/ EndInjection
    \/ Select \/ MineExact \/ Salvage \/ VerifyNewTransactions
    \/ Evict

BlocksSpec == BlocksInit /\ [][BlocksNext]_blocksVars

---------------------------------------------------------------------------
\* Every variable keeps its type; never more blocks than were asked for, but
\* for the ones whose answer was lost.
BlocksTypeOK ==
    /\ mempool \subseteq Tx /\ excluded \subseteq Tx
    /\ injected \subseteq Tx \ (1 .. Originals)
    /\ Range(pending) \subseteq Range(replacements)
    /\ Range(replacements) \subseteq 1 .. Orphaned
    /\ index \in 0 .. ReorgDepth + 1 /\ Len(chain) \in index .. index + failures + 1
    /\ pc \in {"plan", "inject", "select", "mine", "ladder", "succeeded", "failed"}
    /\ failures \in 0 .. MaxFailures

\* An injected transaction that spends from one that is to be dropped is the
\* one thing the plan, made before it, cannot exclude; an unread descendant
\* the other.
Overtaken == \E t \in mempool \ excluded : Ancestors[t] \cap excluded # {}

\* The same of all of the request: such a transaction was there, if only to be
\* dropped together with what it spends from and to cost its block the rest.
Entangled == \E t \in Tx \ excluded : Ancestors[t] \cap excluded # {}

\* The list handed to generateblock is one it takes: within the block's
\* weight, parents first, nothing missing.  It is refused only if the mempool
\* changed since it was read or a child of an excluded transaction got in
\* (live_mempool_weighted, pack_prioritized_by_weight).
PackedIsMinable ==
    pc = "mine" /\ seen = mempool /\ ~Overtaken => Minable(items)

\* While anything is left to mine, every replacement block is given at least
\* one transaction, however large the first one is (balanced_weight_budget).
EveryBlockMakesProgress ==
    pc = "mine" /\ (seen \ excluded) # {} => items # <<>>

\* Transactions are left over in the end only if the last block was full
\* (balanced_weight_budget, pack_by_weight).
LeftoverMeansFull ==
    pc \in {"succeeded", "failed"} /\ failures = 0 /\ mempool \ excluded # {} /\ ~Entangled
        => \E t \in mempool \ excluded : TotalWeight(Last(chain)) + weight[t] > Budget

\* A conflict that was given to a block is mined in it, whatever else of the
\* block went stale: the original is gone for good (mine_exact).
ConflictsLand ==
    pc \in {"select", "succeeded", "failed"} =>
        \A k \in DOMAIN replacements :
            replacements[k] \notin Range(pending) => Raw(replacements[k]) \in OnChain

\* What holds of the replacement blocks whatever the ladder comes to.
ReplacementInvariant ==
    BlocksTypeOK /\ PackedIsMinable /\ LeftoverMeansFull /\ ConflictsLand

\* Does not hold (see README, Disagreements).
\* What the comment on live_mempool_weighted says of the list: a kept child
\* has no excluded parent.
KeptChildrenHaveKeptParents ==
    pc = "select" => \A t \in mempool \ excluded : parents[t] \cap excluded = {}
=============================================================================
