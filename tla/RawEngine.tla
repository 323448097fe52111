----------------------------- MODULE RawEngine -----------------------------
(***************************************************************************)
(* The raw transaction engine (crates/spammer raw_transaction_spammer.rs): *)
(* it signs its own transactions, so it keeps its own list of coins and    *)
(* must keep it true to a node that mines, evicts and reorganises behind   *)
(* its back.                                                               *)
(*                                                                         *)
(* An engine holds two keys, the data branches and the floor pool, that    *)
(* never share a coin; and it has two owners, the spam worker and the      *)
(* scenario bursts of the control plane, that never share a key.  "owner"  *)
(* says which of the three uses a behaviour follows, and utxos, funding    *)
(* and fanout are then utxos, branch_funding and branch_fanout, or         *)
(* pool_utxos, pool_funding and pool_fanout.                               *)
(*                                                                         *)
(* An amount is the number of transactions a coin can still pay for, the   *)
(* smallest change left aside: a spam transaction or a fill costs 1.       *)
(***************************************************************************)
EXTENDS OrderedSets, FiniteSetsExt, SequencesExt

CONSTANTS
    Share,        \* transactions of an output round
    Fanout,       \* SPAM_FANOUT_UTXOS, the preferred number of branches
    Replaces,     \* transactions fee-bumped after an output round
    FloorTarget,  \* standing fills wanted
    BatchSize,    \* FLOOR_BATCH_SIZE
    ChunkOutputs, \* POOL_FANOUT_CHUNK_OUTPUTS
    BurstTxs,     \* transactions of a scenario burst
    BranchMin,    \* BRANCH_MIN_TXS
    Pull,         \* what one funding pulls from the node's wallet
    MaxTxs,       \* bound: transactions of a behaviour; the wallet and the
                  \* node refuse any further one
    MaxMishaps    \* bound: failed RPCs, evictions, rewinds, restarts,
                  \* reconciliations asked for and interruptions

ASSUME RawEngineAssumption ==
    /\ {Share, Fanout, FloorTarget, BatchSize, ChunkOutputs, BurstTxs, BranchMin, Pull}
          \subseteq Nat \ {0}
    /\ {Replaces, MaxTxs, MaxMishaps} \subseteq Nat

VARIABLES
    owner,    \* "output", "floor" or "burst"
    tx,       \* the transactions the node has seen, in the order of submission
    height,   \* of the node's chain
    utxos,    \* the engine's coins, in the order the engine keeps them
    cursor,   \* of the round robin, from 0
    funding,  \* the pending funding, or NoFunding
    fanout,   \* the pending fan-out transaction, or 0
    inflight, \* fills_inflight: the fills believed to stand in the mempool
    seen_height, \* pool_seen_height
    doing,    \* what the owner is doing with the engine
    round,    \* the local variables of the round under way
    stale,    \* the owner is to reconcile before the next round
    mishaps,
    lost      \* coins that were hidden from the engine: a submission that
              \* took effect but failed, or a spender that disappeared

engine == <<utxos, cursor, funding, fanout, inflight, seen_height>>
node == <<tx, height>>
engineVars == <<owner, tx, height, utxos, cursor, funding, fanout, inflight, seen_height,
                doing, round, stale, mishaps, lost>>

---------------------------------------------------------------------------
(* The node. A coin is an output of a transaction to the engine's key.     *)

NoFunding == [txid |-> 0, known |-> FALSE]
Idle == [left |-> 0, fails |-> 0, sent |-> <<>>, again |-> FALSE]

Amount(t, c) == t[c[1]].outs[c[2]]
Coins(t) == UNION {{<<i, k>> : k \in DOMAIN t[i].outs} : i \in DOMAIN t}
Live(t, i) == t[i].state \in {"mempool", "mined"}
Spenders(t, c) == {i \in DOMAIN t : Live(t, i) /\ c \in t[i].ins}

\* gettxout, with and without the mempool.
TxOutWithMempool(t, c) == Live(t, c[1]) /\ Spenders(t, c) = {}
TxOutConfirmed(t, c) ==
    /\ t[c[1]].state = "mined"
    /\ \A i \in Spenders(t, c) : t[i].state # "mined"

\* The confirmed coins of the key that no transaction of the mempool spends.
\* The order of scantxoutset means nothing to the engine: age is as good.
Scanned(t) == {c \in Coins(t) : TxOutConfirmed(t, c) /\ TxOutWithMempool(t, c)}
ScanAddressUtxos(t) ==
    InOrder(Scanned(t), LAMBDA a, b : a[1] < b[1] \/ (a[1] = b[1] /\ a[2] < b[2]))

\* The transactions of S and everything that spends from them.
FamilyOf(t, S) ==
    LET below[i \in DOMAIN t] == i \in S \/ \E c \in t[i].ins : below[c[1]]
    IN  {i \in DOMAIN t : Live(t, i) /\ below[i]}

\* What the node knows after it accepted a transaction.
Accepted(t, kind, ins, outs, rbf) ==
    Append(t, [kind |-> kind, ins |-> ins, outs |-> outs, rbf |-> rbf,
               state |-> "mempool", at |-> 0])
Accepts(t, ins) == Len(t) < MaxTxs /\ \A c \in ins : TxOutWithMempool(t, c)

Unconfirmed == {i \in DOMAIN tx : tx[i].state = "mempool"}
\* The next block of the node takes its mempool except for left.
Mined(t, left) ==
    [i \in DOMAIN t |-> IF t[i].state = "mempool" /\ i \notin left
        THEN [t[i] EXCEPT !.state = "mined", !.at = height + 1] ELSE t[i]]
Gone(t, S) == [i \in DOMAIN t |-> IF i \in S THEN [t[i] EXCEPT !.state = "gone"] ELSE t[i]]
Outputs(i, outs) == [k \in DOMAIN outs |-> <<i, k>>]

---------------------------------------------------------------------------
(* Provisioning. The engine and the node are passed as one record e; mode  *)
(* is how the RPCs of the call fare: "ok", "read" (no status can be read), *)
(* "refused" (nothing is accepted), "hidden" (a submission is accepted but *)
(* its answer lost) or "unknown" (the funding's output cannot be read).    *)

Now == [tx |-> tx, utxos |-> utxos, cursor |-> cursor, funding |-> funding,
        fanout |-> fanout, lost |-> lost]
Becomes(e) ==
    /\ tx' = e.tx /\ utxos' = e.utxos /\ cursor' = e.cursor
    /\ funding' = e.funding /\ fanout' = e.fanout /\ lost' = e.lost

Modes == {"ok", "read", "refused", "hidden", "unknown"}

\* A rebuild sees confirmed coins only: unconfirmed ones are out of sight
\* until they confirm and the engine looks again.
Unseen(t) == {c \in Coins(t) : TxOutWithMempool(t, c)} \ Scanned(t)
Resync(e) == [e EXCEPT !.utxos = ScanAddressUtxos(e.tx), !.cursor = 0,
                       !.lost = @ \cup (Unseen(e.tx) \ Range(inflight))]

FundingConfirmed(e) == e.funding # NoFunding /\ e.tx[e.funding.txid].state = "mined"
FundingAlive(e) == e.funding # NoFunding /\ e.tx[e.funding.txid].state # "gone"
\* Mutant of FanoutConfirmed: the mempool is looked at too.
FanoutInMempool(e) == e.fanout # 0 /\ TxOutWithMempool(e.tx, <<e.fanout, 1>>)
FanoutConfirmed(e) == e.fanout # 0 /\ TxOutConfirmed(e.tx, <<e.fanout, 1>>)
\* Mutant of FanoutAlive: a fan-out that was sent counts.
FanoutKnown(e) == e.fanout # 0
FanoutAlive(e) == e.fanout # 0 /\ TxOutWithMempool(e.tx, <<e.fanout, 1>>)

Wrapped(e) == IF e.utxos = <<>> THEN e ELSE [e EXCEPT !.cursor = @ % Len(e.utxos)]

AdvanceFunding(e) ==
    IF ~FundingConfirmed(e) THEN e
    ELSE LET taken == [e EXCEPT !.funding = NoFunding]
         IN  IF e.funding.known
             THEN [taken EXCEPT !.utxos = Append(@, <<e.funding.txid, 1>>)]
             ELSE Resync(taken)
AdvanceFanout(e) ==
    IF ~FanoutConfirmed(e) THEN e
    ELSE Wrapped([e EXCEPT !.fanout = 0,
                           !.utxos = @ \o Outputs(e.fanout, e.tx[e.fanout].outs)])

\* The pending funding and fan-out join the coins once they have confirmed.
AdvanceProvisioning(e, mode) == IF mode = "read" THEN e ELSE AdvanceFanout(AdvanceFunding(e))
FundingSeed(e, mode) ==
    IF mode # "read" /\ FundingConfirmed(e) /\ e.funding.known
    THEN {<<e.funding.txid, 1>>} ELSE {}

ResyncIfBroke(e) ==
    IF e.utxos = <<>> /\ e.funding = NoFunding /\ e.fanout = 0 THEN Resync(e) ELSE e

\* One pull from the wallet at a time; an answer that is lost leaves a coin
\* nobody knows of.
StartFunding(e, mode) ==
    IF e.funding # NoFunding \/ mode \in {"read", "refused"} \/ ~Accepts(e.tx, {}) THEN e
    ELSE LET t == Accepted(e.tx, "fund", {}, <<Pull>>, FALSE)
         IN  IF mode = "hidden"
             THEN [e EXCEPT !.tx = t, !.lost = @ \cup {<<Len(t), 1>>}]
             ELSE [e EXCEPT !.tx = t,
                            !.funding = [txid |-> Len(t), known |-> mode # "unknown"]]

Usable(e) == Cardinality({i \in DOMAIN e.utxos : Amount(e.tx, e.utxos[i]) >= 1})
Total(e) == MapThenSumSet(LAMBDA i : Amount(e.tx, e.utxos[i]), DOMAIN e.utxos)

\* The coins a fan-out may split, best first: the funding that has just
\* confirmed, and the others, largest first, only while more than the minimum
\* is usable.
FanoutCandidates(e, minimum, seed) ==
    LET amount(i) == Amount(e.tx, e.utxos[i])
        able == {i \in DOMAIN e.utxos : amount(i) >= 1}
        first == {i \in able : e.utxos[i] \in seed
                               /\ \A j \in able : e.utxos[j] = e.utxos[i] => i <= j}
        rest == IF Usable(e) > minimum THEN able \ first ELSE {}
    IN  Ascending(first)
          \o InOrder(rest, LAMBDA i, j : amount(i) > amount(j) \/ (amount(i) = amount(j) /\ i < j))

\* The fan-out of one confirmed coin into enough branches to reach the target.
StartFanout(e, minimum, target, seed, mode) ==
    LET count == target - Usable(e) + 1
        confirmed == Kept(FanoutCandidates(e, minimum, seed),
                               LAMBDA i : TxOutConfirmed(e.tx, e.utxos[i]))
        coin == e.utxos[Head(confirmed)]
        each == (Amount(e.tx, coin) - 1) \div count
        t == Accepted(e.tx, "fan", {coin}, [k \in 1 .. count |-> each], FALSE)
    IN  IF \/ e.fanout # 0 \/ Usable(e) >= target
           \/ mode \in {"read", "refused"} \/ confirmed = <<>>
        THEN e
        ELSE IF each < BranchMin \/ ~Accepts(e.tx, {coin}) THEN e
        ELSE IF mode = "hidden"
             THEN [e EXCEPT !.tx = t, !.lost = @ \cup Range(Outputs(Len(t), t[Len(t)].outs))]
        ELSE Wrapped([e EXCEPT !.tx = t, !.fanout = Len(t),
                               !.utxos = RemoveAt(@, Head(confirmed))])

BranchProvisioningAction(usable, minimum, target, pending, seeded) ==
    CASE usable >= target -> "Ready"
      [] usable < target /\ pending -> "WaitForFanout"
      [] usable < target /\ ~pending /\ (seeded \/ usable > minimum) -> "StartFanout"
      [] OTHER -> "StartFunding"

\* ensure_funds: what it leaves behind, and whether a round may go on.
EnsureFunds(e, need, target, mode) ==
    LET seed == FundingSeed(e, mode)
        ready == ResyncIfBroke(AdvanceProvisioning(e, mode))
        refilled == IF Total(ready) < target * BranchMin
                    THEN StartFunding(ready, mode) ELSE ready
        action == BranchProvisioningAction(Usable(ready), need, target,
                                           refilled.fanout # 0, seed # {})
        split == StartFanout(refilled, need, target, seed, mode)
    IN  CASE action = "StartFunding" -> StartFunding(refilled, mode)
          [] action = "StartFanout" ->
               IF split.fanout # 0 THEN split ELSE StartFunding(split, mode)
          [] OTHER -> refilled
UsableAfterResync(e, mode) == Usable(ResyncIfBroke(AdvanceProvisioning(e, mode)))

\* The fan-out of the floor pool: its largest coins, as many as are needed,
\* into fills of BranchMin each and one change output.
StartPoolFanout(e, seedCount, mode) ==
    LET n == MinOf(seedCount - Usable(e), ChunkOutputs)
        amount(i) == Amount(e.tx, e.utxos[i])
        largest == InOrder(DOMAIN e.utxos,
                       LAMBDA i, j : amount(i) > amount(j) \/ (amount(i) = amount(j) /\ i > j))
        sum(k) == MapThenSumSet(LAMBDA j : amount(largest[j]), 1 .. k)
        enough == {k \in 1 .. Len(largest) : sum(k) >= n * BranchMin + 1}
        used == {largest[j] : j \in 1 .. Min(enough)}
        change == sum(Min(enough)) - (n * BranchMin + 1)
        outs == [k \in 1 .. n |-> BranchMin] \o (IF change >= 1 THEN <<change>> ELSE <<>>)
        ins == {e.utxos[i] : i \in used}
        kept == [k \in 1 .. Len(e.utxos) - Cardinality(used) |->
                   e.utxos[Ascending(DOMAIN e.utxos \ used)[k]]]
        t == Accepted(e.tx, "fan", ins, outs, FALSE)
    IN  IF \/ e.fanout # 0 \/ e.utxos = <<>> \/ Usable(e) >= seedCount
           \/ enough = {} \/ mode = "refused"
        THEN e
        ELSE IF Cardinality(ins) < Cardinality(used) \/ ~Accepts(e.tx, ins) THEN e
        ELSE IF mode = "hidden"
             THEN [e EXCEPT !.tx = t, !.lost = @ \cup Range(Outputs(Len(t), outs))]
        ELSE [e EXCEPT !.tx = t, !.utxos = kept, !.fanout = Len(t)]

EnsurePoolFunds(e, need, mode) ==
    LET ready == ResyncIfBroke(AdvanceProvisioning(e, mode))
        seedCount == FloorTarget + CeilDiv(FloorTarget, 4)
        funded == IF Total(ready) < seedCount * BranchMin
                  THEN StartFunding(ready, mode) ELSE ready
    IN  IF Usable(ready) >= need THEN ready ELSE StartPoolFanout(funded, seedCount, mode)

---------------------------------------------------------------------------
(* Rounds. *)

Spend(mode, more) ==
    /\ (mode = "ok" \/ mishaps < MaxMishaps)
    /\ mishaps' = mishaps + (IF mode = "ok" THEN 0 ELSE 1)
    /\ more

\* output_round, from its start to its loop; the need and the target differ
\* between the two owners.
BeginSending(e, need, target, txs, again, mode) ==
    /\ \E after \in {EnsureFunds(e, need, target, mode)} : Becomes(after)
    /\ IF UsableAfterResync(e, mode) > 0
       THEN /\ doing' = "send"
            /\ round' = [Idle EXCEPT !.left = txs, !.again = again]
       ELSE doing' = "idle" /\ round' = Idle

OutputRound(mode) ==
    /\ owner = "output" /\ doing = "idle" /\ ~stale
    /\ Spend(mode, BeginSending(Now, MinOf(Share, Fanout), Fanout, Share, FALSE, mode))
    /\ UNCHANGED <<owner, height, inflight, seen_height, stale>>

Replaceable == owner = "output" /\ Replaces > 0

\* Round robin: the next branch that can pay, from the cursor on.
NextBranch ==
    LET n == Len(utxos)
        able == {k \in 0 .. n - 1 : Amount(tx, utxos[((cursor + k) % n) + 1]) >= 1}
    IN  IF able = {} THEN {} ELSE {((cursor + Min(able)) % n) + 1}

\* The node's word for a coin that is gone for good makes the engine forget
\* the branch; a replacement without a higher fee is refused in other words.
RefusedAsStale(c) ==
    \/ ~Live(tx, c[1])
    \/ \E i \in Spenders(tx, c) : tx[i].state = "mined" \/ ~tx[i].rbf

SendShape(mode) ==
    /\ doing = "send" /\ round.left > 0 /\ round.fails < Len(utxos)
    /\ mode \in {"ok", "refused", "hidden"}
    /\ Spend(mode, TRUE)
    /\ IF NextBranch = {}
       THEN /\ round' = [round EXCEPT !.fails = @ + 1]
            /\ UNCHANGED <<tx, utxos, cursor, lost>>
       ELSE \E idx \in NextBranch :
              LET coin == utxos[idx]
                  change == <<Len(tx) + 1, 1>>
                  next == idx % Len(utxos)
                  sent == Accepted(tx, "spam", {coin}, <<Amount(tx, coin) - 1>>, Replaceable)
                  failed == [round EXCEPT !.fails = @ + 1]
              IN CASE mode = "ok" /\ Accepts(tx, {coin}) ->
                        /\ tx' = sent
                        /\ utxos' = [utxos EXCEPT ![idx] = change]
                        /\ cursor' = next
                        /\ round' = [round EXCEPT !.left = @ - 1, !.fails = 0,
                                                  !.sent = Append(@, Len(tx) + 1)]
                        /\ UNCHANGED lost
                   [] mode = "hidden" /\ Accepts(tx, {coin}) ->
                        /\ tx' = sent /\ cursor' = next /\ round' = failed
                        /\ lost' = lost \cup {change}
                        /\ UNCHANGED utxos
                   [] mode = "ok" /\ RefusedAsStale(coin) ->
                        /\ utxos' = RemoveAt(utxos, idx)
                        /\ cursor' = IF Len(utxos) = 1 THEN next ELSE next % (Len(utxos) - 1)
                        /\ round' = failed
                        /\ UNCHANGED <<tx, lost>>
                   [] OTHER ->
                        /\ cursor' = next /\ round' = failed
                        /\ UNCHANGED <<tx, utxos, lost>>
    /\ UNCHANGED <<owner, height, funding, fanout, inflight, seen_height, doing, stale>>

\* The condition of the sending loop, the same in output_round and data_round.
SendingEnds == doing = "send" /\ (round.left = 0 \/ round.fails >= Len(utxos))

EndOutputRound ==
    /\ owner = "output" /\ SendingEnds
    /\ IF Replaceable
       THEN doing' = "bump" /\ round' = [round EXCEPT !.left = Replaces]
       ELSE doing' = "idle" /\ round' = Idle
    /\ UNCHANGED <<owner, node, engine, stale, mishaps, lost>>

\* Where the change of a transaction is still the tip of a branch.
\* Mutant of TipOf: the round does not look whose change a tip is.
TipOrAny(txid) == DOMAIN utxos
TipOf(txid) == {i \in DOMAIN utxos : utxos[i] = <<txid, 1>>}

\* The latest transaction of the round is replaced by one with twice the fee,
\* if its change is still a tip.
Bump(mode) ==
    /\ doing = "bump" /\ round.sent # <<>> /\ round.left > 0
    /\ mode \in {"ok", "refused"}
    /\ Spend(mode, TRUE)
    /\ LET old == Last(round.sent)
           coins == tx[old].ins
           at == TipOf(old)
           amount == tx[old].outs[1]
           accepted == /\ Len(tx) < MaxTxs
                       /\ \A c \in coins : Live(tx, c[1])
                       /\ \A c \in coins : \A i \in Spenders(tx, c) :
                             tx[i].state = "mempool" /\ tx[i].rbf
           replaced == FamilyOf(tx, {old})
       IN  IF at # {} /\ amount >= 1 /\ mode = "ok" /\ accepted
           THEN /\ tx' = Accepted(Gone(tx, replaced), "spam", coins, <<amount - 1>>, TRUE)
                /\ utxos' = [utxos EXCEPT ![Min(at)] = <<Len(tx) + 1, 1>>]
                /\ round' = [round EXCEPT !.sent = Front(@), !.left = @ - 1]
           ELSE /\ round' = [round EXCEPT !.sent = Front(@)]
                /\ UNCHANGED <<tx, utxos>>
    /\ UNCHANGED <<owner, height, cursor, funding, fanout, inflight, seen_height,
                   doing, stale, lost>>

EndBump ==
    /\ doing = "bump" /\ (round.sent = <<>> \/ round.left = 0)
    /\ doing' = "idle" /\ round' = Idle
    /\ UNCHANGED <<owner, node, engine, stale, mishaps, lost>>

---------------------------------------------------------------------------
(* The floor pool. *)

FloorNeed(standing) == IF standing >= FloorTarget THEN 0 ELSE FloorTarget - standing

\* The fills mined since the last look become ammunition again; a block that
\* cannot be read leaves everything for the next look.
HarvestMinedFills(mode) ==
    /\ owner = "floor" /\ doing = "idle" /\ ~stale
    /\ mode \in {"ok", "read"}
    /\ Spend(mode, TRUE)
    /\ LET mined == {c \in Range(inflight) : /\ tx[c[1]].state = "mined"
                                             /\ tx[c[1]].at \in seen_height + 1 .. height}
       IN  CASE seen_height = 0 \/ inflight = <<>> ->
                  seen_height' = height /\ UNCHANGED <<utxos, inflight>>
             [] seen_height # 0 /\ inflight # <<>> /\ mode = "read" ->
                  UNCHANGED <<utxos, inflight, seen_height>>
             [] OTHER ->
                  /\ seen_height' = height
                  /\ utxos' = utxos \o Kept(inflight, LAMBDA c : /\ c \in mined
                                                                      /\ c \notin Range(utxos))
                  /\ inflight' = Kept(inflight, LAMBDA c : c \notin mined)
    /\ IF FloorNeed(Len(inflight')) = 0
       THEN doing' = "idle" /\ round' = Idle
       ELSE doing' = "pool" /\ round' = [Idle EXCEPT !.left = FloorNeed(Len(inflight'))]
    /\ UNCHANGED <<owner, node, cursor, funding, fanout, stale, lost>>

FundPool(mode) ==
    /\ doing = "pool"
    /\ Spend(mode, \E e \in {EnsurePoolFunds(Now, round.left, mode)} : Becomes(e))
    /\ IF UsableAfterResync(Now, mode) > 0
       THEN doing' = "batch" /\ UNCHANGED round
       ELSE doing' = "idle" /\ round' = Idle
    /\ UNCHANGED <<owner, height, inflight, seen_height, stale>>

\* A batch of fills: an accepted one stands in the mempool, a refused one
\* takes its coin with it until the next rebuild.
SendBatch(mode) ==
    LET able == {i \in DOMAIN utxos : Amount(tx, utxos[i]) >= 1}
        n == MinOf(MinOf(round.left, BatchSize), Cardinality(able))
        taken == SubSeq(Ascending(able), 1, n)
        fills == [k \in 1 .. n |-> utxos[taken[k]]]
        start == [tx |-> tx, inflight |-> inflight, lost |-> lost]
        submit(acc, c) ==
            IF mode = "refused" \/ ~Accepts(acc.tx, {c})
            THEN [acc EXCEPT !.lost = @ \cup {c}]
            ELSE LET t == Accepted(acc.tx, "fill", {c}, <<Amount(acc.tx, c) - 1>>, FALSE)
                     out == <<Len(t), 1>>
                 IN  IF mode = "hidden"
                     THEN [acc EXCEPT !.tx = t, !.lost = @ \cup {out}]
                     ELSE [acc EXCEPT !.tx = t, !.inflight = Append(@, out)]
        done == FoldLeft(submit, start, fills)
    IN  /\ doing = "batch" /\ round.left > 0 /\ able # {}
        /\ mode \in {"ok", "refused", "hidden"}
        /\ Spend(mode, TRUE)
        /\ tx' = done.tx /\ inflight' = done.inflight /\ lost' = done.lost
        /\ utxos' = [k \in 1 .. Len(utxos) - n |->
                       utxos[Ascending(DOMAIN utxos \ Range(taken))[k]]]
        /\ round' = [round EXCEPT !.left = @ - n]
        /\ UNCHANGED <<owner, height, cursor, funding, fanout, seen_height, doing, stale>>

EndFloorRound ==
    /\ doing = "batch"
    /\ round.left = 0 \/ Usable(Now) = 0
    /\ doing' = "idle" /\ round' = Idle
    /\ UNCHANGED <<owner, node, engine, stale, mishaps, lost>>

---------------------------------------------------------------------------
(* Reconciliation, in the order of its RPCs: the coins and what is still   *)
(* alive of the pending work first, the height last.                       *)

Reconciled(e, mode) ==
    LET kept == [e EXCEPT !.funding = IF mode = "ok" /\ FundingAlive(e) THEN @ ELSE NoFunding,
                          !.fanout = IF mode = "ok" /\ FanoutAlive(e) THEN @ ELSE 0]
    IN  Resync([kept EXCEPT !.lost = @ \cup
                  {c \in Coins(e.tx) : c[1] \in {e.funding.txid, e.fanout} /\ mode # "ok"}])
StillInflight ==
    Kept(inflight, LAMBDA c : TxOutWithMempool(tx, c) /\ c \notin Scanned(tx))

ReconcileScan(mode) ==
    /\ doing = "idle" /\ stale
    /\ mode \in {"ok", "read", "unknown"}
    /\ Spend(mode, TRUE)
    /\ IF mode = "read"
       THEN UNCHANGED <<tx, engine, doing, lost>>
       ELSE /\ \E e \in {Reconciled(Now, mode)} : Becomes(e)
            /\ inflight' = StillInflight
            /\ doing' = "height"
            /\ UNCHANGED seen_height
    /\ UNCHANGED <<owner, height, round, stale>>

ReconcileHeight(mode) ==
    /\ doing = "height"
    /\ mode \in {"ok", "read"}
    /\ Spend(mode, TRUE)
    /\ IF mode = "ok"
       THEN seen_height' = height /\ stale' = FALSE
       ELSE UNCHANGED <<seen_height, stale>>
    /\ doing' = "idle"
    /\ UNCHANGED <<owner, node, utxos, cursor, funding, fanout, inflight, round, lost>>

---------------------------------------------------------------------------
(* Scenario bursts. *)

BeginPrepare ==
    /\ owner = "burst" /\ doing = "idle" /\ ~stale
    /\ Usable(Now) < BurstTxs
    /\ doing' = "prepare"
    /\ UNCHANGED <<owner, node, engine, round, stale, mishaps, lost>>

\* One turn of the waiting loop: ready, or half a second, or a block, later.
PrepareBurst(mode) ==
    /\ doing = "prepare"
    /\ \E e \in {EnsureFunds(Now, BurstTxs, BurstTxs, mode)} :
           /\ Spend(mode, Becomes(e))
           /\ doing' = IF UsableAfterResync(Now, mode) > 0 /\ Usable(e) >= BurstTxs
                       THEN "idle" ELSE "prepare"
    /\ UNCHANGED <<owner, height, inflight, seen_height, round, stale>>

\* The same on demand: a turn that is not ready mines a block of its own.
PrepareManualBurst(mode) ==
    /\ doing = "prepare"
    /\ \E e \in {EnsureFunds(Now, BurstTxs, BurstTxs, mode)} :
           LET ready == UsableAfterResync(Now, mode) > 0 /\ Usable(e) >= BurstTxs
           IN  /\ Spend(mode, Becomes(IF ready THEN e ELSE [e EXCEPT !.tx = Mined(@, {})]))
               /\ doing' = IF ready THEN "idle" ELSE "prepare"
               /\ height' = IF ready THEN height ELSE height + 1
               /\ e.tx # tx \/ Unconfirmed # {} \/ ready
    /\ UNCHANGED <<owner, inflight, seen_height, round, stale>>

SpamBurst(mode) ==
    /\ owner = "burst" /\ doing = "idle" /\ ~stale
    /\ Usable(Now) >= BurstTxs
    /\ Spend(mode, BeginSending(Now, BurstTxs, BurstTxs, BurstTxs, FALSE, mode))
    /\ UNCHANGED <<owner, height, inflight, seen_height, stale>>

\* A short burst, of payments or of data, reconciles once and sends the
\* remainder.
EndSpamBurst(mode) ==
    /\ owner = "burst" /\ SendingEnds
    /\ mode \in {"ok", "read"}
    /\ IF round.left = 0 \/ round.again \/ mode = "read"
       THEN /\ Spend(mode, doing' = "idle" /\ round' = Idle)
            /\ UNCHANGED <<tx, utxos, cursor, funding, fanout, lost>>
       ELSE Spend(mode, BeginSending(Reconciled(Now, "ok"), MinOf(round.left, BurstTxs),
                                     BurstTxs, round.left, TRUE, "ok"))
    /\ UNCHANGED <<owner, height, inflight, seen_height, stale>>

\* A checkpoint says stop, or the deadline of a preparation has passed.
Interrupted ==
    /\ doing \in {"send", "bump", "pool", "batch", "prepare"}
    /\ mishaps < MaxMishaps
    /\ mishaps' = mishaps + 1
    /\ doing' = "idle" /\ round' = Idle
    /\ UNCHANGED <<owner, node, engine, stale, lost>>

---------------------------------------------------------------------------
(* The node and the rest of the world. *)

\* A block takes the mempool, but for at most one transaction and what spends
\* from it.
Mine ==
    /\ \E X \in {{}} \cup {FamilyOf(tx, {i}) : i \in Unconfirmed} :
         Unconfirmed \ X # {} /\ tx' = Mined(tx, X)
    /\ height' = height + 1
    /\ UNCHANGED <<owner, engine, doing, round, stale, mishaps, lost>>

Mishap == mishaps < MaxMishaps /\ mishaps' = mishaps + 1

\* A full mempool drops floor-priced traffic; a fan-out pays a multiple of it
\* and keeps what it spends from.
NodeEvicts ==
    /\ Mishap
    /\ \E i \in {j \in Unconfirmed : tx[j].kind \in {"spam", "fill"}} :
         LET S == FamilyOf(tx, {i})
         IN  /\ \A j \in S : tx[j].kind \in {"spam", "fill"}
             /\ tx' = Gone(tx, S)
             /\ lost' = lost \cup UNION {tx[j].ins : j \in S}
    /\ UNCHANGED <<owner, height, engine, doing, round, stale>>

\* A chain job takes the latest block off and may replace one of its
\* transactions by a conflicting one. The worker's lease makes it wait for a
\* boundary and asks for a reconciliation; burst engines are not told.
ChainMutated ==
    /\ Mishap
    /\ doing = "idle" /\ height > 1
    /\ LET top == {i \in DOMAIN tx : tx[i].state = "mined" /\ tx[i].at = height}
           back == [i \in DOMAIN tx |-> IF i \in top
                      THEN [tx[i] EXCEPT !.state = "mempool", !.at = 0] ELSE tx[i]]
       IN  \E D \in {{}} \cup {FamilyOf(back, {i}) : i \in top} :
             /\ tx' = Gone(back, D)
             /\ lost' = lost \cup UNION {tx[j].ins : j \in D}
    /\ height' = height - 1
    /\ stale' = (stale \/ owner # "burst")
    /\ UNCHANGED <<owner, engine, doing, round>>

\* A lease released with chain_changed although no coin of this engine moved.
ReconciliationAsked ==
    /\ Mishap /\ owner # "burst" /\ doing = "idle" /\ ~stale
    /\ stale' = TRUE
    /\ UNCHANGED <<owner, node, engine, doing, round, lost>>

\* The process ends; the keys are derived again and the coins scanned for.
EngineRestarts ==
    /\ Mishap
    /\ utxos' = <<>> /\ cursor' = 0 /\ funding' = NoFunding /\ fanout' = 0
    /\ inflight' = <<>> /\ seen_height' = 0
    /\ doing' = "idle" /\ round' = Idle /\ stale' = TRUE
    /\ lost' = lost \cup Unseen(tx)
    /\ UNCHANGED <<owner, node>>

---------------------------------------------------------------------------
EngineInit ==
    /\ owner \in {"output", "floor", "burst"}
    /\ tx = <<>> /\ height = 1
    /\ utxos = <<>> /\ cursor = 0 /\ funding = NoFunding /\ fanout = 0
    /\ inflight = <<>> /\ seen_height = 0
    /\ doing = "idle" /\ round = Idle /\ stale = TRUE
    /\ mishaps = 0 /\ lost = {}

EngineStep ==
    \E mode \in Modes :
        \/ OutputRound(mode) \/ SendShape(mode) \/ EndOutputRound
        \/ Bump(mode) \/ EndBump
        \/ HarvestMinedFills(mode) \/ FundPool(mode) \/ SendBatch(mode) \/ EndFloorRound
        \/ ReconcileScan(mode) \/ ReconcileHeight(mode)
        \/ BeginPrepare \/ PrepareBurst(mode) \/ PrepareManualBurst(mode)
        \/ SpamBurst(mode) \/ EndSpamBurst(mode)
        \/ Interrupted

EngineNext ==
    \/ EngineStep
    \/ Mine \/ NodeEvicts \/ ChainMutated \/ ReconciliationAsked \/ EngineRestarts

EngineSpec == EngineInit /\ [][EngineNext]_engineVars

---------------------------------------------------------------------------
Coin == (1 .. MaxTxs) \X (1 .. Fanout + FloorTarget + BurstTxs + ChunkOutputs)

\* Every variable keeps its type; the round robin points into the list, and no
\* more fills are believed to stand than the floor asks for.
EngineTypeOK ==
    /\ owner \in {"output", "floor", "burst"}
    /\ Len(tx) <= MaxTxs
    /\ height \in Nat /\ seen_height \in Nat /\ mishaps \in 0 .. MaxMishaps
    /\ Range(utxos) \subseteq Coins(tx) /\ Range(inflight) \subseteq Coins(tx)
    /\ cursor < Len(utxos) \/ cursor = 0
    /\ funding.txid \in 0 .. Len(tx) /\ fanout \in 0 .. Len(tx)
    /\ Len(inflight) <= FloorTarget
    /\ doing \in {"idle", "send", "bump", "pool", "batch", "height", "prepare"}
    /\ stale \in BOOLEAN
    /\ lost \subseteq Coin

\* The fan-out toward the preferred number of branches never takes a branch a
\* round needs: as many stay usable as the call found, or at least the minimum
\* it asked for (branch_fanout_candidates, ensure_funds).  The second part of
\* a burst asks for what is left of it, and finds the reconciled list.
FanoutKeepsMinimum ==
    [][fanout' \notin {0, fanout} /\ owner # "floor" =>
         LET found == IF doing = "send" THEN Reconciled(Now, "ok") ELSE Now
             need == IF owner = "output" THEN MinOf(Share, Fanout)
                     ELSE IF doing = "send" THEN MinOf(round.left, BurstTxs) ELSE BurstTxs
         IN  Usable(Now)' >= MinOf(need, Usable(found))]_engineVars

\* Replacing a transaction by one with a higher fee never takes with it a
\* transaction the engine knows to have chained off it (bump_spam_txs).
BumpOrphansNothing ==
    [][doing = "bump" /\ Len(tx') > Len(tx) => \A i \in DOMAIN tx :
         tx[i].state # "gone" /\ tx'[i].state = "gone" =>
             \A k \in DOMAIN tx[i].outs : \A j \in Spenders(tx, <<i, k>>) :
                 <<j, 1>> \in lost]_engineVars

\* Neither of the two takes a branch away from the rounds.
BranchesKept == FanoutKeepsMinimum /\ BumpOrphansNothing

\* Every fill spends a confirmed coin, so it is a package of its own and fits
\* the gaps of a block (floor_round).
FillsStandAlone ==
    [][\A i \in DOMAIN tx' \ DOMAIN tx :
         tx'[i].kind = "fill" => \A c \in tx'[i].ins : tx'[c[1]].state = "mined"]_engineVars

\* No coin falls out of the books: a confirmed coin that nothing spends is
\* ready to use, a fill on its way back, part of the pending funding or
\* fan-out, or was hidden from the engine (harvest_mined_fills,
\* advance_branch_provisioning, advance_pool_provisioning, reconcile).
CoinsAccounted ==
    ~stale => Scanned(tx) \subseteq
                  Range(utxos) \cup Range(inflight) \cup lost
                    \cup {c \in Coins(tx) : c[1] \in {funding.txid, fanout}}

\* The worker never waits for a funding or a fan-out that a chain job has
\* undone: once reconciled, what is pending is in the mempool or confirmed.
\* Otherwise the engine would start no other one for ever (reconcile,
\* funding_alive, fanout_alive).
PendingIsAlive ==
    owner # "burst" /\ ~stale =>
        /\ funding # NoFunding => Live(tx, funding.txid)
        /\ fanout # 0 => Live(tx, fanout)

\* What holds of the engine's books in every state.
EngineInvariant == EngineTypeOK /\ CoinsAccounted /\ PendingIsAlive

\* The following three do not hold (see README, Disagreements).
\* What the comment on burst_required_branches says of a burst: it spends
\* confirmed branches and does not reuse unconfirmed ones.
BurstOnConfirmedBranches ==
    [][\A i \in DOMAIN tx' \ DOMAIN tx :
         owner = "burst" /\ tx'[i].kind = "spam"
             => \A c \in tx'[i].ins : tx'[c[1]].state = "mined"]_engineVars

\* What the comment on harvest_mined_fills says: a mined fill is never missed,
\* whatever was being done when its block came.
MinedFillsSeen ==
    \A i \in DOMAIN inflight :
        tx[inflight[i][1]].state = "mined" /\ ~stale => tx[inflight[i][1]].at > seen_height

\* What the comment on ensure_funds says: the usable branches are independent.
BranchesIndependent == owner # "floor" => IsInjective(utxos)
=============================================================================
