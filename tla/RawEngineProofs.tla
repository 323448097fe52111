-------------------------- MODULE RawEngineProofs --------------------------
(***************************************************************************)
(* Theorems about the raw transaction engine, for every size of rounds,    *)
(* fan-outs, batches and bursts, and any number of failed or unanswered    *)
(* RPCs, evictions, undone blocks, restarts and interruptions.             *)
(*                                                                         *)
(* The argument.  A ledger (Ledger) is what the node can have come to: a   *)
(* transaction spends outputs of earlier ones that live as long as it      *)
(* does. It survives submissions (LedgerGrows), evictions of a             *)
(* transaction with its family (GoneKeeps), blocks (MinedKeeps) and        *)
(* undone blocks (BackKeeps).  The engine's books (Books) hold coins of    *)
(* that ledger, and a pending funding and fan-out of the right kinds.      *)
(* Provisioning keeps them (Keeps), and keeps every unspent coin in sight  *)
(* (Accounted): a helper that takes a coin from the list puts what it      *)
(* became into the list, into what is pending, or among the coins that a   *)
(* lost answer hid.  The rest of EngineInv says who may do what            *)
(* (WhoDoes); that no output transaction merges coins (Shapes), so that    *)
(* the family a fee bump throws out frees no coin of another branch; and   *)
(* that what a round has sent is younger than what is pending              *)
(* (SentLater), so that a bump never replaces a pending fan-out.  An       *)
(* engine that missed an eviction or a reorg may have lost track until it  *)
(* has reconciled (Reconciliation).                                        *)
(*                                                                         *)
(* That a fan-out leaves a round its branches is an argument about one     *)
(* call: confirming the pending funding and fan-out takes no usable branch *)
(* away (Continues), and the split takes one of more than the minimum, or  *)
(* the funding that has just come on top (LeavesMinimum).  That a fee bump *)
(* orphans nothing the engine knows of needs more of the states: a listed  *)
(* change that is spent all the same is spent by one transaction only,     *)
(* whose answer was lost and from which nothing spends (Tips).             *)
(***************************************************************************)
EXTENDS RawEngine, ReorgProofs

(***************************************************************************)
(* The node's transactions.                                                *)
(***************************************************************************)
\* The kinds of transactions.
Kinds == {"fund", "fan", "spam", "fill"}

\* A transaction has at most this many outputs.
MaxOuts == Fanout + FloorTarget + BurstTxs + ChunkOutputs

\* A coin is an output of a transaction: its number and the place of the output.
Place == Nat \X Nat

\* What is known of a transaction.
TxRecord ==
  [kind : Kinds, ins : SUBSET Place, outs : Seq(Nat), rbf : BOOLEAN,
   state : {"mempool", "mined", "gone"}, at : Nat]

\* A transaction spends outputs of earlier ones and has its kind's outputs;
\* what it spends from is alive, and mined no later, as long as it is.
Outs(t) ==
  \A i \in DOMAIN t :
    /\ Len(t[i].outs) \in 1 .. MaxOuts
    /\ t[i].kind \in {"fund", "spam"} => Len(t[i].outs) = 1
    /\ t[i].kind = "fund" => t[i].ins = {}

\* Inputs exist before, live while their spender does, and are mined no later.
Spends(t) ==
  \A i \in DOMAIN t : \A c \in t[i].ins :
    /\ c \in Coins(t) /\ c[1] < i
    /\ Live(t, i) => Live(t, c[1])
    /\ t[i].state = "mined" => t[c[1]].state = "mined" /\ t[c[1]].at <= t[i].at

\* A list of transactions the node can have come to.
Ledger(t) == t \in Seq(TxRecord) /\ Outs(t) /\ Spends(t)

\* No transaction is mined above the tip.
Dated(t, h) == \A i \in DOMAIN t : t[i].state = "mined" => t[i].at <= h

\* The coins no live transaction spends.
Unspent(t) == {c \in Coins(t) : TxOutWithMempool(t, c)}

\* Every transaction spends at most one coin.
OneInput(t) == \A i \in DOMAIN t : \A c, d \in t[i].ins : c = d

\* What the constants are.
LEMMA EngineConstants ==
  /\ Share \in Nat /\ Fanout \in Nat /\ Replaces \in Nat /\ FloorTarget \in Nat
  /\ BatchSize \in Nat /\ ChunkOutputs \in Nat /\ BurstTxs \in Nat /\ BranchMin \in Nat
  /\ Pull \in Nat /\ MaxTxs \in Nat /\ MaxMishaps \in Nat
  /\ Share > 0 /\ Fanout > 0 /\ FloorTarget > 0 /\ BatchSize > 0 /\ ChunkOutputs > 0
  /\ BurstTxs > 0 /\ BranchMin > 0 /\ Pull > 0
BY RawEngineAssumption

\* The coins of a list of transactions.
LEMMA CoinIs ==
  ASSUME NEW t, t \in Seq(TxRecord)
  PROVE  /\ \A c \in Coins(t) : /\ c = <<c[1], c[2]>> /\ c[1] \in DOMAIN t
                                /\ c[2] \in 1 .. Len(t[c[1]].outs) /\ c \in Place
         /\ \A i \in DOMAIN t : \A k \in 1 .. Len(t[i].outs) : <<i, k>> \in Coins(t)
<1>1. \A i \in DOMAIN t : t[i] \in TxRecord /\ i \in Nat OBVIOUS
<1>2. \A i \in DOMAIN t : DOMAIN t[i].outs = 1 .. Len(t[i].outs)
  BY <1>1 DEF TxRecord
<1>3. \A i \in DOMAIN t : \A k \in 1 .. Len(t[i].outs) : k \in Nat
  BY <1>1 DEF TxRecord
<1>4. \A c : c \in Coins(t) <=> \E i \in DOMAIN t : \E k \in 1 .. Len(t[i].outs) : c = <<i, k>>
  BY <1>2 DEF Coins
<1> QED BY <1>1, <1>3, <1>4 DEF Place

\* u is t with one more transaction r.
Grows(t, u, r) ==
  /\ u \in Seq(TxRecord) /\ Len(u) = Len(t) + 1 /\ u[Len(u)] = r
  /\ \A i \in DOMAIN t : i \in DOMAIN u /\ u[i] = t[i]
  /\ \A i \in DOMAIN u : i = Len(u) \/ i \in DOMAIN t

\* The coins of transaction n.
NewCoins(n, outs) == {<<n, k>> : k \in 1 .. Len(outs)}

\* What the node knows after it accepted a transaction.
LEMMA AcceptedGrows ==
  ASSUME NEW t, t \in Seq(TxRecord), NEW sort \in Kinds, NEW ins \in SUBSET Place,
         NEW outs \in Seq(Nat), NEW rbf \in BOOLEAN, NEW u, u = Accepted(t, sort, ins, outs, rbf)
  PROVE  /\ Grows(t, u, u[Len(u)]) /\ Len(t) \in Nat
         /\ u[Len(u)].kind = sort /\ u[Len(u)].ins = ins /\ u[Len(u)].outs = outs
         /\ u[Len(u)].rbf = rbf /\ u[Len(u)].state = "mempool" /\ u[Len(u)].at = 0
         /\ u[Len(u)] \in TxRecord
<1> DEFINE r == [kind |-> sort, ins |-> ins, outs |-> outs, rbf |-> rbf,
                 state |-> "mempool", at |-> 0]
<1>1. r \in TxRecord BY DEF TxRecord
<1>2. u = Append(t, r) BY DEF Accepted
<1>3. /\ r.kind = sort /\ r.ins = ins /\ r.outs = outs /\ r.rbf = rbf
      /\ r.state = "mempool" /\ r.at = 0
  OBVIOUS
<1> HIDE DEF r
<1>4. Grows(t, u, r) /\ Len(t) \in Nat
  BY <1>1, <1>2 DEF Grows
<1>5. u[Len(u)] = r BY <1>4 DEF Grows
<1> QED BY <1>1, <1>3, <1>4, <1>5

\* Its coins are new, and those it spends are spent.
LEMMA GrowsCoins ==
  ASSUME NEW t, Ledger(t), NEW u, NEW r, r \in TxRecord, Grows(t, u, r),
         r.state = "mempool", r.ins \subseteq Coins(t)
  PROVE  /\ Coins(u) = Coins(t) \cup NewCoins(Len(t) + 1, r.outs)
         /\ Unspent(u) = (Unspent(t) \ r.ins) \cup NewCoins(Len(t) + 1, r.outs)
         /\ \A i \in DOMAIN t : Live(u, i) <=> Live(t, i)
         /\ Live(u, Len(t) + 1)
         /\ \A c \in Coins(t) : c \notin NewCoins(Len(t) + 1, r.outs)
<1> DEFINE n == Len(t) + 1
<1>0. /\ t \in Seq(TxRecord)
      /\ \A i \in DOMAIN t : \A c \in t[i].ins : c \in Coins(t)
  BY DEF Ledger, Spends
<1>1. /\ n \in Nat /\ n = Len(u) /\ n \in DOMAIN u /\ n \notin DOMAIN t /\ u[n] = r
      /\ \A i \in DOMAIN t : i \in DOMAIN u /\ u[i] = t[i] /\ i # n
      /\ \A i \in DOMAIN u : i = n \/ i \in DOMAIN t
  BY <1>0 DEF Grows
<1>2. \A c \in NewCoins(n, r.outs) : c[1] = n BY DEF NewCoins
<1> HIDE DEF n
<1>3. \A i \in DOMAIN t : Live(u, i) <=> Live(t, i) BY <1>1 DEF Live
<1>4. Live(u, n) BY <1>1 DEF Live
<1>5. \A c \in Coins(t) : c[1] \in DOMAIN t /\ c \notin NewCoins(n, r.outs)
  BY <1>0, <1>1, <1>2, CoinIs
<1>6. Coins(u) = Coins(t) \cup NewCoins(n, r.outs)
  <2>1. \A i \in DOMAIN u : DOMAIN u[i].outs = 1 .. Len(u[i].outs) BY DEF Grows, TxRecord
  <2>2. Coins(u) = UNION {{<<i, k>> : k \in 1 .. Len(u[i].outs)} : i \in DOMAIN u}
    BY <2>1 DEF Coins
  <2>3. \A i \in DOMAIN t : DOMAIN t[i].outs = 1 .. Len(t[i].outs) BY <1>0 DEF TxRecord
  <2>4. Coins(t) = UNION {{<<i, k>> : k \in 1 .. Len(t[i].outs)} : i \in DOMAIN t}
    BY <2>3 DEF Coins
  <2> QED BY <1>1, <2>2, <2>4 DEF NewCoins
<1>7. ASSUME NEW c, c \in Coins(t) PROVE TxOutWithMempool(u, c) <=> TxOutWithMempool(t, c) /\ c \notin r.ins
  <2>1. \A i \in DOMAIN t : i \in Spenders(u, c) <=> i \in Spenders(t, c)
    BY <1>1, <1>3 DEF Spenders
  <2>2. n \in Spenders(u, c) <=> c \in r.ins BY <1>1, <1>4 DEF Spenders
  <2>3. \A i \in Spenders(u, c) : i = n \/ i \in DOMAIN t BY <1>1 DEF Spenders
  <2>4. Spenders(u, c) = {} <=> Spenders(t, c) = {} /\ c \notin r.ins
    <3>1. \A i \in Spenders(t, c) : i \in DOMAIN t BY DEF Spenders
    <3> QED BY <2>1, <2>2, <2>3, <3>1
  <2> QED BY <1>3, <1>5, <1>7, <2>4 DEF TxOutWithMempool
<1>8. ASSUME NEW c, c \in NewCoins(n, r.outs) PROVE TxOutWithMempool(u, c)
  <2>1. c[1] = n BY <1>2, <1>8
  <2>2. c \notin Coins(t) BY <1>5, <1>8
  <2>3. ASSUME NEW i, i \in DOMAIN u, Live(u, i), c \in u[i].ins PROVE FALSE
    <3>1. i = n BY <1>0, <1>1, <2>2, <2>3
    <3> QED BY <3>1, <2>3, <2>2, <1>1
  <2>4. Spenders(u, c) = {} BY <2>3 DEF Spenders
  <2> QED BY <2>1, <2>4, <1>4 DEF TxOutWithMempool
<1>9. Unspent(u) = (Unspent(t) \ r.ins) \cup NewCoins(n, r.outs)
  BY <1>6, <1>7, <1>8 DEF Unspent
<1> QED BY <1>3, <1>4, <1>5, <1>6, <1>9 DEF n

\* An accepted transaction leaves the list what it is.
LEMMA LedgerGrows ==
  ASSUME NEW t, Ledger(t), NEW u, NEW r, r \in TxRecord, Grows(t, u, r),
         r.state = "mempool", r.ins \subseteq Coins(t), \A c \in r.ins : Live(t, c[1]),
         Len(r.outs) \in 1 .. MaxOuts,
         r.kind \in {"fund", "spam"} => Len(r.outs) = 1,
         r.kind = "fund" => r.ins = {}
  PROVE  Ledger(u)
<1> DEFINE n == Len(t) + 1
<1>0. /\ t \in Seq(TxRecord)
      /\ \A i \in DOMAIN t : \A c \in t[i].ins : c \in Coins(t)
  BY DEF Ledger, Spends
<1>1. /\ n \in Nat /\ n = Len(u) /\ n \in DOMAIN u /\ n \notin DOMAIN t /\ u[n] = r
      /\ \A i \in DOMAIN t : i \in DOMAIN u /\ u[i] = t[i] /\ i # n /\ i < n
      /\ \A i \in DOMAIN u : i = n \/ i \in DOMAIN t
  BY <1>0 DEF Grows
<1> HIDE DEF n
<1>2. \A c \in Coins(t) : c[1] \in DOMAIN t /\ c \in Coins(u)
  BY <1>0, CoinIs, GrowsCoins
<1>3. \A i \in DOMAIN t : Live(u, i) <=> Live(t, i) BY <1>1 DEF Live
<1>4. u \in Seq(TxRecord) BY DEF Grows
<1>5. Outs(u) BY <1>1 DEF Outs, Ledger
<1>6. ASSUME NEW i, i \in DOMAIN u, NEW c \in u[i].ins
      PROVE  /\ c \in Coins(u) /\ c[1] < i
             /\ Live(u, i) => Live(u, c[1])
             /\ u[i].state = "mined" => u[c[1]].state = "mined" /\ u[c[1]].at <= u[i].at
  <2>1. CASE i = n
    <3>1. c \in Coins(t) /\ c \in r.ins BY <1>1, <2>1
    <3> QED BY <1>1, <1>2, <1>3, <2>1, <3>1
  <2>2. CASE i \in DOMAIN t
    <3>1. u[i] = t[i] /\ c \in t[i].ins /\ c \in Coins(t) BY <1>0, <1>1, <2>2
    <3>2. u[c[1]] = t[c[1]] BY <1>1, <1>2, <3>1
    <3>3. /\ c[1] < i
          /\ Live(t, i) => Live(t, c[1])
          /\ t[i].state = "mined" => t[c[1]].state = "mined" /\ t[c[1]].at <= t[i].at
      BY <2>2, <3>1 DEF Ledger, Spends
    <3> QED BY <1>2, <1>3, <2>2, <3>1, <3>2, <3>3
  <2> QED BY <1>1, <1>6, <2>1, <2>2
<1>7. Spends(u) BY <1>6 DEF Spends
<1> QED BY <1>4, <1>5, <1>7 DEF Ledger

\* A mempool transaction has no date, and one more input makes no difference.
LEMMA DatedGrows ==
  ASSUME NEW t, t \in Seq(TxRecord), NEW u, NEW r, Grows(t, u, r), r.state = "mempool"
  PROVE  /\ \A h : Dated(t, h) => Dated(u, h)
         /\ (\A c, d \in r.ins : c = d) /\ OneInput(t) => OneInput(u)
<1>1. \A i \in DOMAIN u : (i = Len(u) /\ u[i] = r) \/ (i \in DOMAIN t /\ u[i] = t[i])
  BY DEF Grows
<1>2. ASSUME NEW h, Dated(t, h) PROVE Dated(u, h)
  BY <1>1, <1>2 DEF Dated
<1>3. ASSUME \A c, d \in r.ins : c = d, OneInput(t) PROVE OneInput(u)
  BY <1>1, <1>3 DEF OneInput
<1> QED BY <1>2, <1>3

(***************************************************************************)
(* What the node does to them: evictions, blocks, reorganisations.         *)
(***************************************************************************)
\* F is what of S and of its descendants is alive.
IsFamily(F, t, S) ==
  /\ \A i \in F : i \in DOMAIN t /\ Live(t, i)
  /\ \A i \in DOMAIN t : Live(t, i) /\ i \in S => i \in F
  /\ \A i \in DOMAIN t : Live(t, i) /\ (\E c \in t[i].ins : c[1] \in F) => i \in F
  /\ \A i \in F : i \in S \/ \E c \in t[i].ins : c[1] \in F

\* FamilyOf is the family: descendants included, live, and closed.
LEMMA FamilyFacts ==
  ASSUME NEW t, Ledger(t), NEW S
  PROVE  IsFamily(FamilyOf(t, S), t, S)
<1> DEFINE Solves(f) == f = [i \in DOMAIN t |-> i \in S \/ \E c \in t[i].ins : f[c[1]]]
           n == Len(t)
           A == [x \in 1 .. n |-> IF x \in S THEN {1} ELSE {}]
           P == [x \in 1 .. n |-> {c[1] : c \in t[x].ins}]
<1>1. n \in Nat /\ DOMAIN t = 1 .. n BY DEF Ledger
<1>2. \A i \in DOMAIN t : \A c \in t[i].ins : c[1] \in DOMAIN t /\ c[1] < i
  BY CoinIs DEF Ledger, Spends
<1>3. \A x \in 1 .. n : P[x] \subseteq 1 .. x - 1
  <2>1. ASSUME NEW x \in 1 .. n, NEW c \in t[x].ins PROVE c[1] \in 1 .. x - 1
    BY <1>1, <1>2
  <2> QED BY <2>1
<1>4. PICK g : Recurs(g, n, A, P)
  <2> HIDE DEF n, A, P
  <2> QED BY <1>1, <1>3, RecursionExists
<1> DEFINE f == [i \in DOMAIN t |-> g[i] # {}]
<1>5. ASSUME NEW i \in DOMAIN t
      PROVE  (g[i] # {}) <=> (i \in S \/ \E c \in t[i].ins : g[c[1]] # {})
  <2>1. g[i] = A[i] \cup UNION {g[p] : p \in P[i]}
    <3> HIDE DEF A, P, n
    <3> QED BY <1>1, <1>4 DEF Recurs
  <2>2. P[i] = {c[1] : c \in t[i].ins} /\ A[i] = IF i \in S THEN {1} ELSE {} BY <1>1
  <2> HIDE DEF A, P
  <2> QED BY <2>1, <2>2
<1>6. Solves(f)
  <2>1. \A i \in DOMAIN t : f[i] <=> g[i] # {} OBVIOUS
  <2>2. \A i \in DOMAIN t : f[i] \in BOOLEAN OBVIOUS
  <2>3. \A i \in DOMAIN t : (\E c \in t[i].ins : f[c[1]]) <=> (\E c \in t[i].ins : g[c[1]] # {})
    <3> HIDE DEF f
    <3> QED BY <1>2, <2>1
  <2>4. \A i \in DOMAIN t : f[i] = (i \in S \/ \E c \in t[i].ins : f[c[1]])
    <3> HIDE DEF f
    <3>1. \A i \in DOMAIN t : f[i] <=> (i \in S \/ \E c \in t[i].ins : f[c[1]])
      BY <1>5, <2>1, <2>3
    <3> QED BY <2>2, <3>1, Zenon
  <2>5. f = [i \in DOMAIN t |-> f[i]] OBVIOUS
  <2> HIDE DEF f
  <2>6. f = [i \in DOMAIN t |-> i \in S \/ \E c \in t[i].ins : f[c[1]]] BY <2>4, <2>5, Zenon
  <2> QED BY <2>6
<1> DEFINE below == CHOOSE h : Solves(h)
<1>7. Solves(below)
  <2> HIDE DEF f, Solves
  <2> QED BY <1>6
<1>8. FamilyOf(t, S) = {i \in DOMAIN t : Live(t, i) /\ below[i]} BY DEF FamilyOf
<1>9. \A i \in DOMAIN t : below[i] <=> (i \in S \/ \E c \in t[i].ins : below[c[1]])
  <2> HIDE DEF below
  <2> QED BY <1>7, Zenon
<1> HIDE DEF below
<1>10. \A i \in DOMAIN t : i \in FamilyOf(t, S) <=> Live(t, i) /\ below[i] BY <1>8
<1>11. \A i \in DOMAIN t : Live(t, i) => \A c \in t[i].ins : Live(t, c[1]) /\ c[1] \in DOMAIN t
  BY <1>2 DEF Ledger, Spends
<1> QED BY <1>8, <1>9, <1>10, <1>11, Zenon DEF IsFamily

\* The fields of a transaction.
LEMMA TxFields ==
  ASSUME NEW t, t \in Seq(TxRecord)
  PROVE  \A i \in DOMAIN t : t[i] \in TxRecord /\ t[i].at \in Nat /\ i \in Nat
<1>1. \A i \in DOMAIN t : t[i] \in TxRecord /\ i \in Nat OBVIOUS
<1> QED BY <1>1 DEF TxRecord

\* u has the transactions of t, in other states.
Changed(t, u) ==
  /\ u \in Seq(TxRecord) /\ Len(u) = Len(t) /\ DOMAIN u = DOMAIN t
  /\ \A i \in DOMAIN t : /\ u[i].kind = t[i].kind /\ u[i].ins = t[i].ins
                         /\ u[i].outs = t[i].outs /\ u[i].rbf = t[i].rbf

\* A change of state leaves the coins and their spenders as they were.
LEMMA ChangedFacts ==
  ASSUME NEW t, t \in Seq(TxRecord), NEW u, Changed(t, u)
  PROVE  /\ Coins(u) = Coins(t)
         /\ Outs(t) => Outs(u)
         /\ OneInput(t) => OneInput(u)
<1>1. Coins(u) = Coins(t) BY DEF Coins, Changed
<1>2. ASSUME Outs(t) PROVE Outs(u) BY <1>2 DEF Outs, Changed
<1>3. ASSUME OneInput(t) PROVE OneInput(u) BY <1>3 DEF OneInput, Changed
<1> QED BY <1>1, <1>2, <1>3

\* r has the transactions of t in another state.
Restates(t, r) ==
  \A i \in DOMAIN t : /\ r[i] \in TxRecord /\ r[i].kind = t[i].kind /\ r[i].ins = t[i].ins
                      /\ r[i].outs = t[i].outs /\ r[i].rbf = t[i].rbf

\* t with those of r in the places F.
Replaced(t, F, r) == [i \in DOMAIN t |-> IF i \in F THEN r[i] ELSE t[i]]

\* A change of state of some transactions.
LEMMA SomeChange ==
  ASSUME NEW t, t \in Seq(TxRecord), NEW F, NEW r, Restates(t, r)
  PROVE  Changed(t, Replaced(t, F, r))
<1> DEFINE u == Replaced(t, F, r)
<1>0. u = [i \in DOMAIN t |-> IF i \in F THEN r[i] ELSE t[i]] BY DEF Replaced
<1> USE DEF Restates
<1> HIDE DEF u
<1>1. Len(t) \in Nat /\ DOMAIN t = 1 .. Len(t) /\ \A i \in 1 .. Len(t) : t[i] \in TxRecord OBVIOUS
<1>2. \A i \in 1 .. Len(t) : u[i] \in TxRecord BY <1>0, <1>1
<1>3. u \in [1 .. Len(t) -> TxRecord] BY <1>0, <1>1, <1>2
<1>4. u \in Seq(TxRecord) /\ Len(u) = Len(t) BY <1>1, <1>3
<1>5. DOMAIN u = DOMAIN t BY <1>0
<1>6. \A i \in DOMAIN t : u[i] = IF i \in F THEN r[i] ELSE t[i] BY <1>0
<1>7. Changed(t, u) BY <1>4, <1>5, <1>6 DEF Changed
<1> QED BY <1>7 DEF u

\* What Gone changes.
LEMMA GoneIs ==
  ASSUME NEW t, t \in Seq(TxRecord), NEW F, NEW u, u = Gone(t, F)
  PROVE  /\ Changed(t, u)
         /\ \A i \in DOMAIN t : i \notin F => u[i] = t[i]
         /\ \A i \in DOMAIN t : i \in F => u[i].state = "gone"
<1> DEFINE r == [i \in DOMAIN t |-> [t[i] EXCEPT !.state = "gone"]]
<1>1. u = [i \in DOMAIN t |-> IF i \in F THEN r[i] ELSE t[i]] BY DEF Gone
<1>2. \A i \in DOMAIN t : t[i] \in TxRecord OBVIOUS
<1>3. \A i \in DOMAIN t : /\ r[i] \in TxRecord /\ r[i].kind = t[i].kind /\ r[i].ins = t[i].ins
                          /\ r[i].outs = t[i].outs /\ r[i].rbf = t[i].rbf
                          /\ r[i].state = "gone"
  BY <1>2 DEF TxRecord
<1> HIDE DEF r
<1>4. Changed(t, u)
  <2>1. Restates(t, r) BY <1>3 DEF Restates
  <2>2. u = Replaced(t, F, r) BY <1>1 DEF Replaced
  <2> QED BY <2>1, <2>2, SomeChange
<1>5. \A i \in DOMAIN t : u[i] = IF i \in F THEN r[i] ELSE t[i] BY <1>1
<1> QED BY <1>3, <1>4, <1>5

\* The node forgets a family: the rest is as before, and only what the family
\* spent is unspent again.
Forgets(t, u, F) ==
  /\ Ledger(u) /\ Changed(t, u) /\ Coins(u) = Coins(t)
  /\ \A i \in DOMAIN t : Live(u, i) <=> Live(t, i) /\ i \notin F
  /\ \A i \in DOMAIN t : i \notin F => u[i] = t[i]
  /\ Unspent(u) \subseteq Unspent(t) \cup UNION {t[j].ins : j \in F}
  /\ \A c \in Unspent(u) : c[1] \notin F
  /\ \A h : Dated(t, h) => Dated(u, h)
  /\ OneInput(t) => OneInput(u)

\* Evicting a whole family leaves a ledger.
LEMMA GoneKeeps ==
  ASSUME NEW t, Ledger(t), NEW S, NEW F, IsFamily(F, t, S), NEW u, u = Gone(t, F)
  PROVE  Forgets(t, u, F)
<1>0. t \in Seq(TxRecord) BY DEF Ledger
<1>1. /\ Changed(t, u)
      /\ \A i \in DOMAIN t : i \notin F => u[i] = t[i]
      /\ \A i \in DOMAIN t : i \in F => u[i].state = "gone"
  BY <1>0, GoneIs
<1>2. Coins(u) = Coins(t) /\ Outs(u) /\ (OneInput(t) => OneInput(u))
  BY <1>0, <1>1, ChangedFacts DEF Ledger
<1>3. \A i \in DOMAIN t : Live(u, i) <=> Live(t, i) /\ i \notin F
  BY <1>1 DEF Live
<1>4. \A i \in DOMAIN t : \A c \in t[i].ins : c[1] \in DOMAIN t /\ c \in Coins(t)
  BY <1>0, CoinIs DEF Ledger, Spends
<1>5. ASSUME NEW i \in DOMAIN u, NEW c \in u[i].ins
      PROVE  /\ c \in Coins(u) /\ c[1] < i
             /\ Live(u, i) => Live(u, c[1])
             /\ u[i].state = "mined" => u[c[1]].state = "mined" /\ u[c[1]].at <= u[i].at
  <2>1. i \in DOMAIN t /\ c \in t[i].ins BY <1>1 DEF Changed
  <2>2. /\ c \in Coins(t) /\ c[1] < i
        /\ Live(t, i) => Live(t, c[1])
        /\ t[i].state = "mined" => t[c[1]].state = "mined" /\ t[c[1]].at <= t[i].at
    BY <2>1 DEF Ledger, Spends
  <2>3. Live(t, i) /\ c[1] \in F => i \in F BY <2>1 DEF IsFamily
  <2>4. c[1] \in DOMAIN t BY <1>4, <2>1
  <2>5. Live(u, i) => Live(u, c[1]) BY <1>3, <2>1, <2>2, <2>3, <2>4
  <2>6. ASSUME u[i].state = "mined" PROVE u[c[1]].state = "mined" /\ u[c[1]].at <= u[i].at
    <3>1. i \notin F /\ u[i] = t[i] /\ t[i].state = "mined" BY <1>1, <2>1, <2>6
    <3>2. Live(t, i) BY <3>1 DEF Live
    <3>3. u[c[1]] = t[c[1]] BY <1>1, <2>3, <2>4, <3>1, <3>2
    <3> QED BY <2>2, <3>1, <3>3
  <2> QED BY <1>2, <2>2, <2>5, <2>6
<1>6. Ledger(u) BY <1>1, <1>2, <1>5 DEF Ledger, Spends, Changed
<1>7. ASSUME NEW c \in Unspent(u)
      PROVE  c[1] \notin F /\ c \in Unspent(t) \cup UNION {t[j].ins : j \in F}
  <2>1. c \in Coins(t) /\ Live(u, c[1]) /\ Spenders(u, c) = {}
    BY <1>2 DEF Unspent, TxOutWithMempool
  <2>2. c[1] \in DOMAIN t BY <1>0, <2>1, CoinIs
  <2>3. c[1] \notin F /\ Live(t, c[1]) BY <1>3, <2>1, <2>2
  <2>4. CASE Spenders(t, c) = {} BY <2>1, <2>3, <2>4 DEF Unspent, TxOutWithMempool
  <2>5. CASE Spenders(t, c) # {}
    <3>1. PICK j \in DOMAIN t : Live(t, j) /\ c \in t[j].ins BY <2>5 DEF Spenders
    <3>2. j \in DOMAIN u /\ c \in u[j].ins BY <1>1, <3>1 DEF Changed
    <3>3. ~Live(u, j) BY <2>1, <3>2 DEF Spenders
    <3>4. j \in F BY <1>3, <3>1, <3>3
    <3> QED BY <2>3, <3>1, <3>4
  <2> QED BY <2>4, <2>5
<1>8. ASSUME NEW h, Dated(t, h) PROVE Dated(u, h)
  BY <1>1, <1>8 DEF Dated, Changed
<1> QED BY <1>1, <1>2, <1>3, <1>6, <1>7, <1>8 DEF Forgets

\* A block or its removal leaves what is alive alive.
Moves(t, u) ==
  /\ Ledger(u) /\ Changed(t, u) /\ Coins(u) = Coins(t)
  /\ \A i \in DOMAIN t : Live(u, i) <=> Live(t, i)
  /\ Unspent(u) = Unspent(t)
  /\ OneInput(t) => OneInput(u)

\* What is spent depends on who lives only.
LEMMA SameLife ==
  ASSUME NEW t, t \in Seq(TxRecord), NEW u, Changed(t, u),
         \A i \in DOMAIN t : Live(u, i) <=> Live(t, i)
  PROVE  Unspent(u) = Unspent(t)
<1>1. Coins(u) = Coins(t) BY ChangedFacts
<1>2. \A c \in Coins(t) : c[1] \in DOMAIN t BY CoinIs
<1>3. \A c : Spenders(u, c) = Spenders(t, c) BY DEF Spenders, Changed
<1>4. \A c \in Coins(t) : TxOutWithMempool(u, c) <=> TxOutWithMempool(t, c)
  BY <1>2, <1>3 DEF TxOutWithMempool
<1> QED BY <1>1, <1>4 DEF Unspent

\* A transaction with another state and date.
Moved(x, st, a) == [x EXCEPT !.state = st, !.at = a]

\* y is x in another state.
IsMoved(x, y, st, a) ==
  /\ y \in TxRecord /\ y.kind = x.kind /\ y.ins = x.ins
  /\ y.outs = x.outs /\ y.rbf = x.rbf /\ y.state = st /\ y.at = a

\* A transaction in another state is a transaction.
LEMMA TxMoved ==
  ASSUME NEW x \in TxRecord, NEW st \in {"mempool", "mined", "gone"}, NEW a \in Nat
  PROVE  IsMoved(x, Moved(x, st, a), st, a)
BY DEF TxRecord, Moved, IsMoved

\* So are all of a list.
LEMMA AllMoved ==
  ASSUME NEW t, t \in Seq(TxRecord), NEW st \in {"mempool", "mined", "gone"}, NEW a \in Nat
  PROVE  \A i \in DOMAIN t : IsMoved(t[i], Moved(t[i], st, a), st, a)
<1>1. \A i \in DOMAIN t : t[i] \in TxRecord OBVIOUS
<1> QED BY <1>1, TxMoved

\* What Mined changes.
LEMMA MinedIs ==
  ASSUME NEW t, t \in Seq(TxRecord), NEW X, NEW u, u = Mined(t, X), height \in Nat
  PROVE  /\ Changed(t, u)
         /\ \A i \in DOMAIN t : ~(t[i].state = "mempool" /\ i \notin X) => u[i] = t[i]
         /\ \A i \in DOMAIN t : t[i].state = "mempool" /\ i \notin X =>
              u[i].state = "mined" /\ u[i].at = height + 1
<1> DEFINE r == [i \in DOMAIN t |-> Moved(t[i], "mined", height + 1)]
           F == {i \in DOMAIN t : t[i].state = "mempool" /\ i \notin X}
<1>1. u = [i \in DOMAIN t |-> IF i \in F THEN r[i] ELSE t[i]] BY Zenon DEF Mined, Moved
<1>2. \A i \in DOMAIN t : t[i] \in TxRecord OBVIOUS
<1>3. \A i \in DOMAIN t : /\ r[i] \in TxRecord /\ r[i].kind = t[i].kind /\ r[i].ins = t[i].ins
                          /\ r[i].outs = t[i].outs /\ r[i].rbf = t[i].rbf
                          /\ r[i].state = "mined" /\ r[i].at = height + 1
  <2>1. height + 1 \in Nat OBVIOUS
  <2>2. \A i \in DOMAIN t : IsMoved(t[i], Moved(t[i], "mined", height + 1), "mined", height + 1)
    BY <2>1, AllMoved
  <2> QED BY <2>2 DEF IsMoved
<1>6. \A i \in DOMAIN t : i \in F <=> t[i].state = "mempool" /\ i \notin X OBVIOUS
<1> HIDE DEF r, F
<1>4. Changed(t, u)
  <2>1. Restates(t, r) BY <1>3 DEF Restates
  <2>2. u = Replaced(t, F, r) BY <1>1 DEF Replaced
  <2> QED BY <2>1, <2>2, SomeChange
<1>5. \A i \in DOMAIN t : u[i] = IF i \in F THEN r[i] ELSE t[i] BY <1>1
<1> QED BY <1>3, <1>4, <1>5, <1>6

\* A block takes the mempool but for a family.
LEMMA MinedKeeps ==
  ASSUME NEW t, Ledger(t), NEW S, NEW X, IsFamily(X, t, S),
         NEW u, u = Mined(t, X), height \in Nat, Dated(t, height)
  PROVE  /\ Moves(t, u) /\ Dated(u, height + 1)
         /\ \A i \in DOMAIN t : t[i].state = "mined" => u[i] = t[i]
<1>0. t \in Seq(TxRecord) BY DEF Ledger
<1>1. /\ Changed(t, u)
      /\ \A i \in DOMAIN t : ~(t[i].state = "mempool" /\ i \notin X) => u[i] = t[i]
      /\ \A i \in DOMAIN t : t[i].state = "mempool" /\ i \notin X =>
           u[i].state = "mined" /\ u[i].at = height + 1
  BY <1>0, MinedIs
<1>2. Coins(u) = Coins(t) /\ Outs(u) /\ (OneInput(t) => OneInput(u))
  BY <1>0, <1>1, ChangedFacts DEF Ledger
<1>3. \A i \in DOMAIN t : Live(u, i) <=> Live(t, i)
  BY <1>1 DEF Live
<1>4. \A i \in DOMAIN t : \A c \in t[i].ins : c[1] \in DOMAIN t /\ c \in Coins(t)
  BY <1>0, CoinIs DEF Ledger, Spends
<1>5. ASSUME NEW i \in DOMAIN u, NEW c \in u[i].ins
      PROVE  /\ c \in Coins(u) /\ c[1] < i
             /\ Live(u, i) => Live(u, c[1])
             /\ u[i].state = "mined" => u[c[1]].state = "mined" /\ u[c[1]].at <= u[i].at
  <2>1. i \in DOMAIN t /\ c \in t[i].ins BY <1>1 DEF Changed
  <2>2. /\ c \in Coins(t) /\ c[1] < i
        /\ Live(t, i) => Live(t, c[1])
        /\ t[i].state = "mined" => t[c[1]].state = "mined" /\ t[c[1]].at <= t[i].at
    BY <2>1 DEF Ledger, Spends
  <2>4. c[1] \in DOMAIN t BY <1>4, <2>1
  <2>5. Live(u, i) => Live(u, c[1]) BY <1>3, <2>1, <2>2, <2>4
  <2>6. ASSUME u[i].state = "mined" PROVE u[c[1]].state = "mined" /\ u[c[1]].at <= u[i].at
    <3>1. CASE t[i].state = "mempool" /\ i \notin X
      <4>1. Live(t, i) /\ Live(t, c[1]) BY <2>2, <3>1 DEF Live
      <4>2. c[1] \notin X BY <2>1, <3>1, <4>1 DEF IsFamily
      <4>3. u[i].at = height + 1 BY <1>1, <2>1, <3>1
      <4>4. CASE t[c[1]].state = "mempool" BY <1>1, <2>4, <4>2, <4>3, <4>4
      <4>5. CASE t[c[1]].state = "mined"
        <5>1. u[c[1]] = t[c[1]] BY <1>1, <2>4, <4>5
        <5>2. t[c[1]].at <= height BY <2>4, <4>5 DEF Dated
        <5>3. t[c[1]].at \in Nat BY <1>0, <2>4, TxFields
        <5> QED BY <4>3, <4>5, <5>1, <5>2, <5>3
      <4> QED BY <4>1, <4>4, <4>5 DEF Live
    <3>2. CASE ~(t[i].state = "mempool" /\ i \notin X)
      <4>1. u[i] = t[i] BY <1>1, <2>1, <3>2
      <4>2. t[c[1]].state = "mined" /\ t[c[1]].at <= t[i].at BY <2>2, <2>6, <4>1
      <4>3. u[c[1]] = t[c[1]] BY <1>1, <2>4, <4>2
      <4> QED BY <4>1, <4>2, <4>3
    <3> QED BY <3>1, <3>2
  <2> QED BY <1>2, <2>2, <2>5, <2>6
<1>6. Ledger(u) BY <1>1, <1>2, <1>5 DEF Ledger, Spends, Changed
<1>7. Unspent(u) = Unspent(t) BY <1>0, <1>1, <1>3, SameLife
<1>8. Dated(u, height + 1)
  <2>1. ASSUME NEW i \in DOMAIN u, u[i].state = "mined" PROVE u[i].at <= height + 1
    <3>1. i \in DOMAIN t /\ t[i].at \in Nat BY <1>0, <1>1, TxFields DEF Changed
    <3>2. CASE t[i].state = "mempool" /\ i \notin X BY <1>1, <3>1, <3>2
    <3>3. CASE ~(t[i].state = "mempool" /\ i \notin X)
      <4>1. u[i] = t[i] /\ t[i].at <= height BY <1>1, <2>1, <3>1, <3>3 DEF Dated
      <4> QED BY <3>1, <4>1
    <3> QED BY <3>2, <3>3
  <2> QED BY <2>1 DEF Dated
<1> QED BY <1>1, <1>2, <1>3, <1>6, <1>7, <1>8 DEF Moves

\* The latest block is taken off.
Top(t, h) == {i \in DOMAIN t : t[i].state = "mined" /\ t[i].at = h}

\* The transactions of F return to the mempool.
Back(t, F) ==
  [i \in DOMAIN t |-> IF i \in F THEN [t[i] EXCEPT !.state = "mempool", !.at = 0] ELSE t[i]]

\* What Back changes.
LEMMA BackIs ==
  ASSUME NEW t, t \in Seq(TxRecord), NEW F, NEW u, u = Back(t, F)
  PROVE  /\ Changed(t, u)
         /\ \A i \in DOMAIN t : i \notin F => u[i] = t[i]
         /\ \A i \in DOMAIN t : i \in F => u[i].state = "mempool"
<1> DEFINE r == [i \in DOMAIN t |-> Moved(t[i], "mempool", 0)]
<1>1. u = [i \in DOMAIN t |-> IF i \in F THEN r[i] ELSE t[i]] BY Zenon DEF Back, Moved
<1>2. \A i \in DOMAIN t : t[i] \in TxRecord OBVIOUS
<1>3. \A i \in DOMAIN t : /\ r[i] \in TxRecord /\ r[i].kind = t[i].kind /\ r[i].ins = t[i].ins
                          /\ r[i].outs = t[i].outs /\ r[i].rbf = t[i].rbf
                          /\ r[i].state = "mempool"
  <2>1. 0 \in Nat OBVIOUS
  <2>2. \A i \in DOMAIN t : IsMoved(t[i], Moved(t[i], "mempool", 0), "mempool", 0)
    BY <2>1, AllMoved
  <2> QED BY <2>2 DEF IsMoved
<1> HIDE DEF r
<1>4. Changed(t, u)
  <2>1. Restates(t, r) BY <1>3 DEF Restates
  <2>2. u = Replaced(t, F, r) BY <1>1 DEF Replaced
  <2> QED BY <2>1, <2>2, SomeChange
<1>5. \A i \in DOMAIN t : u[i] = IF i \in F THEN r[i] ELSE t[i] BY <1>1
<1> QED BY <1>3, <1>4, <1>5

\* Undoing the highest block leaves a ledger one block lower.
LEMMA BackKeeps ==
  ASSUME NEW t, Ledger(t), NEW h \in Nat, h > 0, Dated(t, h), NEW u, u = Back(t, Top(t, h))
  PROVE  Moves(t, u) /\ Dated(u, h - 1)
<1> DEFINE top == Top(t, h)
<1>0. t \in Seq(TxRecord) BY DEF Ledger
<1>1. /\ Changed(t, u)
      /\ \A i \in DOMAIN t : i \notin top => u[i] = t[i]
      /\ \A i \in DOMAIN t : i \in top => u[i].state = "mempool"
  BY <1>0, BackIs
<1>11. \A i \in DOMAIN t : i \in top <=> t[i].state = "mined" /\ t[i].at = h BY DEF Top
<1> HIDE DEF top
<1>2. Coins(u) = Coins(t) /\ Outs(u) /\ (OneInput(t) => OneInput(u))
  BY <1>0, <1>1, ChangedFacts DEF Ledger
<1>3. \A i \in DOMAIN t : Live(u, i) <=> Live(t, i)
  BY <1>1, <1>11 DEF Live
<1>4. \A i \in DOMAIN t : \A c \in t[i].ins : c[1] \in DOMAIN t /\ c \in Coins(t)
  BY <1>0, CoinIs DEF Ledger, Spends
<1>9. \A i \in DOMAIN t : t[i].at \in Nat BY <1>0, TxFields
<1>10. \A i \in DOMAIN t : u[i].state = "mined" => u[i] = t[i] /\ t[i].at < h
  BY <1>1, <1>9, <1>11 DEF Dated
<1>5. ASSUME NEW i \in DOMAIN u, NEW c \in u[i].ins
      PROVE  /\ c \in Coins(u) /\ c[1] < i
             /\ Live(u, i) => Live(u, c[1])
             /\ u[i].state = "mined" => u[c[1]].state = "mined" /\ u[c[1]].at <= u[i].at
  <2>1. i \in DOMAIN t /\ c \in t[i].ins BY <1>1 DEF Changed
  <2>2. /\ c \in Coins(t) /\ c[1] < i
        /\ Live(t, i) => Live(t, c[1])
        /\ t[i].state = "mined" => t[c[1]].state = "mined" /\ t[c[1]].at <= t[i].at
    BY <2>1 DEF Ledger, Spends
  <2>4. c[1] \in DOMAIN t BY <1>4, <2>1
  <2>5. Live(u, i) => Live(u, c[1]) BY <1>3, <2>1, <2>2, <2>4
  <2>6. ASSUME u[i].state = "mined" PROVE u[c[1]].state = "mined" /\ u[c[1]].at <= u[i].at
    <3>1. u[i] = t[i] /\ t[i].at < h BY <1>10, <2>1, <2>6
    <3>2. t[c[1]].state = "mined" /\ t[c[1]].at <= t[i].at BY <2>2, <2>6, <3>1
    <3>3. c[1] \notin top BY <1>9, <1>11, <2>1, <2>4, <3>1, <3>2
    <3>4. u[c[1]] = t[c[1]] BY <1>1, <2>4, <3>3
    <3> QED BY <3>1, <3>2, <3>4
  <2> QED BY <1>2, <2>2, <2>5, <2>6
<1>6. Ledger(u) BY <1>1, <1>2, <1>5 DEF Ledger, Spends, Changed
<1>7. Unspent(u) = Unspent(t) BY <1>0, <1>1, <1>3, SameLife
<1>8. Dated(u, h - 1) BY <1>1, <1>9, <1>10 DEF Dated, Changed
<1> QED BY <1>1, <1>2, <1>3, <1>6, <1>7, <1>8 DEF Moves

(***************************************************************************)
(* The engine's books.                                                     *)
(***************************************************************************)
EngineRec ==
  [tx : Seq(TxRecord), utxos : Seq(Place), cursor : Nat,
   funding : [txid : Nat, known : BOOLEAN], fanout : Nat, lost : SUBSET Place]

\* f is the engine with these fields.
Has(f, t, coins, n, g, k, hidden) ==
  /\ f \in EngineRec /\ f.tx = t /\ f.utxos = coins /\ f.cursor = n
  /\ f.funding = g /\ f.fanout = k /\ f.lost = hidden

\* The ways in which the engine changes.
LEMMA Rebook ==
  ASSUME NEW e \in EngineRec, NEW a \in Seq(Place), NEW n \in Nat, NEW L \in SUBSET Place,
         NEW f, f = [e EXCEPT !.utxos = a, !.cursor = n, !.lost = L]
  PROVE  Has(f, e.tx, a, n, e.funding, e.fanout, L)
BY DEF EngineRec, Has

\* An engine with another field or two is that engine with these: the pending funding.
LEMMA EditFunding ==
  ASSUME NEW e \in EngineRec, NEW g \in [txid : Nat, known : BOOLEAN],
         NEW f, f = [e EXCEPT !.funding = g]
  PROVE  Has(f, e.tx, e.utxos, e.cursor, g, e.fanout, e.lost)
BY DEF EngineRec, Has

\* The coins.
LEMMA EditCoins ==
  ASSUME NEW e \in EngineRec, NEW a \in Seq(Place),
         NEW f, f = [e EXCEPT !.utxos = a]
  PROVE  Has(f, e.tx, a, e.cursor, e.funding, e.fanout, e.lost)
BY DEF EngineRec, Has

\* The cursor.
LEMMA EditCursor ==
  ASSUME NEW e \in EngineRec, NEW n \in Nat,
         NEW f, f = [e EXCEPT !.cursor = n]
  PROVE  Has(f, e.tx, e.utxos, n, e.funding, e.fanout, e.lost)
BY DEF EngineRec, Has

\* The pending fan-out and the coins.
LEMMA EditFanoutCoins ==
  ASSUME NEW e \in EngineRec, NEW k \in Nat, NEW a \in Seq(Place),
         NEW f, f = [e EXCEPT !.fanout = k, !.utxos = a]
  PROVE  Has(f, e.tx, a, e.cursor, e.funding, k, e.lost)
BY DEF EngineRec, Has

\* The transactions and the hidden coins.
LEMMA EditTxLost ==
  ASSUME NEW e \in EngineRec, NEW t \in Seq(TxRecord), NEW L \in SUBSET Place,
         NEW f, f = [e EXCEPT !.tx = t, !.lost = L]
  PROVE  Has(f, t, e.utxos, e.cursor, e.funding, e.fanout, L)
BY DEF EngineRec, Has

\* The transactions and the pending funding.
LEMMA EditTxFunding ==
  ASSUME NEW e \in EngineRec, NEW t \in Seq(TxRecord), NEW g \in [txid : Nat, known : BOOLEAN],
         NEW f, f = [e EXCEPT !.tx = t, !.funding = g]
  PROVE  Has(f, t, e.utxos, e.cursor, g, e.fanout, e.lost)
BY DEF EngineRec, Has

\* The transactions, the pending fan-out and the coins.
LEMMA EditTxFanoutCoins ==
  ASSUME NEW e \in EngineRec, NEW t \in Seq(TxRecord), NEW k \in Nat, NEW a \in Seq(Place),
         NEW f, f = [e EXCEPT !.tx = t, !.fanout = k, !.utxos = a]
  PROVE  Has(f, t, a, e.cursor, e.funding, k, e.lost)
BY DEF EngineRec, Has

\* The same, in the order the floor pool writes them.
LEMMA EditTxCoinsFanout ==
  ASSUME NEW e \in EngineRec, NEW t \in Seq(TxRecord), NEW a \in Seq(Place), NEW k \in Nat,
         NEW f, f = [e EXCEPT !.tx = t, !.utxos = a, !.fanout = k]
  PROVE  Has(f, t, a, e.cursor, e.funding, k, e.lost)
BY DEF EngineRec, Has

\* What is pending.
LEMMA EditPending ==
  ASSUME NEW e \in EngineRec, NEW g \in [txid : Nat, known : BOOLEAN], NEW k \in Nat,
         NEW f, f = [e EXCEPT !.funding = g, !.fanout = k]
  PROVE  Has(f, e.tx, e.utxos, e.cursor, g, k, e.lost)
BY DEF EngineRec, Has

\* The hidden coins.
LEMMA EditLost ==
  ASSUME NEW e \in EngineRec, NEW L \in SUBSET Place,
         NEW f, f = [e EXCEPT !.lost = L]
  PROVE  Has(f, e.tx, e.utxos, e.cursor, e.funding, e.fanout, L)
BY DEF EngineRec, Has

\* The transactions.
LEMMA EditTx ==
  ASSUME NEW e \in EngineRec, NEW t \in Seq(TxRecord),
         NEW f, f = [e EXCEPT !.tx = t]
  PROVE  Has(f, t, e.utxos, e.cursor, e.funding, e.fanout, e.lost)
BY DEF EngineRec, Has

\* What the engine knows of exists, and is of its kind.
Known(e) ==
  /\ Range(e.utxos) \subseteq Coins(e.tx) /\ e.lost \subseteq Coins(e.tx)
  /\ e.cursor = 0 \/ e.cursor < Len(e.utxos)

\* What is pending exists, and is of its kind.
Pending(e) ==
  /\ e.funding = NoFunding
       \/ (e.funding.txid \in DOMAIN e.tx /\ e.tx[e.funding.txid].kind = "fund")
  /\ e.fanout = 0 \/ (e.fanout \in DOMAIN e.tx /\ e.tx[e.fanout].kind = "fan")

\* The engine's record agrees with the node's ledger.
Books(e) ==
  e \in EngineRec /\ Ledger(e.tx) /\ Len(e.tx) <= MaxTxs /\ Known(e) /\ Pending(e)

\* Every coin that nothing spends is in the books or was hidden from them.
Accounted(e) ==
  Unspent(e.tx) \subseteq Range(e.utxos) \cup Range(inflight) \cup e.lost
                            \cup {c \in Coins(e.tx) : c[1] \in {e.funding.txid, e.fanout}}
\* What is waited for is alive.
Alive(e) ==
  /\ e.funding # NoFunding => Live(e.tx, e.funding.txid)
  /\ e.fanout # 0 => Live(e.tx, e.fanout)
\* The coins have confirmed.
Confirmed(e) == \A c \in Range(e.utxos) : e.tx[c[1]].state = "mined"

\* Provisioning adds fundings and fan-outs.
Grown(t, u) ==
  /\ Len(t) <= Len(u) /\ DOMAIN t \subseteq DOMAIN u
  /\ \A i \in DOMAIN t : u[i] = t[i]
  /\ \A i \in DOMAIN u : i \notin DOMAIN t => u[i].kind \in {"fund", "fan"} /\ u[i].state = "mempool"

\* What every part of the provisioning leaves as it is.
Keeps(e, f) ==
  /\ Books(f) /\ Grown(e.tx, f.tx)
  /\ Accounted(e) => Accounted(f)
  /\ Alive(e) => Alive(f)
  /\ Confirmed(e) => Confirmed(f)
  /\ e.cursor = 0 => f.cursor = 0

\* No transaction with several inputs was added.
KeepsOne(e, f) == OneInput(e.tx) => OneInput(f.tx)

\* Doing nothing keeps the books.
LEMMA KeepsSelf ==
  ASSUME NEW e, Books(e)
  PROVE  Keeps(e, e) /\ KeepsOne(e, e)
<1>1. e.tx \in Seq(TxRecord) BY DEF Books, EngineRec
<1>2. Len(e.tx) \in Nat BY <1>1
<1>3. Grown(e.tx, e.tx) BY <1>2 DEF Grown
<1> QED BY <1>3 DEF Keeps, KeepsOne

\* Two steps keep them if each does.
LEMMA KeepsBoth ==
  ASSUME NEW e, Books(e), NEW f, Keeps(e, f), NEW g, Keeps(f, g)
  PROVE  Keeps(e, g) /\ (KeepsOne(e, f) /\ KeepsOne(f, g) => KeepsOne(e, g))
<1>1. e.tx \in Seq(TxRecord) /\ f.tx \in Seq(TxRecord) /\ g.tx \in Seq(TxRecord)
  BY DEF Keeps, Books, EngineRec
<1>2. Len(e.tx) \in Nat /\ Len(f.tx) \in Nat /\ Len(g.tx) \in Nat BY <1>1
<1>3. Grown(e.tx, f.tx) /\ Grown(f.tx, g.tx) BY DEF Keeps
<1>4. Len(e.tx) <= Len(g.tx) BY <1>2, <1>3 DEF Grown
<1>5. Grown(e.tx, g.tx) BY <1>3, <1>4 DEF Grown
<1> QED BY <1>5 DEF Keeps, KeepsOne

\* The coins are finitely many.
LEMMA CoinsFinite ==
  ASSUME NEW t, Ledger(t)
  PROVE  IsFiniteSet(Coins(t)) /\ Coins(t) \subseteq (1 .. Len(t)) \X (1 .. MaxOuts)
<1>0. t \in Seq(TxRecord) /\ Len(t) \in Nat /\ DOMAIN t = 1 .. Len(t) BY DEF Ledger
<1>1. MaxOuts \in Nat BY EngineConstants DEF MaxOuts
<1>2. ASSUME NEW c \in Coins(t) PROVE c \in (1 .. Len(t)) \X (1 .. MaxOuts)
  <2>1. c = <<c[1], c[2]>> /\ c[1] \in DOMAIN t /\ c[2] \in 1 .. Len(t[c[1]].outs)
    BY <1>0, CoinIs
  <2>2. Len(t[c[1]].outs) \in 1 .. MaxOuts BY <2>1 DEF Ledger, Outs
  <2>3. c[2] \in 1 .. MaxOuts BY <1>1, <2>1, <2>2
  <2> QED BY <1>0, <2>1, <2>3
<1>3. IsFiniteSet(1 .. Len(t)) /\ IsFiniteSet(1 .. MaxOuts)
  <2>1. Len(t) \in Int /\ MaxOuts \in Int BY <1>0, <1>1
  <2> QED BY <2>1, FS_Interval
<1>4. IsFiniteSet((1 .. Len(t)) \X (1 .. MaxOuts)) BY <1>3, FS_Product
<1> QED BY <1>2, <1>4, FS_Subset

\* scantxoutset lists the confirmed coins.
LEMMA ScanLists ==
  ASSUME NEW t, Ledger(t)
  PROVE  /\ ScanAddressUtxos(t) \in Seq(Place)
         /\ Range(ScanAddressUtxos(t)) = Scanned(t)
<1> DEFINE S == Scanned(t)
           s == ScanAddressUtxos(t)
           Before(a, b) == a[1] < b[1] \/ (a[1] = b[1] /\ a[2] < b[2])
           R == {p \in S \X S : Before(p[1], p[2])}
<1>0. IsFiniteSet(S) /\ \A x \in S : x = <<x[1], x[2]>> /\ x[1] \in Nat /\ x[2] \in Nat /\ x \in Place
  <2>1. S \subseteq Coins(t) BY DEF Scanned
  <2>2. IsFiniteSet(S) BY <2>1, CoinsFinite, FS_Subset
  <2>3. t \in Seq(TxRecord) BY DEF Ledger
  <2>4. \A x \in Coins(t) : x = <<x[1], x[2]>> /\ x \in Place BY <2>3, CoinIs
  <2> QED BY <2>1, <2>2, <2>4 DEF Place
<1>1. \A x, y \in S : <<x, y>> \in R <=> Before(x, y) OBVIOUS
<1>2. Orders(R, S)
  <2>2. \A x \in S : ~Before(x, x) BY <1>0
  <2>3. \A x, y, z \in S : Before(x, y) /\ Before(y, z) => Before(x, z) BY <1>0
  <2>4. \A x, y \in S : x = y \/ Before(x, y) \/ Before(y, x) BY <1>0
  <2> HIDE DEF R, Before, S
  <2> QED BY <1>1, <2>2, <2>3, <2>4 DEF Orders
<1>8. s = [k \in 1 .. Cardinality(S) |->
             CHOOSE x \in S : Cardinality({y \in S : Before(y, x)}) = k - 1]
  BY DEF ScanAddressUtxos, InOrder
<1>3. s = [k \in 1 .. Cardinality(S) |-> s[k]]
  <2> DEFINE g(k) == CHOOSE x \in S : Cardinality({y \in S : Before(y, x)}) = k - 1
  <2>1. s = [k \in 1 .. Cardinality(S) |-> g(k)] BY <1>8
  <2> HIDE DEF s, g
  <2> QED BY <2>1
<1>5. \A k \in 1 .. Cardinality(S) :
        s[k] = CHOOSE x \in S : Cardinality({y \in S : Before(y, x)}) = k - 1
  <2> HIDE DEF s
  <2> QED BY <1>8
<1> HIDE DEF R, s, Before, S
<1>4. \A x \in S : {y \in S : Before(y, x)} = Below(R, S, x) BY <1>1 DEF Below
<1>6. \A k \in 1 .. Cardinality(S) :
        (\E x \in S : Cardinality(Below(R, S, x)) = k - 1)
          => s[k] \in S /\ Cardinality(Below(R, S, s[k])) = k - 1
  <2>1. SUFFICES ASSUME NEW k \in 1 .. Cardinality(S),
                        \E x \in S : Cardinality(Below(R, S, x)) = k - 1
                 PROVE  s[k] \in S /\ Cardinality(Below(R, S, s[k])) = k - 1
    OBVIOUS
  <2>2. \E x \in S : Cardinality({y \in S : Before(y, x)}) = k - 1 BY <1>4, <2>1
  <2>3. s[k] \in S /\ Cardinality({y \in S : Before(y, s[k])}) = k - 1 BY <1>5, <2>2
  <2> QED BY <1>4, <2>3
<1>7. Lists(s, S, R) BY <1>0, <1>2, <1>3, <1>6, ListedByPlace
<1>9. s \in Seq(S) /\ \A x \in S : \E k \in 1 .. Len(s) : s[k] = x BY <1>7 DEF Lists
<1>10. s \in Seq(Place)
  <2>1. S \subseteq Place BY <1>0
  <2> QED BY <1>9, <2>1
<1>11. Range(s) = S
  <2>1. Range(s) = {s[k] : k \in 1 .. Len(s)} BY <1>9 DEF Range
  <2> QED BY <1>9, <2>1
<1> QED BY <1>10, <1>11 DEF s, S

\* The books with other coins.
LEMMA ResyncIs ==
  ASSUME NEW e, e \in EngineRec, Ledger(e.tx), NEW f, f = Resync(e)
  PROVE  /\ f \in EngineRec /\ f.tx = e.tx /\ f.utxos = ScanAddressUtxos(e.tx) /\ f.cursor = 0
         /\ f.funding = e.funding /\ f.fanout = e.fanout
         /\ f.lost = e.lost \cup (Unseen(e.tx) \ Range(inflight))
<1>1. ScanAddressUtxos(e.tx) \in Seq(Place) BY ScanLists
<1>2. Unseen(e.tx) \subseteq Place
  <2>1. e.tx \in Seq(TxRecord) BY DEF Ledger
  <2>2. Coins(e.tx) \subseteq Place BY <2>1, CoinIs
  <2> QED BY <2>2 DEF Unseen
<1>3. e.lost \cup (Unseen(e.tx) \ Range(inflight)) \in SUBSET Place BY <1>2 DEF EngineRec
<1> DEFINE a == ScanAddressUtxos(e.tx)
           L == e.lost \cup (Unseen(e.tx) \ Range(inflight))
<1>4. f = [e EXCEPT !.utxos = a, !.cursor = 0, !.lost = L] BY DEF Resync
<1>5. a \in Seq(Place) /\ L \in SUBSET Place /\ 0 \in Nat BY <1>1, <1>3
<1> HIDE DEF a, L
<1>6. Has(f, e.tx, a, 0, e.funding, e.fanout, L) BY <1>4, <1>5, Rebook
<1> QED BY <1>6 DEF Has, a, L

\* A rebuild from the chain keeps the books and accounts for every coin.
LEMMA ResyncKeeps ==
  ASSUME NEW e, Books(e), NEW f, f = Resync(e)
  PROVE  Keeps(e, f) /\ KeepsOne(e, f) /\ Accounted(f) /\ Confirmed(f)
<1>1. /\ f \in EngineRec /\ f.tx = e.tx /\ f.utxos = ScanAddressUtxos(e.tx) /\ f.cursor = 0
      /\ f.funding = e.funding /\ f.fanout = e.fanout
      /\ f.lost = e.lost \cup (Unseen(e.tx) \ Range(inflight))
  BY ResyncIs DEF Books
<1>2. Range(f.utxos) = Scanned(e.tx) BY <1>1, ScanLists DEF Books
<1>3. Known(f) BY <1>1, <1>2 DEF Known, Books, Scanned, Unseen
<1>4. Books(f) BY <1>1, <1>3 DEF Books, Pending
<1>5. Accounted(f) BY <1>1, <1>2 DEF Accounted, Unspent, Unseen
<1>6. Confirmed(f) BY <1>1, <1>2 DEF Confirmed, Scanned, TxOutConfirmed
<1>7. Grown(e.tx, f.tx) BY <1>1, KeepsSelf DEF Keeps
<1>8. Alive(e) => Alive(f) BY <1>1 DEF Alive
<1> QED BY <1>1, <1>4, <1>5, <1>6, <1>7, <1>8 DEF Keeps, KeepsOne

(***************************************************************************)
(* Provisioning.                                                           *)
(***************************************************************************)
\* The fields of an engine.
LEMMA EngineFields ==
  ASSUME NEW e \in EngineRec
  PROVE  /\ e.tx \in Seq(TxRecord) /\ e.utxos \in Seq(Place) /\ e.cursor \in Nat
         /\ e.funding \in [txid : Nat, known : BOOLEAN] /\ e.fanout \in Nat
         /\ e.lost \in SUBSET Place
         /\ e.funding.txid \in Nat /\ e.funding.known \in BOOLEAN
BY DEF EngineRec

\* A pending transaction is one of the list, or none.
LEMMA PendingIs ==
  ASSUME NEW e, Books(e)
  PROVE  /\ e.funding # NoFunding =>
              e.funding.txid \in DOMAIN e.tx /\ e.tx[e.funding.txid].kind = "fund"
         /\ e.fanout # 0 => e.fanout \in DOMAIN e.tx /\ e.tx[e.fanout].kind = "fan"
         /\ NoFunding.txid = 0 /\ 0 \notin DOMAIN e.tx
         /\ NoFunding \in [txid : Nat, known : BOOLEAN]
<1>1. e.tx \in Seq(TxRecord) BY EngineFields DEF Books
<1> QED BY <1>1 DEF Books, Pending, NoFunding

\* The cursor is wrapped around.
LEMMA WrappedIs ==
  ASSUME NEW e \in EngineRec, NEW f, f = Wrapped(e)
  PROVE  /\ Has(f, e.tx, e.utxos, f.cursor, e.funding, e.fanout, e.lost)
         /\ f.cursor = 0 \/ f.cursor < Len(e.utxos) \/ (e.utxos = <<>> /\ f.cursor = e.cursor)
         /\ e.cursor = 0 => f.cursor = 0
<1> DEFINE n == e.cursor % Len(e.utxos)
<1>1. CASE e.utxos = <<>>
  <2>1. f = e BY <1>1 DEF Wrapped
  <2> QED BY <1>1, <2>1 DEF Has
<1>2. CASE e.utxos # <<>>
  <2>1. e.utxos \in Seq(Place) /\ e.cursor \in Nat BY EngineFields
  <2>2. Len(e.utxos) \in Nat /\ Len(e.utxos) > 0 BY <1>2, <2>1
  <2>3. n \in Nat /\ n < Len(e.utxos) /\ (e.cursor = 0 => n = 0) BY <2>1, <2>2
  <2>4. f = [e EXCEPT !.cursor = n] BY <1>2 DEF Wrapped
  <2> HIDE DEF n
  <2>5. Has(f, e.tx, e.utxos, n, e.funding, e.fanout, e.lost) BY <2>3, <2>4, EditCursor
  <2> QED BY <2>3, <2>5 DEF Has
<1> QED BY <1>1, <1>2

\* Coins at the end of a list of coins.
LEMMA MoreCoins ==
  ASSUME NEW a \in Seq(Place), NEW b \in Seq(Place)
  PROVE  a \o b \in Seq(Place) /\ Range(a \o b) = Range(a) \cup Range(b)
         /\ Len(a \o b) = Len(a) + Len(b) /\ Len(a) \in Nat /\ Len(b) \in Nat
<1>1. a \o b \in Seq(Place) /\ Len(a \o b) = Len(a) + Len(b) /\ Len(a) \in Nat /\ Len(b) \in Nat
  OBVIOUS
<1>2. \A i \in 1 .. Len(a) + Len(b) :
        (a \o b)[i] = IF i <= Len(a) THEN a[i] ELSE b[i - Len(a)]
  OBVIOUS
<1>3. /\ Range(a \o b) = {(a \o b)[i] : i \in 1 .. Len(a) + Len(b)}
      /\ Range(a) = {a[i] : i \in 1 .. Len(a)} /\ Range(b) = {b[i] : i \in 1 .. Len(b)}
  BY <1>1 DEF Range
<1>4. ASSUME NEW i \in 1 .. Len(a) PROVE a[i] \in Range(a \o b)
  <2>1. i \in 1 .. Len(a) + Len(b) /\ (a \o b)[i] = a[i] BY <1>1, <1>2
  <2> QED BY <1>3, <2>1
<1>5. ASSUME NEW i \in 1 .. Len(b) PROVE b[i] \in Range(a \o b)
  <2>1. i + Len(a) \in 1 .. Len(a) + Len(b) /\ (i + Len(a)) - Len(a) = i /\ ~(i + Len(a) <= Len(a))
    BY <1>1
  <2>2. (a \o b)[i + Len(a)] = b[i] BY <1>2, <2>1
  <2> QED BY <1>3, <2>1, <2>2
<1>6. ASSUME NEW i \in 1 .. Len(a) + Len(b) PROVE (a \o b)[i] \in Range(a) \cup Range(b)
  <2>1. CASE i <= Len(a) BY <1>1, <1>2, <1>3, <2>1
  <2>2. CASE ~(i <= Len(a))
    <3>1. i - Len(a) \in 1 .. Len(b) BY <1>1, <2>2
    <3> QED BY <1>2, <1>3, <2>2, <3>1
  <2> QED BY <2>1, <2>2
<1>7. Range(a \o b) = Range(a) \cup Range(b)
  <2> HIDE DEF Range
  <2>1. \A x \in Range(a \o b) : x \in Range(a) \cup Range(b) BY <1>3, <1>6
  <2>2. \A x \in Range(a) \cup Range(b) : x \in Range(a \o b) BY <1>3, <1>4, <1>5
  <2> QED BY <2>1, <2>2
<1> QED BY <1>1, <1>7

\* A coin appended to a list of coins.
LEMMA OneMoreCoin ==
  ASSUME NEW a \in Seq(Place), NEW c \in Place
  PROVE  Append(a, c) \in Seq(Place) /\ Range(Append(a, c)) = Range(a) \cup {c}
         /\ Len(Append(a, c)) = Len(a) + 1 /\ Len(a) \in Nat
<1>1. /\ Append(a, c) \in Seq(Place) /\ Len(Append(a, c)) = Len(a) + 1 /\ Len(a) \in Nat
      /\ \A i \in 1 .. Len(a) : Append(a, c)[i] = a[i]
      /\ Append(a, c)[Len(a) + 1] = c
  OBVIOUS
<1>2. Range(Append(a, c)) = {Append(a, c)[i] : i \in 1 .. Len(a) + 1} /\ Range(a) = {a[i] : i \in 1 .. Len(a)}
  BY <1>1 DEF Range
<1>3. \A i : i \in 1 .. Len(a) + 1 <=> i \in 1 .. Len(a) \/ i = Len(a) + 1 BY <1>1
<1> QED BY <1>1, <1>2, <1>3

\* The outputs of a transaction as coins.
LEMMA OutputsAre ==
  ASSUME NEW t, t \in Seq(TxRecord), NEW i \in DOMAIN t
  PROVE  /\ Outputs(i, t[i].outs) \in Seq(Place)
         /\ Range(Outputs(i, t[i].outs)) = {c \in Coins(t) : c[1] = i}
         /\ Range(Outputs(i, t[i].outs)) = NewCoins(i, t[i].outs)
<1> DEFINE o == Outputs(i, t[i].outs)
           n == Len(t[i].outs)
<1>1. n \in Nat /\ DOMAIN t[i].outs = 1 .. n /\ i \in Nat
  <2>1. t[i] \in TxRecord /\ i \in Nat OBVIOUS
  <2>2. t[i].outs \in Seq(Nat) BY <2>1 DEF TxRecord
  <2> QED BY <2>1, <2>2
<1>2. o = [k \in 1 .. n |-> <<i, k>>] BY <1>1 DEF Outputs
<1>3. o \in [1 .. n -> Place] BY <1>1, <1>2 DEF Place
<1>4. o \in Seq(Place) BY <1>1, <1>3
<1>5. Range(o) = {<<i, k>> : k \in 1 .. n} BY <1>2 DEF Range
<1>6. {c \in Coins(t) : c[1] = i} = {<<i, k>> : k \in 1 .. n}
  <2>1. ASSUME NEW c \in Coins(t), c[1] = i PROVE c \in {<<i, k>> : k \in 1 .. n}
    <3>1. c = <<c[1], c[2]>> /\ c[2] \in 1 .. Len(t[c[1]].outs) BY CoinIs
    <3> QED BY <2>1, <3>1
  <2>2. \A k \in 1 .. n : <<i, k>> \in Coins(t) BY CoinIs
  <2> QED BY <2>1, <2>2
<1> QED BY <1>4, <1>5, <1>6 DEF NewCoins

\* A funding that has confirmed joins the coins.
LEMMA AdvanceFundingKeeps ==
  ASSUME NEW e, Books(e)
  PROVE  Keeps(e, AdvanceFunding(e)) /\ KeepsOne(e, AdvanceFunding(e))
<1> DEFINE f == AdvanceFunding(e)
           taken == [e EXCEPT !.funding = NoFunding]
           c == <<e.funding.txid, 1>>
<1>0. e \in EngineRec /\ Ledger(e.tx) /\ e.tx \in Seq(TxRecord) BY EngineFields DEF Books
<1>1. CASE ~FundingConfirmed(e)
  <2>1. f = e BY <1>1 DEF AdvanceFunding
  <2> QED BY <2>1, KeepsSelf
<1>2. CASE FundingConfirmed(e)
  <2>1. e.funding # NoFunding /\ e.tx[e.funding.txid].state = "mined" BY <1>2 DEF FundingConfirmed
  <2>2. e.funding.txid \in DOMAIN e.tx /\ e.tx[e.funding.txid].kind = "fund" BY <2>1, PendingIs
  <2>3. NoFunding \in [txid : Nat, known : BOOLEAN] BY PendingIs
  <2>4. Has(taken, e.tx, e.utxos, e.cursor, NoFunding, e.fanout, e.lost)
    BY <1>0, <2>3, EditFunding
  <2>5. Books(taken) BY <2>4 DEF Has, Books, Known, Pending
  <2> HIDE DEF taken
  <2>6. CASE ~e.funding.known
    <3>1. f = Resync(taken) BY <1>2, <2>6 DEF AdvanceFunding, taken
    <3>2. Keeps(taken, f) /\ KeepsOne(taken, f) /\ Accounted(f) /\ Confirmed(f)
      BY <2>5, <3>1, ResyncKeeps
    <3>3. Grown(e.tx, f.tx) /\ KeepsOne(e, f) /\ (e.cursor = 0 => f.cursor = 0)
      BY <2>4, <3>2 DEF Keeps, KeepsOne, Has
    <3>4. Alive(e) => Alive(taken) BY <2>4 DEF Alive, Has
    <3> QED BY <3>2, <3>3, <3>4 DEF Keeps
  <2>7. CASE e.funding.known
    <3>1. f = [taken EXCEPT !.utxos = Append(taken.utxos, c)]
      BY <1>2, <2>7 DEF AdvanceFunding, taken
    <3>2. c \in Coins(e.tx) /\ c \in Place
      <4>1. Len(e.tx[e.funding.txid].outs) = 1 BY <1>0, <2>2 DEF Ledger, Outs
      <4>2. 1 \in 1 .. Len(e.tx[e.funding.txid].outs) BY <4>1
      <4>3. c \in Coins(e.tx) BY <1>0, <2>2, <4>2, CoinIs
      <4> HIDE DEF c
      <4> QED BY <1>0, <4>3, CoinIs
    <3>3. ASSUME NEW d \in Coins(e.tx), d[1] = e.funding.txid PROVE d = c
      <4>1. Len(e.tx[e.funding.txid].outs) = 1 BY <1>0, <2>2 DEF Ledger, Outs
      <4>2. d = <<d[1], d[2]>> /\ d[2] \in 1 .. 1 BY <1>0, <3>3, <4>1, CoinIs
      <4> QED BY <3>3, <4>2
    <3>4. c[1] = e.funding.txid OBVIOUS
    <3> HIDE DEF c
    <3> DEFINE a == Append(e.utxos, c)
    <3>5. e.utxos \in Seq(Place) BY <1>0, EngineFields
    <3>6. a \in Seq(Place) /\ Range(a) = Range(e.utxos) \cup {c} /\ Len(a) = Len(e.utxos) + 1
          /\ Len(e.utxos) \in Nat
      BY <3>2, <3>5, OneMoreCoin
    <3>7. f = [taken EXCEPT !.utxos = a] /\ taken \in EngineRec BY <2>4, <3>1 DEF Has
    <3> HIDE DEF a
    <3>8. Has(f, e.tx, a, e.cursor, NoFunding, e.fanout, e.lost)
      BY <2>4, <3>6, <3>7, EditCoins DEF Has
    <3> HIDE DEF f
    <3>9. e.cursor \in Nat BY <1>0, EngineFields
    <3>10. Known(f)
      <4>1. e.cursor = 0 \/ e.cursor < Len(e.utxos) BY DEF Books, Known
      <4>2. e.cursor = 0 \/ e.cursor < Len(a) BY <3>6, <3>9, <4>1
      <4> QED BY <3>2, <3>6, <3>8, <4>2 DEF Books, Known, Has
    <3>11. Books(f) BY <3>8, <3>10 DEF Books, Pending, Has
    <3>12. Accounted(e) => Accounted(f)
      BY <3>3, <3>6, <3>8 DEF Accounted, Has, Unspent
    <3>13. Alive(e) => Alive(f) BY <3>8 DEF Alive, Has
    <3>14. Confirmed(e) => Confirmed(f) BY <2>1, <3>4, <3>6, <3>8 DEF Confirmed, Has
    <3>15. Grown(e.tx, f.tx) /\ KeepsOne(e, f) BY <3>8, KeepsSelf DEF Keeps, KeepsOne, Has
    <3>16. e.cursor = 0 => f.cursor = 0 BY <3>8 DEF Has
    <3> QED BY <3>11, <3>12, <3>13, <3>14, <3>15, <3>16 DEF Keeps, f
  <2> QED BY <2>6, <2>7
<1> QED BY <1>1, <1>2

\* A fan-out that has confirmed joins the coins.
LEMMA AdvanceFanoutKeeps ==
  ASSUME NEW e, Books(e)
  PROVE  Keeps(e, AdvanceFanout(e)) /\ KeepsOne(e, AdvanceFanout(e))
<1> DEFINE f == AdvanceFanout(e)
           b == Outputs(e.fanout, e.tx[e.fanout].outs)
           a == e.utxos \o b
           joined == [e EXCEPT !.fanout = 0, !.utxos = a]
<1>0. e \in EngineRec /\ Ledger(e.tx) /\ e.tx \in Seq(TxRecord) /\ e.utxos \in Seq(Place)
      /\ e.cursor \in Nat
  BY EngineFields DEF Books
<1>1. CASE ~FanoutConfirmed(e)
  <2>1. f = e BY <1>1 DEF AdvanceFanout
  <2> QED BY <2>1, KeepsSelf
<1>2. CASE FanoutConfirmed(e)
  <2>1. e.fanout # 0 /\ e.tx[e.fanout].state = "mined" BY <1>2 DEF FanoutConfirmed, TxOutConfirmed
  <2>2. e.fanout \in DOMAIN e.tx BY <2>1, PendingIs
  <2>3. b \in Seq(Place) /\ Range(b) = {c \in Coins(e.tx) : c[1] = e.fanout}
    BY <1>0, <2>2, OutputsAre
  <2>4. f = Wrapped(joined) BY <1>2 DEF AdvanceFanout
  <2> HIDE DEF f, b
  <2>5. a \in Seq(Place) /\ Range(a) = Range(e.utxos) \cup Range(b) /\ Len(a) = Len(e.utxos) + Len(b)
        /\ Len(e.utxos) \in Nat /\ Len(b) \in Nat
    BY <1>0, <2>3, MoreCoins
  <2> HIDE DEF a
  <2>6. Has(joined, e.tx, a, e.cursor, e.funding, 0, e.lost)
    BY <1>0, <2>5, EditFanoutCoins
  <2>7. joined \in EngineRec BY <2>6 DEF Has
  <2> HIDE DEF joined
  <2>8. /\ Has(f, joined.tx, joined.utxos, f.cursor, joined.funding, joined.fanout, joined.lost)
        /\ f.cursor = 0 \/ f.cursor < Len(joined.utxos)
             \/ (joined.utxos = <<>> /\ f.cursor = joined.cursor)
        /\ joined.cursor = 0 => f.cursor = 0
    BY <2>4, <2>7, WrappedIs
  <2>9. Has(f, e.tx, a, f.cursor, e.funding, 0, e.lost) /\ (e.cursor = 0 => f.cursor = 0)
    BY <2>6, <2>8 DEF Has
  <2>10. f.cursor = 0 \/ f.cursor < Len(a)
    <3>1. e.cursor = 0 \/ e.cursor < Len(e.utxos) BY DEF Books, Known
    <3>2. CASE a = <<>> /\ f.cursor = e.cursor
      <4>1. Len(a) = 0
        <5>1. Len(<<>>) = 0 OBVIOUS
        <5> QED BY <3>2, <5>1
      <4>3. \A m, n \in Nat : m + n = 0 => m = 0 OBVIOUS
      <4>2. Len(e.utxos) = 0 BY <2>5, <4>1, <4>3
      <4> QED BY <1>0, <3>1, <3>2, <4>2
    <3> QED BY <2>6, <2>8, <3>2 DEF Has
  <2>11. Known(f) BY <2>3, <2>5, <2>9, <2>10 DEF Books, Known, Has
  <2>12. Books(f) BY <2>9, <2>11 DEF Books, Pending, Has
  <2>13. Accounted(e) => Accounted(f)
    BY <2>3, <2>5, <2>9 DEF Accounted, Has
  <2>14. Alive(e) => Alive(f) BY <2>9 DEF Alive, Has
  <2>15. Confirmed(e) => Confirmed(f) BY <2>1, <2>3, <2>5, <2>9 DEF Confirmed, Has
  <2>16. Grown(e.tx, f.tx) /\ KeepsOne(e, f) BY <2>9, KeepsSelf DEF Keeps, KeepsOne, Has
  <2> QED BY <2>9, <2>12, <2>13, <2>14, <2>15, <2>16 DEF Keeps, f
<1> QED BY <1>1, <1>2

\* Taking in what has confirmed keeps the books.
LEMMA AdvanceProvisioningKeeps ==
  ASSUME NEW e, Books(e), NEW mode
  PROVE  Keeps(e, AdvanceProvisioning(e, mode)) /\ KeepsOne(e, AdvanceProvisioning(e, mode))
<1> DEFINE f == AdvanceFunding(e)
           g == AdvanceFanout(f)
<1>1. CASE mode = "read" BY <1>1, KeepsSelf DEF AdvanceProvisioning
<1>2. CASE mode # "read"
  <2>1. Keeps(e, f) /\ KeepsOne(e, f) BY AdvanceFundingKeeps
  <2>2. Books(f) BY <2>1 DEF Keeps
  <2> HIDE DEF f
  <2>3. Keeps(f, g) /\ KeepsOne(f, g) BY <2>2, AdvanceFanoutKeeps
  <2>4. AdvanceProvisioning(e, mode) = g BY <1>2 DEF AdvanceProvisioning, f
  <2> HIDE DEF g
  <2> QED BY <2>1, <2>3, <2>4, KeepsBoth
<1> QED BY <1>1, <1>2

\* So does a rebuild when nothing is left.
LEMMA ResyncIfBrokeKeeps ==
  ASSUME NEW e, Books(e)
  PROVE  Keeps(e, ResyncIfBroke(e)) /\ KeepsOne(e, ResyncIfBroke(e))
BY KeepsSelf, ResyncKeeps DEF ResyncIfBroke

\* What a call of ensure_funds finds.
Ready(e, mode) == ResyncIfBroke(AdvanceProvisioning(e, mode))

\* So do the two together.
LEMMA ReadyKeeps ==
  ASSUME NEW e, Books(e), NEW mode
  PROVE  Keeps(e, Ready(e, mode)) /\ KeepsOne(e, Ready(e, mode))
<1> DEFINE f == AdvanceProvisioning(e, mode)
<1>1. Keeps(e, f) /\ KeepsOne(e, f) BY AdvanceProvisioningKeeps
<1>2. Books(f) BY <1>1 DEF Keeps
<1> HIDE DEF f
<1>3. Keeps(f, ResyncIfBroke(f)) /\ KeepsOne(f, ResyncIfBroke(f)) BY <1>2, ResyncIfBrokeKeeps
<1>4. Ready(e, mode) = ResyncIfBroke(f) BY DEF Ready, f
<1> QED BY <1>1, <1>3, <1>4, KeepsBoth

\* u is t with a transaction of this kind, in the mempool.
Submitted(t, u, sort, ins, outs) ==
  /\ Ledger(u) /\ Len(u) = Len(t) + 1 /\ Len(t) \in Nat
  /\ \A i \in DOMAIN t : i \in DOMAIN u /\ u[i] = t[i] /\ i # Len(u) /\ i < Len(u)
  /\ \A i \in DOMAIN u : i = Len(u) \/ i \in DOMAIN t
  /\ Len(u) \in DOMAIN u
  /\ u[Len(u)].kind = sort /\ u[Len(u)].ins = ins /\ u[Len(u)].outs = outs
  /\ u[Len(u)].state = "mempool" /\ Live(u, Len(u))
  /\ \A i \in DOMAIN t : Live(u, i) <=> Live(t, i)
  /\ Coins(u) = Coins(t) \cup NewCoins(Len(u), outs)
  /\ Unspent(u) = (Unspent(t) \ ins) \cup NewCoins(Len(u), outs)
  /\ \A h : Dated(t, h) => Dated(u, h)
  /\ (\A c, d \in ins : c = d) /\ OneInput(t) => OneInput(u)

\* A transaction whose inputs live is submitted to the end of the ledger.
LEMMA AcceptedIs ==
  ASSUME NEW t, Ledger(t), NEW sort \in Kinds, NEW ins \in SUBSET Coins(t),
         \A c \in ins : Live(t, c[1]),
         NEW outs \in Seq(Nat), Len(outs) \in 1 .. MaxOuts,
         sort \in {"fund", "spam"} => Len(outs) = 1, sort = "fund" => ins = {},
         NEW rbf \in BOOLEAN, NEW u, u = Accepted(t, sort, ins, outs, rbf)
  PROVE  Submitted(t, u, sort, ins, outs)
<1> DEFINE r == u[Len(u)]
<1>0. t \in Seq(TxRecord) /\ Len(t) \in Nat /\ ins \in SUBSET Place
  <2>1. t \in Seq(TxRecord) BY DEF Ledger
  <2> QED BY <2>1, CoinIs
<1>1. /\ Grows(t, u, r) /\ r.kind = sort /\ r.ins = ins /\ r.outs = outs
      /\ r.state = "mempool" /\ r \in TxRecord
  BY <1>0, AcceptedGrows
<1> HIDE DEF r
<1>2. Ledger(u) BY <1>1, LedgerGrows
<1>3. /\ Len(u) = Len(t) + 1 /\ Len(u) \in DOMAIN u /\ u[Len(u)] = r
      /\ \A i \in DOMAIN t : i \in DOMAIN u /\ u[i] = t[i] /\ i # Len(u) /\ i < Len(u)
      /\ \A i \in DOMAIN u : i = Len(u) \/ i \in DOMAIN t
  BY <1>0, <1>1 DEF Grows
<1>4. /\ Coins(u) = Coins(t) \cup NewCoins(Len(t) + 1, r.outs)
      /\ Unspent(u) = (Unspent(t) \ r.ins) \cup NewCoins(Len(t) + 1, r.outs)
      /\ \A i \in DOMAIN t : Live(u, i) <=> Live(t, i)
      /\ Live(u, Len(t) + 1)
  BY <1>1, GrowsCoins
<1>5. /\ \A h : Dated(t, h) => Dated(u, h)
      /\ (\A c, d \in r.ins : c = d) /\ OneInput(t) => OneInput(u)
  BY <1>0, <1>1, DatedGrows
<1> QED BY <1>0, <1>1, <1>2, <1>3, <1>4, <1>5 DEF Submitted

\* One output.
LEMMA OneOutput ==
  ASSUME NEW n, NEW a \in Nat
  PROVE  <<a>> \in Seq(Nat) /\ Len(<<a>>) = 1 /\ Len(<<a>>) \in 1 .. MaxOuts
         /\ NewCoins(n, <<a>>) = {<<n, 1>>}
<1>1. <<a>> \in Seq(Nat) /\ Len(<<a>>) = 1 OBVIOUS
<1>2. MaxOuts \in Nat /\ MaxOuts >= 1 BY EngineConstants DEF MaxOuts
<1> QED BY <1>1, <1>2 DEF NewCoins

\* A funding or a fan-out is what the engine waits for, or its coins are hidden.
Placed(e, t, sort, outs, g, k, hidden) ==
  /\ hidden \subseteq e.lost \cup NewCoins(Len(t), outs) /\ e.lost \subseteq hidden
  /\ g = e.funding \/ (sort = "fund" /\ g.txid = Len(t) /\ e.funding = NoFunding)
  /\ k = e.fanout \/ (sort = "fan" /\ k = Len(t) /\ e.fanout = 0)
  /\ hidden = e.lost \cup NewCoins(Len(t), outs) \/ g.txid = Len(t) \/ k = Len(t)

\* The engine submitted a funding or a fan-out, and keeps its coins but for
\* those it spends.
LEMMA KeepsSubmitted ==
  ASSUME NEW e, Books(e), NEW t, NEW sort \in {"fund", "fan"}, NEW ins, NEW outs,
         Submitted(e.tx, t, sort, ins, outs), Len(e.tx) < MaxTxs,
         NEW f, NEW coins, NEW n, NEW g, NEW k, NEW hidden,
         Has(f, t, coins, n, g, k, hidden),
         Range(coins) \subseteq Range(e.utxos), Range(e.utxos) \subseteq Range(coins) \cup ins,
         n = 0 \/ n < Len(coins), e.cursor = 0 => n = 0,
         Placed(e, t, sort, outs, g, k, hidden)
  PROVE  Keeps(e, f)
<1>0. /\ hidden \subseteq e.lost \cup NewCoins(Len(t), outs) /\ e.lost \subseteq hidden
      /\ g = e.funding \/ (sort = "fund" /\ g.txid = Len(t) /\ e.funding = NoFunding)
      /\ k = e.fanout \/ (sort = "fan" /\ k = Len(t) /\ e.fanout = 0)
      /\ hidden = e.lost \cup NewCoins(Len(t), outs) \/ g.txid = Len(t) \/ k = Len(t)
  BY DEF Placed
<1>1. /\ f \in EngineRec /\ f.tx = t /\ f.utxos = coins /\ f.cursor = n
      /\ f.funding = g /\ f.fanout = k /\ f.lost = hidden
  BY DEF Has
<1>2. /\ Ledger(t) /\ Len(t) = Len(e.tx) + 1 /\ Len(e.tx) \in Nat
      /\ \A i \in DOMAIN e.tx : i \in DOMAIN t /\ t[i] = e.tx[i]
      /\ \A i \in DOMAIN t : i = Len(t) \/ i \in DOMAIN e.tx
      /\ Len(t) \in DOMAIN t /\ t[Len(t)].kind = sort
      /\ t[Len(t)].state = "mempool" /\ Live(t, Len(t))
      /\ \A i \in DOMAIN e.tx : Live(t, i) <=> Live(e.tx, i)
      /\ Coins(t) = Coins(e.tx) \cup NewCoins(Len(t), outs)
      /\ Unspent(t) = (Unspent(e.tx) \ ins) \cup NewCoins(Len(t), outs)
  BY DEF Submitted
<1>3. e \in EngineRec /\ Ledger(e.tx) /\ Known(e) /\ Pending(e) BY DEF Books
<1>4. Len(t) <= MaxTxs BY <1>2, EngineConstants
<1>5. Grown(e.tx, t) BY <1>2 DEF Grown
<1>6. Known(f) BY <1>0, <1>1, <1>2, <1>3 DEF Known
<1>7. Pending(f)
  <2>1. f.funding = NoFunding
          \/ (f.funding.txid \in DOMAIN f.tx /\ f.tx[f.funding.txid].kind = "fund")
    BY <1>0, <1>1, <1>2, <1>3 DEF Pending
  <2>2. f.fanout = 0 \/ (f.fanout \in DOMAIN f.tx /\ f.tx[f.fanout].kind = "fan")
    BY <1>0, <1>1, <1>2, <1>3 DEF Pending
  <2> QED BY <2>1, <2>2 DEF Pending
<1>8. Books(f) BY <1>1, <1>2, <1>4, <1>6, <1>7 DEF Books
<1>9. ASSUME Accounted(e) PROVE Accounted(f)
  <2>0. 0 \notin DOMAIN e.tx /\ NoFunding.txid = 0 BY PendingIs
  <2>1. \A c \in Coins(e.tx) : c[1] \in DOMAIN e.tx BY <1>3, CoinIs DEF Ledger
  <2>2. \A c \in NewCoins(Len(t), outs) : c[1] = Len(t) BY DEF NewCoins
  <2>3. ASSUME NEW c \in Unspent(e.tx), c \notin ins
        PROVE  c \in Range(coins) \cup Range(inflight) \cup hidden
                       \cup {d \in Coins(t) : d[1] \in {g.txid, k}}
    <3>1. c \in Coins(e.tx) BY DEF Unspent
    <3>2. c \in Range(e.utxos) \cup Range(inflight) \cup e.lost \/ c[1] \in {e.funding.txid, e.fanout}
      BY <1>9 DEF Accounted
    <3>3. c[1] # 0 BY <2>0, <2>1, <3>1
    <3>4. c[1] \in {e.funding.txid, e.fanout} => c[1] \in {g.txid, k} BY <1>0, <2>0, <3>3
    <3> QED BY <1>0, <1>2, <2>3, <3>1, <3>2, <3>4
  <2>4. ASSUME NEW c \in NewCoins(Len(t), outs)
        PROVE  c \in Range(coins) \cup Range(inflight) \cup hidden
                       \cup {d \in Coins(t) : d[1] \in {g.txid, k}}
    BY <1>0, <1>2, <2>2
  <2> QED BY <1>1, <1>2, <2>3, <2>4 DEF Accounted
<1>10. ASSUME Alive(e) PROVE Alive(f)
  <2>1. ASSUME f.funding # NoFunding PROVE Live(t, f.funding.txid)
    BY <1>0, <1>1, <1>2, <1>3, <1>10, <2>1 DEF Alive, Pending
  <2>2. ASSUME f.fanout # 0 PROVE Live(t, f.fanout)
    BY <1>0, <1>1, <1>2, <1>3, <1>10, <2>2 DEF Alive, Pending
  <2> QED BY <1>1, <2>1, <2>2 DEF Alive
<1>11. ASSUME Confirmed(e) PROVE Confirmed(f)
  <2>1. \A c \in Range(e.utxos) : c[1] \in DOMAIN e.tx BY <1>3, CoinIs DEF Ledger, Known
  <2> QED BY <1>1, <1>2, <1>11, <2>1 DEF Confirmed
<1> QED BY <1>1, <1>5, <1>8, <1>9, <1>10, <1>11 DEF Keeps

\* L has what was hidden and the coins of a transaction whose answer was lost.
Hides(L, e, t, outs) == L = e.lost \cup NewCoins(Len(t), outs)

\* A submission whose answer was lost keeps the books.
LEMMA KeepsHidden ==
  ASSUME NEW e, Books(e), NEW t, NEW sort \in {"fund", "fan"}, NEW ins, NEW outs,
         Submitted(e.tx, t, sort, ins, outs), Len(e.tx) < MaxTxs,
         NEW f, NEW L, Hides(L, e, t, outs),
         Has(f, t, e.utxos, e.cursor, e.funding, e.fanout, L)
  PROVE  Keeps(e, f)
<1> DEFINE coins == e.utxos
           n == e.cursor
           g == e.funding
           k == e.fanout
<1>1. n = 0 \/ n < Len(coins) BY EngineFields DEF Books, Known
<1>2. Has(f, t, coins, n, g, k, L) /\ (e.cursor = 0 => n = 0)
      /\ Range(coins) \subseteq Range(e.utxos) /\ Range(e.utxos) \subseteq Range(coins) \cup ins
  OBVIOUS
<1>3. Placed(e, t, sort, outs, g, k, L)
  <2> DEFINE new == NewCoins(Len(t), outs)
  <2>1. L = e.lost \cup new BY DEF Hides
  <2>2. L \subseteq e.lost \cup new /\ e.lost \subseteq L
    <3> HIDE DEF new
    <3> QED BY <2>1
  <2> QED BY <2>1, <2>2 DEF Placed
<1> HIDE DEF coins, n, g, k
<1> QED BY <1>1, <1>2, <1>3, KeepsSubmitted

\* One pull from the wallet.
LEMMA StartFundingKeeps ==
  ASSUME NEW e, Books(e), NEW mode
  PROVE  Keeps(e, StartFunding(e, mode)) /\ KeepsOne(e, StartFunding(e, mode))
<1> DEFINE f == StartFunding(e, mode)
           t == Accepted(e.tx, "fund", {}, <<Pull>>, FALSE)
           out == <<Len(t), 1>>
           L == e.lost \cup {out}
           g == [txid |-> Len(t), known |-> mode # "unknown"]
           quiet == e.funding # NoFunding \/ mode \in {"read", "refused"} \/ ~Accepts(e.tx, {})
<1>0. /\ e \in EngineRec /\ Ledger(e.tx) /\ Len(e.tx) \in Nat
      /\ e.utxos \in Seq(Place) /\ e.lost \in SUBSET Place
      /\ e.cursor = 0 \/ e.cursor < Len(e.utxos)
  <2>1. e.tx \in Seq(TxRecord) BY EngineFields DEF Books
  <2> QED BY <2>1, EngineFields DEF Books, Known
<1>1. CASE quiet
  <2>1. f = e BY <1>1 DEF StartFunding
  <2> QED BY <2>1, KeepsSelf
<1>2. CASE ~quiet
  <2>1. Len(e.tx) < MaxTxs /\ e.funding = NoFunding BY <1>2 DEF Accepts
  <2>2. "fund" \in Kinds /\ {} \in SUBSET Coins(e.tx) /\ FALSE \in BOOLEAN BY DEF Kinds
  <2>3. Pull \in Nat BY EngineConstants
  <2>4. /\ <<Pull>> \in Seq(Nat) /\ Len(<<Pull>>) = 1 /\ Len(<<Pull>>) \in 1 .. MaxOuts
    BY <2>3, OneOutput
  <2>5. Submitted(e.tx, t, "fund", {}, <<Pull>>) BY <1>0, <2>2, <2>4, AcceptedIs
  <2>6. NewCoins(Len(t), <<Pull>>) = {out} BY <2>3, OneOutput
  <2>7. /\ f = (IF mode = "hidden" THEN [e EXCEPT !.tx = t, !.lost = L]
                ELSE [e EXCEPT !.tx = t, !.funding = g])
    BY <1>2 DEF StartFunding
  <2>8. Ledger(t) /\ Len(t) \in Nat /\ t \in Seq(TxRecord)
    <3>1. Ledger(t) BY <2>5 DEF Submitted
    <3>2. t \in Seq(TxRecord) BY <3>1 DEF Ledger
    <3> HIDE DEF t
    <3> QED BY <3>1, <3>2
  <2>9. out \in Place BY <2>8 DEF Place
  <2>10. L \in SUBSET Place BY <1>0, <2>9
  <2>11. g \in [txid : Nat, known : BOOLEAN] /\ g.txid = Len(t) BY <2>8
  <2> HIDE DEF f, t, out
  <2>12. f.tx = t => KeepsOne(e, f)
    <3>1. OneInput(e.tx) => OneInput(t) BY <2>5 DEF Submitted
    <3> QED BY <3>1 DEF KeepsOne
  <2>13. CASE mode = "hidden"
    <3>1. L = e.lost \cup NewCoins(Len(t), <<Pull>>) BY <2>6
    <3>2. f = [e EXCEPT !.tx = t, !.lost = L] BY <2>7, <2>13
    <3> HIDE DEF L
    <3>3. Has(f, t, e.utxos, e.cursor, e.funding, e.fanout, L)
      BY <1>0, <2>8, <2>10, <3>2, EditTxLost
    <3>4. Hides(L, e, t, <<Pull>>) BY <3>1 DEF Hides
    <3>5. Keeps(e, f)
      <4> DEFINE ins == {}
                 outs == <<Pull>>
      <4>1. Submitted(e.tx, t, "fund", ins, outs) /\ Hides(L, e, t, outs) BY <2>5, <3>4
      <4> HIDE DEF ins, outs
      <4> QED BY <2>1, <3>3, <4>1, KeepsHidden
    <3>6. f.tx = t BY <3>3 DEF Has
    <3> QED BY <2>12, <3>5, <3>6 DEF f
  <2>14. CASE mode # "hidden"
    <3>2. f = [e EXCEPT !.tx = t, !.funding = g] BY <2>7, <2>14
    <3> HIDE DEF g
    <3>3. Has(f, t, e.utxos, e.cursor, g, e.fanout, e.lost)
      BY <1>0, <2>8, <2>11, <3>2, EditTxFunding
    <3>4. Keeps(e, f)
      <4> DEFINE ins == {}
                 outs == <<Pull>>
      <4>1. Submitted(e.tx, t, "fund", ins, outs) BY <2>5
      <4>2. Placed(e, t, "fund", outs, g, e.fanout, e.lost) BY <2>1, <2>11 DEF Placed
      <4> HIDE DEF ins, outs
      <4>3. e.cursor = 0 \/ e.cursor < Len(e.utxos) BY EngineFields DEF Books, Known
      <4> QED BY <2>1, <3>3, <4>1, <4>2, <4>3, KeepsSubmitted
    <3>6. f.tx = t BY <3>3 DEF Has
    <3> QED BY <2>12, <3>4, <3>6 DEF f
  <2> QED BY <2>13, <2>14
<1> QED BY <1>1, <1>2

\* An amount is a number.
LEMMA AmountIs ==
  ASSUME NEW t, t \in Seq(TxRecord)
  PROVE  \A c \in Coins(t) : Amount(t, c) \in Nat
<1>1. ASSUME NEW c \in Coins(t) PROVE Amount(t, c) \in Nat
  <2>1. c[1] \in DOMAIN t /\ c[2] \in 1 .. Len(t[c[1]].outs) BY CoinIs
  <2>2. t[c[1]] \in TxRecord BY <2>1
  <2>3. t[c[1]].outs \in Seq(Nat) BY <2>2 DEF TxRecord
  <2>4. t[c[1]].outs[c[2]] \in Nat
    <3>1. ASSUME NEW s \in Seq(Nat), NEW k \in 1 .. Len(s) PROVE s[k] \in Nat OBVIOUS
    <3> QED BY <2>1, <2>3, <3>1
  <2> QED BY <2>4 DEF Amount
<1> QED BY <1>1

\* The positions of the coins that can pay.
Able(e) == {i \in DOMAIN e.utxos : Amount(e.tx, e.utxos[i]) >= 1}

\* The usable coins are finite in number, and each is a coin with an amount.
LEMMA UsableIs ==
  ASSUME NEW e, Books(e)
  PROVE  /\ Usable(e) = Cardinality(Able(e)) /\ IsFiniteSet(Able(e)) /\ Usable(e) \in Nat
         /\ Able(e) \subseteq DOMAIN e.utxos /\ DOMAIN e.utxos = 1 .. Len(e.utxos)
         /\ Len(e.utxos) \in Nat
         /\ \A i \in DOMAIN e.utxos : /\ e.utxos[i] \in Coins(e.tx)
                                      /\ Amount(e.tx, e.utxos[i]) \in Nat
<1>1. e.utxos \in Seq(Place) /\ e.tx \in Seq(TxRecord) BY EngineFields DEF Books
<1>2. DOMAIN e.utxos = 1 .. Len(e.utxos) /\ Len(e.utxos) \in Nat BY <1>1
<1>3. IsFiniteSet(DOMAIN e.utxos)
  <2>1. Len(e.utxos) \in Int BY <1>2
  <2> QED BY <1>2, <2>1, FS_Interval
<1>4. Able(e) \subseteq DOMAIN e.utxos BY DEF Able
<1>5. IsFiniteSet(Able(e)) BY <1>3, <1>4, FS_Subset
<1>6. Usable(e) = Cardinality(Able(e)) BY DEF Usable, Able
<1>7. Usable(e) \in Nat BY <1>5, <1>6, FS_CardinalityType
<1>8. \A i \in DOMAIN e.utxos : e.utxos[i] \in Coins(e.tx)
  <2>1. \A i \in DOMAIN e.utxos : e.utxos[i] \in Range(e.utxos) BY DEF Range
  <2> QED BY <2>1 DEF Books, Known
<1> QED BY <1>1, <1>2, <1>4, <1>5, <1>6, <1>7, <1>8, AmountIs

\* The coins a fan-out may split.
LEMMA CandidatesAre ==
  ASSUME NEW e, Books(e), NEW minimum, NEW seed, NEW s, s = FanoutCandidates(e, minimum, seed)
  PROVE  /\ s \in Seq(Able(e))
         /\ \A k \in DOMAIN s : e.utxos[s[k]] \in seed \/ Usable(e) > minimum
<1> DEFINE amount(i) == Amount(e.tx, e.utxos[i])
           able == Able(e)
           first == {i \in able : e.utxos[i] \in seed
                                  /\ \A j \in able : e.utxos[j] = e.utxos[i] => i <= j}
           S == IF Usable(e) > minimum THEN able \ first ELSE {}
           Before(i, j) == amount(i) > amount(j) \/ (amount(i) = amount(j) /\ i < j)
           R == {p \in S \X S : Before(p[1], p[2])}
           a == Ascending(first)
           q == InOrder(S, Before)
<1>1. s = a \o q BY DEF FanoutCandidates, Able
<1>2. IsFiniteSet(able) /\ (\A i \in able : i \in Nat /\ amount(i) \in Nat)
  BY UsableIs
<1>3. first \subseteq able /\ S \subseteq able OBVIOUS
<1>4. IsFiniteSet(first) /\ IsFiniteSet(S) BY <1>2, <1>3, FS_Subset
<1>5. a \in Seq(first)
  <2>1. first \in SUBSET Nat BY <1>2, <1>3
  <2> HIDE DEF first
  <2> QED BY <1>4, <2>1, AscendingLists DEF Lists
<1>6. \A i \in first : e.utxos[i] \in seed OBVIOUS
<1>7. S = {} \/ Usable(e) > minimum OBVIOUS
<1> HIDE DEF a, first, S
<1>8. \A i \in S : i \in Nat /\ amount(i) \in Nat BY <1>2, <1>3
<1>10. \A x, y \in S : <<x, y>> \in R <=> Before(x, y) OBVIOUS
<1>11. Orders(R, S)
  <2>2. \A x \in S : ~Before(x, x) BY <1>8
  <2>3. \A x, y, z \in S : Before(x, y) /\ Before(y, z) => Before(x, z) BY <1>8
  <2>4. \A x, y \in S : x = y \/ Before(x, y) \/ Before(y, x) BY <1>8
  <2> HIDE DEF R, Before
  <2> QED BY <1>10, <2>2, <2>3, <2>4 DEF Orders
<1>12. q = [k \in 1 .. Cardinality(S) |->
             CHOOSE x \in S : Cardinality({y \in S : Before(y, x)}) = k - 1]
  BY DEF InOrder
<1>13. q = [k \in 1 .. Cardinality(S) |-> q[k]]
  <2> DEFINE g(k) == CHOOSE x \in S : Cardinality({y \in S : Before(y, x)}) = k - 1
  <2>1. q = [k \in 1 .. Cardinality(S) |-> g(k)] BY <1>12
  <2> HIDE DEF q, g
  <2> QED BY <2>1
<1>14. \A k \in 1 .. Cardinality(S) :
        q[k] = CHOOSE x \in S : Cardinality({y \in S : Before(y, x)}) = k - 1
  <2> HIDE DEF q
  <2> QED BY <1>12
<1> HIDE DEF R, q, Before
<1>15. \A x \in S : {y \in S : Before(y, x)} = Below(R, S, x) BY <1>10 DEF Below
<1>16. \A k \in 1 .. Cardinality(S) :
        (\E x \in S : Cardinality(Below(R, S, x)) = k - 1)
          => q[k] \in S /\ Cardinality(Below(R, S, q[k])) = k - 1
  <2>1. SUFFICES ASSUME NEW k \in 1 .. Cardinality(S),
                        \E x \in S : Cardinality(Below(R, S, x)) = k - 1
                 PROVE  q[k] \in S /\ Cardinality(Below(R, S, q[k])) = k - 1
    OBVIOUS
  <2>2. \E x \in S : Cardinality({y \in S : Before(y, x)}) = k - 1 BY <1>15, <2>1
  <2>3. q[k] \in S /\ Cardinality({y \in S : Before(y, q[k])}) = k - 1 BY <1>14, <2>2
  <2> QED BY <1>15, <2>3
<1>17. Lists(q, S, R) BY <1>4, <1>11, <1>13, <1>16, ListedByPlace
<1>18. q \in Seq(S) BY <1>17 DEF Lists
<1> HIDE DEF able
<1>19. a \in Seq(able) /\ q \in Seq(able) BY <1>3, <1>5, <1>18
<1>20. s \in Seq(able) BY <1>1, <1>19
<1>21. ASSUME NEW k \in DOMAIN s PROVE e.utxos[s[k]] \in seed \/ Usable(e) > minimum
  <2>1. Len(a) \in Nat /\ Len(q) \in Nat BY <1>5, <1>18
  <2>2. /\ Len(s) = Len(a) + Len(q) /\ DOMAIN s = 1 .. Len(s)
        /\ \A i \in 1 .. Len(a) + Len(q) : s[i] = IF i <= Len(a) THEN a[i] ELSE q[i - Len(a)]
    BY <1>1, <1>19
  <2>3. k \in 1 .. Len(a) + Len(q) BY <2>2
  <2>4. CASE k <= Len(a)
    <3>1. k \in 1 .. Len(a) BY <2>1, <2>3, <2>4
    <3>2. s[k] = a[k] /\ a[k] \in first BY <1>5, <2>2, <2>3, <2>4, <3>1
    <3> QED BY <1>6, <3>2
  <2>5. CASE ~(k <= Len(a))
    <3>1. k - Len(a) \in 1 .. Len(q) BY <2>1, <2>3, <2>5
    <3>2. q[k - Len(a)] \in S BY <1>18, <3>1
    <3> QED BY <1>7, <3>2
  <2> QED BY <2>4, <2>5
<1> QED BY <1>20, <1>21 DEF able

\* The best of them that has confirmed.
BestSplit(e, minimum, seed) ==
  Kept(FanoutCandidates(e, minimum, seed), LAMBDA i : TxOutConfirmed(e.tx, e.utxos[i]))

\* The coin a fan-out splits is usable, confirmed, and fresh unless more than the
\* minimum is usable.
LEMMA BestSplitIs ==
  ASSUME NEW e, Books(e), NEW minimum, NEW seed, NEW s, s = BestSplit(e, minimum, seed), s # <<>>
  PROVE  /\ Head(s) \in Able(e) /\ TxOutConfirmed(e.tx, e.utxos[Head(s)])
         /\ e.utxos[Head(s)] \in seed \/ Usable(e) > minimum
<1> DEFINE q == FanoutCandidates(e, minimum, seed)
           P == {k \in DOMAIN q : TxOutConfirmed(e.tx, e.utxos[q[k]])}
<1>1. q \in Seq(Able(e)) /\ \A k \in DOMAIN q : e.utxos[q[k]] \in seed \/ Usable(e) > minimum
  BY CandidatesAre
<1>2. s = [n \in DOMAIN Ascending(P) |-> q[Ascending(P)[n]]] BY DEF BestSplit, Kept
<1> HIDE DEF q
<1>3. P \in SUBSET (1 .. Len(q)) BY <1>1
<1>4. \A k \in P : k \in DOMAIN q /\ TxOutConfirmed(e.tx, e.utxos[q[k]]) OBVIOUS
<1> HIDE DEF P
<1>5. s \in Seq(Able(e)) /\ IsKept(s, q, P) BY <1>1, <1>2, <1>3, KeptPositions
<1>6. Len(s) \in Nat /\ Len(s) >= 1 /\ Head(s) = s[1] /\ 1 \in 1 .. Len(s) BY <1>5
<1>7. PICK k \in P : s[1] = q[k] BY <1>5, <1>6 DEF IsKept
<1>8. k \in DOMAIN q /\ TxOutConfirmed(e.tx, e.utxos[q[k]]) BY <1>4
<1>9. s[1] \in Able(e) BY <1>5, <1>6
<1> QED BY <1>1, <1>6, <1>7, <1>8, <1>9

\* The list b is a without the coin in place i.
IsWithout(b, a, i) ==
  \A k \in 1 .. Len(b) : b[k] = IF k < i THEN a[k] ELSE a[k + 1]

\* A list of coins without one of them.
LEMMA RemoveAtIs ==
  ASSUME NEW a \in Seq(Place), NEW i \in DOMAIN a, NEW b, b = RemoveAt(a, i)
  PROVE  /\ b \in Seq(Place) /\ Len(b) = Len(a) - 1 /\ Len(a) \in Nat /\ Len(b) \in Nat
         /\ IsWithout(b, a, i)
         /\ Range(b) \subseteq Range(a) /\ Range(a) \subseteq Range(b) \cup {a[i]}
<1> DEFINE x == SubSeq(a, 1, i - 1)
           y == SubSeq(a, i + 1, Len(a))
<1>1. b = x \o y BY DEF RemoveAt
<1>2. Len(a) \in Nat /\ DOMAIN a = 1 .. Len(a) /\ i \in 1 .. Len(a) /\ \A k \in 1 .. Len(a) : a[k] \in Place
  OBVIOUS
<1>3. x \in Seq(Place) /\ Len(x) = i - 1 /\ \A k \in 1 .. i - 1 : x[k] = a[k]
  BY <1>2
<1>4. y \in Seq(Place) /\ Len(y) = Len(a) - i /\ \A k \in 1 .. Len(a) - i : y[k] = a[k + i]
  <2>1. Len(y) = Len(a) - i BY <1>2
  <2>2. \A k \in 1 .. Len(a) - i : y[k] = a[k + i] BY <1>2
  <2>3. y \in Seq(Place) BY <1>2
  <2> QED BY <2>1, <2>2, <2>3
<1> HIDE DEF x, y
<1>5. b \in Seq(Place) /\ Len(b) = Len(a) - 1
  <2>1. b \in Seq(Place) /\ Len(b) = Len(x) + Len(y) BY <1>1, <1>3, <1>4
  <2>2. i - 1 + (Len(a) - i) = Len(a) - 1 BY <1>2
  <2> QED BY <1>3, <1>4, <2>1, <2>2
<1>6. ASSUME NEW k \in 1 .. Len(b) PROVE b[k] = IF k < i THEN a[k] ELSE a[k + 1]
  <2>1. b[k] = IF k <= Len(x) THEN x[k] ELSE y[k - Len(x)]
    <3>1. x \in Seq(Place) /\ y \in Seq(Place) BY <1>3, <1>4
    <3>2. /\ Len(b) = Len(x) + Len(y)
          /\ \A n \in 1 .. Len(x) + Len(y) : b[n] = IF n <= Len(x) THEN x[n] ELSE y[n - Len(x)]
      BY <1>1, <3>1, ConcatProperties
    <3> QED BY <3>2
  <2>2. CASE k < i BY <1>2, <1>3, <2>1, <2>2
  <2>3. CASE ~(k < i)
    <3>1. k - Len(x) \in 1 .. Len(a) - i /\ (k - Len(x)) + i = k + 1 /\ ~(k <= Len(x))
      BY <1>2, <1>3, <1>5, <2>3
    <3> QED BY <1>4, <2>1, <2>3, <3>1
  <2> QED BY <2>2, <2>3
<1>7. Range(b) = {b[k] : k \in 1 .. Len(b)} /\ Range(a) = {a[k] : k \in 1 .. Len(a)}
  BY <1>5 DEF Range
<1>8. ASSUME NEW k \in 1 .. Len(b) PROVE b[k] \in Range(a)
  <2>1. k \in 1 .. Len(a) /\ k + 1 \in 1 .. Len(a) BY <1>2, <1>5
  <2> QED BY <1>6, <1>7, <2>1
<1>9. ASSUME NEW k \in 1 .. Len(a), k # i PROVE a[k] \in Range(b)
  <2>1. CASE k < i
    <3>1. k \in 1 .. Len(b) BY <1>2, <1>5, <2>1
    <3> QED BY <1>6, <1>7, <2>1, <3>1
  <2>2. CASE ~(k < i)
    <3>1. k - 1 \in 1 .. Len(b) /\ (k - 1) + 1 = k /\ ~(k - 1 < i) BY <1>2, <1>5, <1>9, <2>2
    <3>2. b[k - 1] = a[k] BY <1>6, <3>1
    <3> QED BY <1>7, <3>1, <3>2
  <2> QED BY <2>1, <2>2
<1>10. Range(b) \subseteq Range(a) BY <1>7, <1>8
<1>11. Range(a) \subseteq Range(b) \cup {a[i]} BY <1>7, <1>9
<1>12. Len(b) \in Nat BY <1>2, <1>5
<1>13. IsWithout(b, a, i) BY <1>6 DEF IsWithout
<1> QED BY <1>2, <1>5, <1>10, <1>11, <1>12, <1>13

\* A fan-out takes one branch that can pay: the funding that has just
\* confirmed, or one of more than the minimum.
TakesOne(e, f, minimum, seed) ==
  \E i \in Able(e) :
    /\ e.utxos[i] \in seed \/ Usable(e) > minimum
    /\ f.utxos = RemoveAt(e.utxos, i)

\* Equal branches.
LEMMA EqualOutputs ==
  ASSUME NEW count \in Nat, count >= 1, count <= MaxOuts, NEW each \in Nat,
         NEW outs, outs = [k \in 1 .. count |-> each]
  PROVE  outs \in Seq(Nat) /\ Len(outs) = count /\ Len(outs) \in 1 .. MaxOuts
<1>1. outs \in [1 .. count -> Nat] OBVIOUS
<1>2. outs \in Seq(Nat) /\ Len(outs) = count BY <1>1
<1>3. MaxOuts \in Nat BY EngineConstants DEF MaxOuts
<1> QED BY <1>2, <1>3

\* A fan-out keeps the books and takes at most one branch, which it may.
LEMMA StartFanoutKeeps ==
  ASSUME NEW e, Books(e), NEW minimum, NEW target \in Nat, target + 1 <= MaxOuts, NEW seed,
         NEW mode, NEW f, f = StartFanout(e, minimum, target, seed, mode)
  PROVE  /\ Keeps(e, f) /\ KeepsOne(e, f)
         /\ f = e \/ f.fanout = e.fanout \/ (e.fanout = 0 /\ TakesOne(e, f, minimum, seed))
<1> DEFINE count == target - Usable(e) + 1
           confirmed == BestSplit(e, minimum, seed)
           h == Head(confirmed)
           coin == e.utxos[h]
           each == (Amount(e.tx, coin) - 1) \div count
           outs == [k \in 1 .. count |-> each]
           t == Accepted(e.tx, "fan", {coin}, outs, FALSE)
           quiet == \/ e.fanout # 0 \/ Usable(e) >= target
                    \/ mode \in {"read", "refused"} \/ confirmed = <<>>
           few == each < BranchMin \/ ~Accepts(e.tx, {coin})
           L == e.lost \cup Range(Outputs(Len(t), t[Len(t)].outs))
           a == RemoveAt(e.utxos, h)
           moved == [e EXCEPT !.tx = t, !.fanout = Len(t), !.utxos = a]
<1>1. f = IF quiet THEN e ELSE IF few THEN e
          ELSE IF mode = "hidden" THEN [e EXCEPT !.tx = t, !.lost = L]
          ELSE Wrapped(moved)
  BY DEF StartFanout, BestSplit
<1>2. CASE quiet \/ few
  <2>1. f = e
    <3> HIDE DEF quiet, few, L, moved, t
    <3> QED BY <1>1, <1>2
  <2> QED BY <2>1, KeepsSelf
<1>3. CASE ~quiet /\ ~few
  <2>1. e.fanout = 0 /\ Usable(e) < target /\ confirmed # <<>> /\ Accepts(e.tx, {coin})
    <3>1. Usable(e) \in Nat BY UsableIs
    <3> HIDE DEF confirmed, coin, each
    <3> QED BY <1>3, <3>1
  <2>2. f = IF mode = "hidden" THEN [e EXCEPT !.tx = t, !.lost = L] ELSE Wrapped(moved)
    <3> HIDE DEF quiet, few, L, moved, t
    <3> QED BY <1>1, <1>3
  <2>3. h \in Able(e) /\ (e.utxos[h] \in seed \/ Usable(e) > minimum)
    <3> HIDE DEF confirmed
    <3>1. confirmed = BestSplit(e, minimum, seed) BY DEF confirmed
    <3> QED BY <2>1, <3>1, BestSplitIs
  <2> HIDE DEF quiet, few, confirmed, h
  <2>4. /\ h \in DOMAIN e.utxos /\ coin \in Coins(e.tx) /\ Amount(e.tx, coin) \in Nat
        /\ Amount(e.tx, coin) >= 1
    BY <2>3, UsableIs DEF Able
  <2>5. count \in Nat /\ count >= 1 /\ count <= MaxOuts
    <3>1. Usable(e) \in Nat BY UsableIs
    <3>2. MaxOuts \in Nat BY EngineConstants DEF MaxOuts
    <3> QED BY <2>1, <3>1, <3>2
  <2> HIDE DEF count, coin
  <2>6. each \in Nat
    <3>1. Amount(e.tx, coin) - 1 \in Nat BY <2>4
    <3>2. count > 0 BY <2>5
    <3> QED BY <2>5, <3>1, <3>2
  <2> HIDE DEF each
  <2>7. outs \in Seq(Nat) /\ Len(outs) = count /\ Len(outs) \in 1 .. MaxOuts
    BY <2>5, <2>6, EqualOutputs
  <2>8. e \in EngineRec /\ Ledger(e.tx) /\ e.utxos \in Seq(Place) /\ e.lost \in SUBSET Place
        /\ e.cursor \in Nat /\ (e.cursor = 0 \/ e.cursor < Len(e.utxos))
    BY EngineFields DEF Books, Known
  <2>9. Live(e.tx, coin[1]) /\ Len(e.tx) < MaxTxs BY <2>1 DEF Accepts, TxOutWithMempool
  <2>10. "fan" \in Kinds /\ FALSE \in BOOLEAN BY DEF Kinds
  <2> HIDE DEF outs
  <2>11. Submitted(e.tx, t, "fan", {coin}, outs)
    <3>1. {coin} \in SUBSET Coins(e.tx) /\ \A c \in {coin} : Live(e.tx, c[1]) BY <2>4, <2>9
    <3> QED BY <2>7, <2>8, <2>10, <3>1, AcceptedIs
  <2> HIDE DEF t
  <2>12. Ledger(t) /\ Len(t) \in Nat /\ t \in Seq(TxRecord) /\ Len(t) \in DOMAIN t
         /\ t[Len(t)].outs = outs
    <3>1. Ledger(t) /\ Len(t) \in DOMAIN t /\ t[Len(t)].outs = outs BY <2>11 DEF Submitted
    <3>2. t \in Seq(TxRecord) BY <3>1 DEF Ledger
    <3> QED BY <3>1, <3>2
  <2>13. f.tx = t => KeepsOne(e, f)
    <3>1. OneInput(e.tx) => OneInput(t) BY <2>11 DEF Submitted
    <3> QED BY <3>1 DEF KeepsOne
  <2>14. CASE mode = "hidden"
    <3>0. Range(Outputs(Len(t), t[Len(t)].outs)) = NewCoins(Len(t), outs)
          /\ Outputs(Len(t), t[Len(t)].outs) \in Seq(Place)
          /\ Range(Outputs(Len(t), t[Len(t)].outs)) = {c \in Coins(t) : c[1] = Len(t)}
      BY <2>12, OutputsAre
    <3>1. L = e.lost \cup NewCoins(Len(t), outs) BY <3>0
    <3>2. L \in SUBSET Place
      <4>1. Coins(t) \subseteq Place BY <2>12, CoinIs
      <4> QED BY <2>8, <3>0, <4>1
    <3>3. f = [e EXCEPT !.tx = t, !.lost = L] BY <2>2, <2>14
    <3> HIDE DEF L
    <3>4. Has(f, t, e.utxos, e.cursor, e.funding, e.fanout, L)
      BY <2>8, <2>12, <3>2, <3>3, EditTxLost
    <3>5. Hides(L, e, t, outs) BY <3>1 DEF Hides
    <3>6. Keeps(e, f)
      <4> DEFINE ins == {coin}
      <4>1. Submitted(e.tx, t, "fan", ins, outs) BY <2>11
      <4> HIDE DEF ins
      <4> QED BY <2>9, <3>4, <3>5, <4>1, KeepsHidden
    <3>7. f.tx = t /\ f.fanout = e.fanout BY <3>4 DEF Has
    <3> QED BY <2>13, <3>6, <3>7
  <2>15. CASE mode # "hidden"
    <3>1. f = Wrapped(moved) BY <2>2, <2>15
    <3>2. a = RemoveAt(e.utxos, h) OBVIOUS
    <3> HIDE DEF a
    <3>3. /\ a \in Seq(Place) /\ Len(a) = Len(e.utxos) - 1 /\ Len(e.utxos) \in Nat
          /\ Range(a) \subseteq Range(e.utxos) /\ Range(e.utxos) \subseteq Range(a) \cup {coin}
      <4>1. e.utxos[h] = coin BY DEF coin
      <4>2. e.utxos \in Seq(Place) /\ h \in DOMAIN e.utxos BY <2>4, <2>8
      <4> HIDE DEF coin
      <4>3. Range(e.utxos) \subseteq Range(a) \cup {e.utxos[h]} BY <3>2, <4>2, RemoveAtIs
      <4> QED BY <3>2, <4>1, <4>2, <4>3, RemoveAtIs
    <3>4. Has(moved, t, a, e.cursor, e.funding, Len(t), e.lost)
      BY <2>8, <2>12, <3>3, EditTxFanoutCoins
    <3>5. moved \in EngineRec BY <3>4 DEF Has
    <3> HIDE DEF moved
    <3>6. /\ Has(f, moved.tx, moved.utxos, f.cursor, moved.funding, moved.fanout, moved.lost)
          /\ f.cursor = 0 \/ f.cursor < Len(moved.utxos)
               \/ (moved.utxos = <<>> /\ f.cursor = moved.cursor)
          /\ moved.cursor = 0 => f.cursor = 0
      BY <3>1, <3>5, WrappedIs
    <3>7. Has(f, t, a, f.cursor, e.funding, Len(t), e.lost) /\ (e.cursor = 0 => f.cursor = 0)
      BY <3>4, <3>6 DEF Has
    <3>8. f.cursor = 0 \/ f.cursor < Len(a)
      <4>1. CASE a = <<>> /\ f.cursor = e.cursor
        <5>1. Len(a) = 0
          <6>1. Len(<<>>) = 0 OBVIOUS
          <6> QED BY <4>1, <6>1
        <5>2. Len(e.utxos) = 1 BY <3>3, <5>1
        <5> QED BY <2>8, <4>1, <5>2
      <4> QED BY <3>4, <3>6, <4>1 DEF Has
    <3>9. Keeps(e, f)
      <4> DEFINE ins == {coin}
                 n == f.cursor
      <4>1. Submitted(e.tx, t, "fan", ins, outs) BY <2>11
      <4>2. Placed(e, t, "fan", outs, e.funding, Len(t), e.lost) BY <2>1 DEF Placed
      <4>3. Range(a) \subseteq Range(e.utxos) /\ Range(e.utxos) \subseteq Range(a) \cup ins BY <3>3
      <4>4. Has(f, t, a, n, e.funding, Len(t), e.lost) /\ (e.cursor = 0 => n = 0)
            /\ (n = 0 \/ n < Len(a))
        BY <3>7, <3>8
      <4> HIDE DEF ins, n
      <4> QED BY <2>9, <4>1, <4>2, <4>3, <4>4, KeepsSubmitted
    <3>10. f.tx = t /\ f.utxos = a BY <3>7 DEF Has
    <3>11. TakesOne(e, f, minimum, seed) BY <2>3, <3>2, <3>10 DEF TakesOne
    <3> QED BY <2>1, <2>13, <3>9, <3>10, <3>11
  <2> QED BY <2>14, <2>15
<1> QED BY <1>2, <1>3

\* What a round needs and wants of the branches.
LEMMA EnsureFundsKeeps ==
  ASSUME NEW e, Books(e), NEW need, NEW target \in Nat, target + 1 <= MaxOuts, NEW mode
  PROVE  Keeps(e, EnsureFunds(e, need, target, mode))
         /\ KeepsOne(e, EnsureFunds(e, need, target, mode))
<1> DEFINE seed == FundingSeed(e, mode)
           ready == Ready(e, mode)
           low == Total(ready) < target * BranchMin
           refilled == IF low THEN StartFunding(ready, mode) ELSE ready
           action == BranchProvisioningAction(Usable(ready), need, target,
                                              refilled.fanout # 0, seed # {})
           split == StartFanout(refilled, need, target, seed, mode)
           f == EnsureFunds(e, need, target, mode)
<1>1. Keeps(e, ready) /\ KeepsOne(e, ready) BY ReadyKeeps
<1>2. Books(ready) BY <1>1 DEF Keeps
<1>3. f = CASE action = "StartFunding" -> StartFunding(refilled, mode)
            [] action = "StartFanout" ->
                 (IF split.fanout # 0 THEN split ELSE StartFunding(split, mode))
            [] OTHER -> refilled
  BY DEF EnsureFunds, Ready
<1> HIDE DEF ready, low
<1>4. Keeps(ready, refilled) /\ KeepsOne(ready, refilled)
  BY <1>2, StartFundingKeeps, KeepsSelf
<1>5. Keeps(e, refilled) /\ KeepsOne(e, refilled) BY <1>1, <1>4, KeepsBoth
<1>6. Books(refilled) BY <1>4 DEF Keeps
<1> HIDE DEF refilled, seed
<1>7. Keeps(refilled, split) /\ KeepsOne(refilled, split) BY <1>6, StartFanoutKeeps
<1>8. Keeps(e, split) /\ KeepsOne(e, split) BY <1>5, <1>7, KeepsBoth
<1>9. Books(split) BY <1>7 DEF Keeps
<1> HIDE DEF split
<1>10. ASSUME NEW g, Books(g), Keeps(e, g), KeepsOne(e, g)
       PROVE  Keeps(e, StartFunding(g, mode)) /\ KeepsOne(e, StartFunding(g, mode))
  BY <1>10, StartFundingKeeps, KeepsBoth
<1>11. f = StartFunding(refilled, mode) \/ f = split \/ f = StartFunding(split, mode) \/ f = refilled
  <2> HIDE DEF action, f
  <2> QED BY <1>3
<1> HIDE DEF f
<1>12. Keeps(e, f) /\ KeepsOne(e, f) BY <1>5, <1>6, <1>8, <1>9, <1>10, <1>11
<1> QED BY <1>12 DEF f

(***************************************************************************)
(* The floor pool: its coins by size, and the ones a fan-out uses.         *)
(***************************************************************************)
\* The positions of a list but for some.
Without(P, a, U) == U \in SUBSET (DOMAIN a) /\ P = DOMAIN a \ U

\* x lists all of P in m places.
AllOf(x, P, m) ==
  x \in Seq(P) /\ Len(x) = m /\ m \in Nat /\ \A i \in P : \E k \in 1 .. Len(x) : x[k] = i

\* The places that remain without U are listed in order.
LEMMA LeftPlaces ==
  ASSUME NEW a \in Seq(Place), NEW U, NEW P, Without(P, a, U)
  PROVE  /\ AllOf(Ascending(P), P, Len(a) - Cardinality(U))
         /\ Len(a) \in Nat /\ Cardinality(U) \in Nat
<1>0. U \in SUBSET (DOMAIN a) /\ P = DOMAIN a \ U BY DEF Without
<1>1. Len(a) \in Nat /\ DOMAIN a = 1 .. Len(a) OBVIOUS
<1>2. IsFiniteSet(DOMAIN a) /\ Cardinality(DOMAIN a) = Len(a)
  <2>1. Len(a) \in Int /\ 1 \in Int BY <1>1
  <2>2. IsFiniteSet(1 .. Len(a)) BY <2>1, FS_Interval
  <2>3. Cardinality(1 .. Len(a)) = IF 1 > Len(a) THEN 0 ELSE Len(a) - 1 + 1 BY <2>1, FS_Interval
  <2> QED BY <1>1, <2>2, <2>3
<1>3. IsFiniteSet(U) /\ Cardinality(U) \in Nat
  <2>1. IsFiniteSet(U) BY <1>0, <1>2, FS_Subset
  <2> QED BY <2>1, FS_CardinalityType
<1>4. IsFiniteSet(P) /\ Cardinality(P) = Len(a) - Cardinality(U)
  <2>1. DOMAIN a \cap U = U BY <1>0
  <2>2. /\ IsFiniteSet(DOMAIN a \ U)
        /\ Cardinality(DOMAIN a \ U) = Cardinality(DOMAIN a) - Cardinality(DOMAIN a \cap U)
    BY <1>2, FS_Difference
  <2> QED BY <1>0, <1>2, <2>1, <2>2
<1>5. P \in SUBSET Nat BY <1>0, <1>1
<1>6. Lists(Ascending(P), P, Less(P)) BY <1>4, <1>5, AscendingLists
<1>7. Len(a) - Cardinality(U) \in Nat
  <2>1. Cardinality(P) \in Nat BY <1>4, FS_CardinalityType
  <2> QED BY <1>4, <2>1
<1> QED BY <1>1, <1>3, <1>4, <1>6, <1>7 DEF Lists, AllOf

\* A list by the positions of another one.
IsByPlaces(b, a, x, m) == b = [k \in 1 .. m |-> b[k]] /\ \A k \in 1 .. m : b[k] = a[x[k]]

\* b holds the members of a at the places P, m in number.
AreThose(b, a, P, D, m) ==
  /\ b \in Seq(D) /\ Len(b) = m
  /\ \A k \in DOMAIN b : \E i \in P : b[k] = a[i]
  /\ \A i \in P : \E k \in DOMAIN b : b[k] = a[i]
  /\ Range(b) \subseteq Range(a)

\* A list read at the places x lists holds those members.
LEMMA ByPlaces ==
  ASSUME NEW D, NEW a \in Seq(D), NEW P \in SUBSET (DOMAIN a), NEW m, NEW x, AllOf(x, P, m),
         NEW b, IsByPlaces(b, a, x, m)
  PROVE  AreThose(b, a, P, D, m)
<1>0. /\ x \in Seq(P) /\ Len(x) = m /\ m \in Nat /\ \A i \in P : \E k \in 1 .. Len(x) : x[k] = i
      /\ b = [k \in 1 .. m |-> b[k]] /\ \A k \in 1 .. m : b[k] = a[x[k]]
  BY DEF AllOf, IsByPlaces
<1>1. \A k \in 1 .. m : x[k] \in P BY <1>0
<1>2. \A i \in P : i \in DOMAIN a /\ a[i] \in D OBVIOUS
<1>3. \A k \in 1 .. m : a[x[k]] \in D BY <1>1, <1>2
<1>4. b \in [1 .. m -> D]
  <2>1. \A k \in 1 .. m : b[k] \in D BY <1>0, <1>3
  <2> QED BY <1>0, <2>1
<1>5. b \in Seq(D) /\ Len(b) = m /\ DOMAIN b = 1 .. m BY <1>0, <1>4
<1>6. \A k \in 1 .. m : b[k] = a[x[k]] BY <1>0
<1>7. \A k \in DOMAIN b : \E i \in P : b[k] = a[i] BY <1>1, <1>5, <1>6
<1>8. \A i \in P : \E k \in DOMAIN b : b[k] = a[i]
  <2>1. SUFFICES ASSUME NEW i \in P PROVE \E k \in DOMAIN b : b[k] = a[i] OBVIOUS
  <2>2. PICK k \in 1 .. m : x[k] = i BY <1>0
  <2> QED BY <1>5, <1>6, <2>2
<1>9. Range(b) \subseteq Range(a) BY <1>2, <1>7 DEF Range
<1> QED BY <1>5, <1>7, <1>8, <1>9 DEF AreThose

\* A list of coins without some of them.
Leaves(b, a, U) ==
  /\ b \in Seq(Place) /\ Len(b) = Len(a) - Cardinality(U) /\ Len(a) \in Nat
  /\ Cardinality(U) \in Nat
  /\ \A k \in DOMAIN b : \E i \in DOMAIN a \ U : b[k] = a[i]
  /\ \A i \in DOMAIN a \ U : \E k \in DOMAIN b : b[k] = a[i]
  /\ Range(b) \subseteq Range(a)

\* The coins that remain when those at U are taken.
LEMMA LeftOver ==
  ASSUME NEW a \in Seq(Place), NEW U \in SUBSET (DOMAIN a), NEW n, n = Cardinality(U),
         NEW b, b = [k \in 1 .. Len(a) - n |-> a[Ascending(DOMAIN a \ U)[k]]]
  PROVE  Leaves(b, a, U)
<1> DEFINE P == DOMAIN a \ U
           x == Ascending(P)
           m == Len(a) - n
<1>1. b = [k \in 1 .. m |-> a[x[k]]] OBVIOUS
<1>2. SUFFICES ASSUME TRUE PROVE \A c : c = [k \in 1 .. m |-> a[x[k]]] => Leaves(c, a, U)
  BY <1>1
<1>3. SUFFICES ASSUME NEW c, c = [k \in 1 .. m |-> a[x[k]]] PROVE Leaves(c, a, U)
  OBVIOUS
<1>4. Without(P, a, U) /\ P \in SUBSET (DOMAIN a) BY DEF Without
<1> HIDE DEF P
<1>5. \A k \in 1 .. m : c[k] = a[x[k]] BY <1>3
<1>6. c = [k \in 1 .. m |-> c[k]]
  <2> DEFINE g(k) == a[x[k]]
  <2>1. c = [k \in 1 .. m |-> g(k)] BY <1>3
  <2> HIDE DEF g
  <2> QED BY <2>1
<1>7. IsByPlaces(c, a, x, m) BY <1>5, <1>6 DEF IsByPlaces
<1>8. AllOf(x, P, m) /\ Len(a) \in Nat /\ Cardinality(U) \in Nat
  BY <1>4, LeftPlaces
<1>10. m = Len(a) - Cardinality(U) OBVIOUS
<1> HIDE DEF x, m
<1>9. AreThose(c, a, P, Place, m) BY <1>4, <1>7, <1>8, ByPlaces
<1> QED BY <1>4, <1>8, <1>9, <1>10 DEF AreThose, Leaves, P

\* The coins of the pool, largest first and the latest first.
Largest(e) ==
  InOrder(DOMAIN e.utxos,
          LAMBDA i, j : Amount(e.tx, e.utxos[i]) > Amount(e.tx, e.utxos[j])
                          \/ (Amount(e.tx, e.utxos[i]) = Amount(e.tx, e.utxos[j]) /\ i > j))

\* The coins of the pool in order of their amounts are places of its list.
LEMMA LargestLists ==
  ASSUME NEW e, Books(e)
  PROVE  Largest(e) \in Seq(DOMAIN e.utxos)
<1> DEFINE S == DOMAIN e.utxos
           amount(i) == Amount(e.tx, e.utxos[i])
           Before(i, j) == amount(i) > amount(j) \/ (amount(i) = amount(j) /\ i > j)
           R == {p \in S \X S : Before(p[1], p[2])}
           q == InOrder(S, Before)
<1>1. Largest(e) = q BY DEF Largest
<1>2. IsFiniteSet(S) /\ (\A i \in S : i \in Nat /\ amount(i) \in Nat)
  <2>1. S = 1 .. Len(e.utxos) /\ Len(e.utxos) \in Int BY UsableIs
  <2>2. IsFiniteSet(1 .. Len(e.utxos)) BY <2>1, FS_Interval
  <2>3. \A i \in S : i \in Nat BY <2>1
  <2> QED BY <2>1, <2>2, <2>3, UsableIs
<1> HIDE DEF S
<1>10. \A x, y \in S : <<x, y>> \in R <=> Before(x, y) OBVIOUS
<1>11. Orders(R, S)
  <2>2. \A x \in S : ~Before(x, x) BY <1>2
  <2>3. \A x, y, z \in S : Before(x, y) /\ Before(y, z) => Before(x, z) BY <1>2
  <2>4. \A x, y \in S : x = y \/ Before(x, y) \/ Before(y, x) BY <1>2
  <2> HIDE DEF R, Before
  <2> QED BY <1>10, <2>2, <2>3, <2>4 DEF Orders
<1>12. q = [k \in 1 .. Cardinality(S) |->
             CHOOSE x \in S : Cardinality({y \in S : Before(y, x)}) = k - 1]
  BY DEF InOrder
<1>13. q = [k \in 1 .. Cardinality(S) |-> q[k]]
  <2> DEFINE g(k) == CHOOSE x \in S : Cardinality({y \in S : Before(y, x)}) = k - 1
  <2>1. q = [k \in 1 .. Cardinality(S) |-> g(k)] BY <1>12
  <2> HIDE DEF q, g
  <2> QED BY <2>1
<1>14. \A k \in 1 .. Cardinality(S) :
        q[k] = CHOOSE x \in S : Cardinality({y \in S : Before(y, x)}) = k - 1
  <2> HIDE DEF q
  <2> QED BY <1>12
<1> HIDE DEF R, q, Before
<1>15. \A x \in S : {y \in S : Before(y, x)} = Below(R, S, x) BY <1>10 DEF Below
<1>16. \A k \in 1 .. Cardinality(S) :
        (\E x \in S : Cardinality(Below(R, S, x)) = k - 1)
          => q[k] \in S /\ Cardinality(Below(R, S, q[k])) = k - 1
  <2>1. SUFFICES ASSUME NEW k \in 1 .. Cardinality(S),
                        \E x \in S : Cardinality(Below(R, S, x)) = k - 1
                 PROVE  q[k] \in S /\ Cardinality(Below(R, S, q[k])) = k - 1
    OBVIOUS
  <2>2. \E x \in S : Cardinality({y \in S : Before(y, x)}) = k - 1 BY <1>15, <2>1
  <2>3. q[k] \in S /\ Cardinality({y \in S : Before(y, q[k])}) = k - 1 BY <1>14, <2>2
  <2> QED BY <1>15, <2>3
<1>17. Lists(q, S, R) BY <1>2, <1>11, <1>13, <1>16, ListedByPlace
<1>18. q \in Seq(S) BY <1>17 DEF Lists
<1> QED BY <1>1, <1>18 DEF S

\* What the first k coins of a list amount to.
PoolSum(e, s, k) == MapThenSumSet(LAMBDA j : Amount(e.tx, e.utxos[s[j]]), 1 .. k)

\* The sum of the first k amounts is a number.
LEMMA PoolSumIs ==
  ASSUME NEW e, Books(e), NEW s \in Seq(DOMAIN e.utxos), NEW k \in 1 .. Len(s)
  PROVE  PoolSum(e, s, k) \in Nat
<1> DEFINE D == 1 .. k
           w == [j \in D |-> Amount(e.tx, e.utxos[s[j]])]
           SumsAt(f) == f = [v \in SUBSET D |-> IF v = {} THEN 0
                               ELSE Amount(e.tx, e.utxos[s[Pick(v)]]) + f[v \ {Pick(v)}]]
<1>1. IsFiniteSet(D)
  <2>1. k \in Int /\ 1 \in Int OBVIOUS
  <2> QED BY <2>1, FS_Interval
<1>2. w \in [D -> Nat]
  <2>1. \A j \in D : s[j] \in DOMAIN e.utxos OBVIOUS
  <2> QED BY <2>1, UsableIs
<1>3. \A j \in D : w[j] = Amount(e.tx, e.utxos[s[j]]) OBVIOUS
<1>4. \A v \in SUBSET D : v # {} => Pick(v) \in D BY DEF Pick
<1>5. PoolSum(e, s, k) = (CHOOSE f : SumsAt(f))[D]
  BY DEF PoolSum, MapThenSumSet, MapThenFoldSet, Pick
<1> HIDE DEF D, w
<1>6. PICK g : Sums(g, D, w) BY <1>1, <1>2, SumExists
<1>7. SumsAt(g)
  <2>1. g = [v \in SUBSET D |-> g[v]] BY <1>6 DEF Sums
  <2>2. \A v \in SUBSET D : g[v] = IF v = {} THEN 0
                               ELSE Amount(e.tx, e.utxos[s[Pick(v)]]) + g[v \ {Pick(v)}]
    BY <1>3, <1>4, <1>6 DEF Sums
  <2> QED BY <2>1, <2>2
<1>8. PICK f : SumsAt(f) /\ PoolSum(e, s, k) = f[D]
  <2> HIDE DEF SumsAt
  <2> QED BY <1>5, <1>7
<1>9. SumsOn(f, D, w)
  <2>1. f = [v \in SUBSET D |-> f[v]] BY <1>8
  <2>2. \A v \in SUBSET D : f[v] = IF v = {} THEN 0
                               ELSE Amount(e.tx, e.utxos[s[Pick(v)]]) + f[v \ {Pick(v)}]
    <3>1. SumsAt(f) BY <1>8
    <3> QED BY <3>1
  <2>3. \A v \in SUBSET D : f[v] = IF v = {} THEN 0 ELSE w[Pick(v)] + f[v \ {Pick(v)}]
    BY <1>3, <1>4, <2>2
  <2> QED BY <2>1, <2>3 DEF SumsOn
<1>10. D \in SUBSET D OBVIOUS
<1>11. f[D] = g[D] BY <1>1, <1>2, <1>6, <1>9, <1>10, SumAgrees
<1> QED BY <1>6, <1>8, <1>10, <1>11 DEF Sums

\* The outputs of the pool's fan-out: fills, and the change.
LEMMA PoolOutputs ==
  ASSUME NEW n \in Nat, n >= 1, n <= ChunkOutputs, NEW change, change >= 1 => change \in Nat, NEW outs,
         outs = [k \in 1 .. n |-> BranchMin] \o (IF change >= 1 THEN <<change>> ELSE <<>>)
  PROVE  outs \in Seq(Nat) /\ Len(outs) \in 1 .. MaxOuts
<1> DEFINE a == [k \in 1 .. n |-> BranchMin]
           b == IF change >= 1 THEN <<change>> ELSE <<>>
<1>1. a \in Seq(Nat) /\ Len(a) = n
  <2>1. BranchMin \in Nat BY EngineConstants
  <2>2. a \in [1 .. n -> Nat] BY <2>1
  <2> QED BY <2>2
<1>2. b \in Seq(Nat) /\ Len(b) \in {0, 1}
  <2>1. CASE change >= 1
    <3>1. b = <<change>> /\ change \in Nat BY <2>1
    <3> HIDE DEF b
    <3> QED BY <3>1
  <2>2. CASE ~(change >= 1)
    <3>1. b = <<>> BY <2>2
    <3> HIDE DEF b
    <3> QED BY <3>1
  <2> QED BY <2>1, <2>2
<1>3. outs = a \o b OBVIOUS
<1> HIDE DEF a, b
<1>4. outs \in Seq(Nat) /\ Len(outs) = Len(a) + Len(b) BY <1>1, <1>2, <1>3
<1>5. Len(outs) = n \/ Len(outs) = n + 1 BY <1>1, <1>2, <1>4
<1>6. MaxOuts \in Nat /\ MaxOuts >= ChunkOutputs + 1 /\ ChunkOutputs \in Nat
  BY EngineConstants DEF MaxOuts
<1> QED BY <1>4, <1>5, <1>6

\* The fan-out of the floor pool.
LEMMA StartPoolFanoutKeeps ==
  ASSUME NEW e, Books(e), e.cursor = 0, NEW seedCount \in Nat, NEW mode,
         NEW f, f = StartPoolFanout(e, seedCount, mode)
  PROVE  Keeps(e, f)
<1> DEFINE n == MinOf(seedCount - Usable(e), ChunkOutputs)
           largest == Largest(e)
           enough == {k \in 1 .. Len(largest) : PoolSum(e, largest, k) >= n * BranchMin + 1}
           m == Min(enough)
           used == {largest[j] : j \in 1 .. m}
           change == PoolSum(e, largest, m) - (n * BranchMin + 1)
           outs == [k \in 1 .. n |-> BranchMin] \o (IF change >= 1 THEN <<change>> ELSE <<>>)
           ins == {e.utxos[i] : i \in used}
           kept == [k \in 1 .. Len(e.utxos) - Cardinality(used) |->
                      e.utxos[Ascending(DOMAIN e.utxos \ used)[k]]]
           t == Accepted(e.tx, "fan", ins, outs, FALSE)
           quiet == \/ e.fanout # 0 \/ e.utxos = <<>> \/ Usable(e) >= seedCount
                    \/ enough = {} \/ mode = "refused"
           few == Cardinality(ins) < Cardinality(used) \/ ~Accepts(e.tx, ins)
           L == e.lost \cup Range(Outputs(Len(t), outs))
<1>1. f = IF quiet THEN e ELSE IF few THEN e
          ELSE IF mode = "hidden" THEN [e EXCEPT !.tx = t, !.lost = L]
          ELSE [e EXCEPT !.tx = t, !.utxos = kept, !.fanout = Len(t)]
  BY DEF StartPoolFanout, Largest, PoolSum
<1>2. CASE quiet \/ few
  <2>1. f = e
    <3> HIDE DEF quiet, few, L, t, kept
    <3> QED BY <1>1, <1>2
  <2> QED BY <2>1, KeepsSelf
<1>3. CASE ~quiet /\ ~few
  <2>0. Usable(e) \in Nat BY UsableIs
  <2>1. e.fanout = 0 /\ ~(Usable(e) >= seedCount) /\ enough # {} /\ Accepts(e.tx, ins)
    <3> HIDE DEF enough, ins, used
    <3> QED BY <1>3
  <2>2. f = IF mode = "hidden" THEN [e EXCEPT !.tx = t, !.lost = L]
            ELSE [e EXCEPT !.tx = t, !.utxos = kept, !.fanout = Len(t)]
    <3> HIDE DEF quiet, few, L, t, kept
    <3> QED BY <1>1, <1>3
  <2> HIDE DEF quiet, few
  <2>3. largest \in Seq(DOMAIN e.utxos) BY LargestLists
  <2> HIDE DEF largest
  <2>4. m \in enough
    <3>1. enough \in SUBSET Nat BY <2>3
    <3> HIDE DEF enough
    <3> QED BY <2>1, <3>1, LeastOf
  <2>5. m \in 1 .. Len(largest) BY <2>4
  <2> HIDE DEF enough, m
  <2>6. used \in SUBSET (DOMAIN e.utxos)
    <3>1. \A j \in 1 .. m : largest[j] \in DOMAIN e.utxos BY <2>3, <2>5
    <3> QED BY <3>1
  <2> HIDE DEF used
  <2>7. /\ DOMAIN e.utxos = 1 .. Len(e.utxos)
        /\ \A i \in DOMAIN e.utxos : e.utxos[i] \in Coins(e.tx)
    BY UsableIs
  <2>8. ins \in SUBSET Coins(e.tx) BY <2>6, <2>7
  <2>9. PoolSum(e, largest, m) \in Nat BY <2>3, <2>5, PoolSumIs
  <2>10. n \in Nat /\ n >= 1 /\ n <= ChunkOutputs
    BY <2>0, <2>1, EngineConstants DEF MinOf
  <2> HIDE DEF n
  <2>11. change >= 1 => change \in Nat
    <3>1. BranchMin \in Nat BY EngineConstants
    <3>2. n * BranchMin \in Nat BY <2>10, <3>1
    <3> QED BY <2>9, <3>2
  <2> HIDE DEF change
  <2>12. outs \in Seq(Nat) /\ Len(outs) \in 1 .. MaxOuts BY <2>10, <2>11, PoolOutputs
  <2> HIDE DEF outs
  <2>13. e \in EngineRec /\ Ledger(e.tx) /\ e.utxos \in Seq(Place) /\ e.lost \in SUBSET Place
    BY EngineFields DEF Books, Known
  <2>14. Len(e.tx) < MaxTxs /\ \A c \in ins : Live(e.tx, c[1])
    BY <2>1 DEF Accepts, TxOutWithMempool
  <2>15. \A i \in used : e.utxos[i] \in ins OBVIOUS
  <2> HIDE DEF ins
  <2>16. "fan" \in Kinds /\ FALSE \in BOOLEAN BY DEF Kinds
  <2>17. Submitted(e.tx, t, "fan", ins, outs)
    BY <2>8, <2>12, <2>13, <2>14, <2>16, AcceptedIs
  <2> HIDE DEF t
  <2>18. Ledger(t) /\ Len(t) \in Nat /\ t \in Seq(TxRecord) /\ Len(t) \in DOMAIN t
         /\ t[Len(t)].outs = outs
    <3>1. Ledger(t) /\ Len(t) \in DOMAIN t /\ t[Len(t)].outs = outs BY <2>17 DEF Submitted
    <3>2. t \in Seq(TxRecord) BY <3>1 DEF Ledger
    <3> QED BY <3>1, <3>2
  <2>19. CASE mode = "hidden"
    <3>0. Range(Outputs(Len(t), outs)) = NewCoins(Len(t), outs)
          /\ Range(Outputs(Len(t), outs)) = {c \in Coins(t) : c[1] = Len(t)}
      BY <2>18, OutputsAre
    <3>1. L = e.lost \cup NewCoins(Len(t), outs) BY <3>0
    <3>2. L \in SUBSET Place
      <4>1. Coins(t) \subseteq Place BY <2>18, CoinIs
      <4> QED BY <2>13, <3>0, <4>1
    <3>3. f = [e EXCEPT !.tx = t, !.lost = L] BY <2>2, <2>19
    <3> HIDE DEF L
    <3>4. Has(f, t, e.utxos, e.cursor, e.funding, e.fanout, L)
      BY <2>13, <2>18, <3>2, <3>3, EditTxLost
    <3>5. Hides(L, e, t, outs) BY <3>1 DEF Hides
    <3> QED BY <2>14, <2>17, <3>4, <3>5, KeepsHidden
  <2>20. CASE mode # "hidden"
    <3>1. Leaves(kept, e.utxos, used)
      <4> DEFINE c == Cardinality(used)
      <4>1. c = Cardinality(used) OBVIOUS
      <4>2. kept = [k \in 1 .. Len(e.utxos) - c |-> e.utxos[Ascending(DOMAIN e.utxos \ used)[k]]]
        OBVIOUS
      <4> HIDE DEF c, kept
      <4> QED BY <2>6, <2>13, <4>1, <4>2, LeftOver
    <3> HIDE DEF kept
    <3>2. kept \in Seq(Place) /\ Range(kept) \subseteq Range(e.utxos) BY <3>1 DEF Leaves
    <3>3. Range(e.utxos) \subseteq Range(kept) \cup ins
      <4>1. ASSUME NEW i \in DOMAIN e.utxos PROVE e.utxos[i] \in Range(kept) \cup ins
        <5>1. CASE i \in used BY <2>15, <5>1
        <5>2. CASE i \notin used
          <6>1. PICK k \in DOMAIN kept : kept[k] = e.utxos[i] BY <3>1, <5>2 DEF Leaves
          <6> QED BY <6>1 DEF Range
        <5> QED BY <5>1, <5>2
      <4> QED BY <4>1 DEF Range
    <3>4. f = [e EXCEPT !.tx = t, !.utxos = kept, !.fanout = Len(t)] BY <2>2, <2>20
    <3>5. Has(f, t, kept, e.cursor, e.funding, Len(t), e.lost)
      BY <2>13, <2>18, <3>2, <3>4, EditTxCoinsFanout
    <3>6. Placed(e, t, "fan", outs, e.funding, Len(t), e.lost) BY <2>1 DEF Placed
    <3>7. e.cursor = 0 \/ e.cursor < Len(e.utxos) BY EngineFields DEF Books, Known
    <3> QED BY <2>14, <2>17, <3>2, <3>3, <3>5, <3>6, <3>7, KeepsSubmitted
  <2> QED BY <2>19, <2>20
<1> QED BY <1>2, <1>3

\* What a floor round needs of the pool.
LEMMA EnsurePoolFundsKeeps ==
  ASSUME NEW e, Books(e), e.cursor = 0, NEW need, NEW mode
  PROVE  Keeps(e, EnsurePoolFunds(e, need, mode))
<1> DEFINE ready == Ready(e, mode)
           seedCount == FloorTarget + CeilDiv(FloorTarget, 4)
           low == Total(ready) < seedCount * BranchMin
           funded == IF low THEN StartFunding(ready, mode) ELSE ready
           enough == Usable(ready) >= need
           split == StartPoolFanout(funded, seedCount, mode)
           f == EnsurePoolFunds(e, need, mode)
<1>1. Keeps(e, ready) BY ReadyKeeps
<1>2. f = IF enough THEN ready ELSE split BY DEF EnsurePoolFunds, Ready
<1> HIDE DEF ready, low, enough, f
<1>3. Books(ready) BY <1>1 DEF Keeps
<1>4. Keeps(ready, funded) BY <1>3, StartFundingKeeps, KeepsSelf
<1>5. Keeps(e, funded) BY <1>1, <1>4, KeepsBoth
<1>6. Books(funded) /\ funded.cursor = 0 BY <1>5 DEF Keeps
<1> HIDE DEF funded
<1>7. seedCount \in Nat
  <2>1. FloorTarget \in Nat BY EngineConstants
  <2>2. FloorTarget + 4 - 1 \in Nat BY <2>1
  <2>3. (FloorTarget + 4 - 1) \div 4 \in Nat BY <2>2
  <2> QED BY <2>1, <2>3 DEF CeilDiv
<1> HIDE DEF seedCount
<1>8. Keeps(funded, split) BY <1>6, <1>7, StartPoolFanoutKeeps
<1> HIDE DEF split
<1>9. Keeps(e, split) BY <1>5, <1>8, KeepsBoth
<1>10. Keeps(e, f) BY <1>1, <1>2, <1>9
<1> QED BY <1>10 DEF f

\* What a reconciliation makes of the books.
LEMMA ReconciledKeeps ==
  ASSUME NEW e, Books(e), NEW mode, NEW f, f = Reconciled(e, mode)
  PROVE  /\ Books(f) /\ f.tx = e.tx /\ f.cursor = 0 /\ f.utxos = ScanAddressUtxos(e.tx)
         /\ e.lost \subseteq f.lost /\ Unseen(e.tx) \ Range(inflight) \subseteq f.lost
         /\ Accounted(f) /\ Alive(f) /\ Confirmed(f)
         /\ Range(f.utxos) = Scanned(e.tx) /\ f.fanout \in {0, e.fanout}
<1> DEFINE g == IF mode = "ok" /\ FundingAlive(e) THEN e.funding ELSE NoFunding
           k == IF mode = "ok" /\ FanoutAlive(e) THEN e.fanout ELSE 0
           kept == [e EXCEPT !.funding = g, !.fanout = k]
           L == e.lost \cup {c \in Coins(e.tx) : c[1] \in {e.funding.txid, e.fanout} /\ mode # "ok"}
           hidden == [kept EXCEPT !.lost = L]
<1>0. /\ e \in EngineRec /\ Ledger(e.tx) /\ e.tx \in Seq(TxRecord) /\ e.lost \in SUBSET Place
      /\ e.funding \in [txid : Nat, known : BOOLEAN] /\ e.fanout \in Nat
      /\ e.lost \subseteq Coins(e.tx)
  BY EngineFields DEF Books, Known
<1>9. Coins(e.tx) \subseteq Place BY <1>0, CoinIs
<1>1. g \in [txid : Nat, known : BOOLEAN] /\ k \in Nat BY <1>0, PendingIs
<1>2. L \in SUBSET Place /\ L \subseteq Coins(e.tx) /\ e.lost \subseteq L BY <1>0, <1>9
<1>5. g \in {e.funding, NoFunding} /\ k \in {e.fanout, 0} OBVIOUS
<1>6. g # NoFunding => Live(e.tx, g.txid)
  <2>1. SUFFICES ASSUME g # NoFunding PROVE Live(e.tx, g.txid) OBVIOUS
  <2>2. g = e.funding /\ FundingAlive(e) BY <2>1
  <2> HIDE DEF g
  <2>3. e.funding.txid \in DOMAIN e.tx BY <2>1, <2>2, PendingIs
  <2>4. e.tx[e.funding.txid] \in TxRecord BY <1>0, <2>3
  <2>5. e.tx[e.funding.txid].state \in {"mempool", "mined", "gone"} BY <2>4 DEF TxRecord
  <2> QED BY <2>2, <2>5 DEF FundingAlive, Live
<1>7. k # 0 => Live(e.tx, k)
  <2>1. SUFFICES ASSUME k # 0 PROVE Live(e.tx, k) OBVIOUS
  <2>2. k = e.fanout /\ FanoutAlive(e) BY <2>1
  <2> HIDE DEF k
  <2>3. <<e.fanout, 1>>[1] = e.fanout OBVIOUS
  <2> QED BY <2>2, <2>3 DEF FanoutAlive, TxOutWithMempool
<1>8. f = Resync(hidden)
  <2>1. kept = [e EXCEPT !.funding = IF mode = "ok" /\ FundingAlive(e) THEN @ ELSE NoFunding,
                         !.fanout = IF mode = "ok" /\ FanoutAlive(e) THEN @ ELSE 0]
    OBVIOUS
  <2>2. kept.lost = e.lost
    <3> HIDE DEF g, k
    <3>1. Has(kept, e.tx, e.utxos, e.cursor, g, k, e.lost) BY <1>0, <1>1, EditPending
    <3> HIDE DEF kept
    <3> QED BY <3>1 DEF Has
  <2> QED BY <2>1, <2>2 DEF Reconciled
<1> HIDE DEF g, k, L
<1>3. Has(kept, e.tx, e.utxos, e.cursor, g, k, e.lost) BY <1>0, <1>1, EditPending
<1> HIDE DEF kept
<1>4. Has(hidden, e.tx, e.utxos, e.cursor, g, k, L)
  <2>1. kept \in EngineRec BY <1>3 DEF Has
  <2>2. Has(hidden, kept.tx, kept.utxos, kept.cursor, kept.funding, kept.fanout, L)
    BY <1>2, <2>1, EditLost
  <2> QED BY <1>3, <2>2 DEF Has
<1> HIDE DEF hidden
<1>10. Books(hidden)
  <2>1. Pending(hidden) BY <1>4, <1>5 DEF Books, Pending, Has
  <2>2. Known(hidden) BY <1>2, <1>4 DEF Books, Known, Has
  <2> QED BY <1>4, <2>1, <2>2 DEF Books, Has
<1>11. Alive(hidden) BY <1>4, <1>6, <1>7 DEF Alive, Has
<1>12. Keeps(hidden, f) /\ Accounted(f) /\ Confirmed(f) BY <1>8, <1>10, ResyncKeeps
<1>13. /\ f.tx = hidden.tx /\ f.utxos = ScanAddressUtxos(hidden.tx) /\ f.cursor = 0
       /\ f.lost = hidden.lost \cup (Unseen(hidden.tx) \ Range(inflight))
       /\ f.fanout = hidden.fanout
  BY <1>8, <1>10, ResyncIs DEF Books
<1>14. hidden.tx = e.tx /\ hidden.lost = L /\ hidden.fanout = k BY <1>4 DEF Has
<1>15. Books(f) /\ Alive(f) BY <1>11, <1>12 DEF Keeps
<1>16. Range(f.utxos) = Scanned(e.tx) BY <1>0, <1>13, <1>14, ScanLists
<1>17. f.fanout \in {0, e.fanout} BY <1>5, <1>13, <1>14
<1> QED BY <1>2, <1>12, <1>13, <1>14, <1>15, <1>16, <1>17

(***************************************************************************)
(* The inductive invariant.                                                *)
(***************************************************************************)
RoundRec == [left : Nat, fails : Nat, sent : Seq(Nat), again : BOOLEAN]

\* Every variable outside the books keeps its type.
EngineTypes ==
  /\ owner \in {"output", "floor", "burst"}
  /\ height \in Nat /\ height > 0 /\ seen_height \in Nat /\ mishaps \in 0 .. MaxMishaps
  /\ stale \in BOOLEAN
  /\ doing \in {"idle", "send", "bump", "pool", "batch", "height", "prepare"}
  /\ round \in RoundRec
  /\ inflight \in Seq(Place) /\ Range(inflight) \subseteq Coins(tx) /\ Len(inflight) <= FloorTarget

\* Who does what, and when it may be stale.
WhoDoes ==
  /\ stale => doing \in {"idle", "height"}
  /\ doing = "bump" => owner = "output"
  /\ doing \in {"pool", "batch"} => owner = "floor"
  /\ doing = "send" => owner # "floor"
  /\ doing = "prepare" => owner = "burst"

\* A spam transaction of the ledger.
IsSent(s, t) ==
  s \in DOMAIN t /\ t[s].kind = "spam"

\* What a round has sent, it sent after what is pending, and only while it lasts.
SentLater ==
  /\ doing \notin {"send", "bump"} => round.sent = <<>>
  /\ \A a \in DOMAIN round.sent :
       IsSent(round.sent[a], tx) /\ round.sent[a] > fanout /\ round.sent[a] > funding.txid

\* Only the pool merges coins, and it has no round robin.
Shapes ==
  /\ owner = "floor" => cursor = 0
  /\ owner # "floor" => OneInput(tx)
  /\ doing \in {"pool", "batch"} => round.left + Len(inflight) <= FloorTarget

\* Every unspent coin is in the books; nothing dead is waited for; and the floor
\* pool, whose coins are never chained, holds confirmed ones only.
InBooks(e) ==
  /\ Accounted(e)
  /\ owner # "burst" => Alive(e)
  /\ owner = "floor" => Confirmed(e)

\* This holds whenever no reconciliation is due.
Reconciliation == ~stale \/ doing = "height" => InBooks(Now)

\* The inductive invariant.
EngineInv ==
  /\ Books(Now) /\ Dated(tx, height)
  /\ EngineTypes /\ WhoDoes /\ SentLater /\ Shapes /\ Reconciliation

\* The fields of Now, before and after a step.
LEMMA NowIs ==
  /\ Now.tx = tx /\ Now.utxos = utxos /\ Now.cursor = cursor
  /\ Now.funding = funding /\ Now.fanout = fanout /\ Now.lost = lost
  /\ (Now.tx)' = tx' /\ (Now.utxos)' = utxos' /\ (Now.cursor)' = cursor'
  /\ (Now.funding)' = funding' /\ (Now.fanout)' = fanout' /\ (Now.lost)' = lost'
BY DEF Now

\* The record a provisioning call leaves is the next one.
LEMMA BecomesIs ==
  ASSUME NEW e, e \in EngineRec, Becomes(e)
  PROVE  Now' = e
BY DEF Becomes, Now, EngineRec

(***************************************************************************)
(* The steps that provision, and those that end something.                 *)
(***************************************************************************)
\* What the engine adds to the node's transactions.
LEMMA GrownFacts ==
  ASSUME NEW t, t \in Seq(TxRecord), NEW u, u \in Seq(TxRecord), Grown(t, u)
  PROVE  /\ Coins(t) \subseteq Coins(u)
         /\ \A h : Dated(t, h) => Dated(u, h)
         /\ \A s : IsSent(s, t) => IsSent(s, u)
<1>1. \A i \in DOMAIN t : i \in DOMAIN u /\ u[i] = t[i] BY DEF Grown
<1>2. Coins(t) \subseteq Coins(u) BY <1>1 DEF Coins
<1>3. ASSUME NEW h, Dated(t, h) PROVE Dated(u, h)
  BY <1>1, <1>3 DEF Dated, Grown
<1> QED BY <1>1, <1>2, <1>3 DEF IsSent

\* A step that only provisions.
LEMMA Provisioned ==
  ASSUME EngineInv, NEW f, Keeps(Now, f), owner # "floor" => KeepsOne(Now, f), Becomes(f),
         owner' = owner, height' = height, inflight' = inflight
  PROVE  /\ Now' = f /\ Books(Now)' /\ Dated(tx, height)'
         /\ (Range(inflight) \subseteq Coins(tx))'
         /\ owner = "floor" => cursor' = 0
         /\ owner # "floor" => OneInput(tx)'
         /\ InBooks(Now) => InBooks(Now)'
<1>1. Books(f) /\ f \in EngineRec /\ f.tx \in Seq(TxRecord)
  <2>1. Books(f) BY DEF Keeps
  <2>2. f \in EngineRec BY <2>1 DEF Books
  <2> QED BY <2>1, <2>2, EngineFields
<1>2. Now' = f BY <1>1, BecomesIs
<1>3. Books(Now)' BY <1>1, <1>2
<1>4. tx' = f.tx /\ cursor' = f.cursor BY DEF Becomes
<1>5. Grown(tx, f.tx) BY NowIs DEF Keeps
<1>6. tx \in Seq(TxRecord)
  <2>1. Now \in EngineRec BY DEF EngineInv, Books
  <2> QED BY <2>1, NowIs, EngineFields
<1>7. /\ Coins(tx) \subseteq Coins(f.tx) /\ Dated(f.tx, height)
  BY <1>1, <1>5, <1>6, GrownFacts DEF EngineInv
<1>8. Dated(tx, height)' BY <1>4, <1>7
<1>9. (Range(inflight) \subseteq Coins(tx))' BY <1>4, <1>7 DEF EngineInv, EngineTypes
<1>10. owner = "floor" => cursor' = 0 BY <1>4, NowIs DEF EngineInv, Shapes, Keeps
<1>11. owner # "floor" => OneInput(tx)' BY <1>4, NowIs DEF EngineInv, Shapes, KeepsOne
<1>12. ASSUME InBooks(Now) PROVE InBooks(Now)'
  <2>1. Accounted(Now)'
    <3>1. Accounted(f) BY <1>12 DEF InBooks, Keeps
    <3> QED BY <1>2, <3>1 DEF Accounted
  <2>2. owner # "burst" => Alive(Now)' BY <1>2, <1>12 DEF InBooks, Keeps
  <2>3. owner = "floor" => Confirmed(Now)' BY <1>2, <1>12 DEF InBooks, Keeps
  <2> QED BY <2>1, <2>2, <2>3 DEF InBooks
<1> QED BY <1>2, <1>3, <1>8, <1>9, <1>10, <1>11, <1>12

\* The rounds that begin.
LEMMA IdleIs ==
  /\ Idle \in RoundRec /\ Idle.sent = <<>> /\ Idle.left = 0
  /\ \A n \in Nat, b \in BOOLEAN :
       LET r == [Idle EXCEPT !.left = n, !.again = b] IN
       r \in RoundRec /\ r.sent = <<>> /\ r.left = n
  /\ \A n \in Nat : LET r == [Idle EXCEPT !.left = n] IN
       r \in RoundRec /\ r.sent = <<>> /\ r.left = n
<1>1. <<>> \in Seq(Nat) OBVIOUS
<1> QED BY <1>1 DEF Idle, RoundRec

\* The parts of the invariant.
LEMMA EngineParts ==
  ASSUME EngineInv
  PROVE  /\ Now \in EngineRec /\ Books(Now) /\ Ledger(tx) /\ tx \in Seq(TxRecord)
         /\ Len(tx) \in Nat /\ Len(tx) <= MaxTxs
         /\ utxos \in Seq(Place) /\ cursor \in Nat /\ fanout \in Nat /\ lost \in SUBSET Place
         /\ funding \in [txid : Nat, known : BOOLEAN] /\ funding.txid \in Nat
         /\ Range(utxos) \subseteq Coins(tx) /\ lost \subseteq Coins(tx)
         /\ cursor = 0 \/ cursor < Len(utxos)
         /\ Dated(tx, height) /\ EngineTypes /\ WhoDoes /\ SentLater /\ Shapes /\ Reconciliation
<1>1. Books(Now) /\ Dated(tx, height) /\ EngineTypes /\ WhoDoes /\ SentLater /\ Shapes
      /\ Reconciliation
  BY DEF EngineInv
<1>2. Now \in EngineRec /\ Ledger(Now.tx) /\ Len(Now.tx) <= MaxTxs /\ Known(Now)
  BY <1>1 DEF Books
<1>3. Ledger(tx) /\ Len(tx) <= MaxTxs BY <1>2, NowIs
<1>4. tx \in Seq(TxRecord) BY <1>3 DEF Ledger
<1>5. /\ utxos \in Seq(Place) /\ cursor \in Nat /\ fanout \in Nat /\ lost \in SUBSET Place
      /\ funding \in [txid : Nat, known : BOOLEAN] /\ funding.txid \in Nat
  BY <1>2, NowIs, EngineFields
<1>6. /\ Range(utxos) \subseteq Coins(tx) /\ lost \subseteq Coins(tx)
      /\ cursor = 0 \/ cursor < Len(utxos)
  BY <1>2, NowIs DEF Known
<1>7. Len(tx) \in Nat BY <1>4
<1> QED BY <1>1, <1>2, <1>3, <1>4, <1>5, <1>6, <1>7

\* Nothing is sent in a round that has ended or not begun.
LEMMA NoneSent ==
  ASSUME (round.sent)' = <<>>
  PROVE  SentLater'
<1>1. DOMAIN <<>> = {} OBVIOUS
<1> QED BY <1>1 DEF SentLater

\* A step that leaves the books.
LEMMA SameBooks ==
  ASSUME EngineInv, owner' = owner, tx' = tx, height' = height, utxos' = utxos, cursor' = cursor,
         funding' = funding, fanout' = fanout, inflight' = inflight, lost' = lost
  PROVE  /\ Now' = Now /\ Books(Now)' /\ Dated(tx, height)'
         /\ (Range(inflight) \subseteq Coins(tx))'
         /\ InBooks(Now) => InBooks(Now)'
         /\ owner = "floor" => cursor' = 0
         /\ owner # "floor" => OneInput(tx)'
<1>1. Now' = Now BY DEF Now
<1>2. Books(Now)' /\ Dated(tx, height)' BY <1>1 DEF EngineInv
<1>3. (Range(inflight) \subseteq Coins(tx))' BY DEF EngineInv, EngineTypes
<1>4. InBooks(Now) => InBooks(Now)' BY <1>1 DEF InBooks, Accounted
<1>5. owner = "floor" => cursor' = 0 BY DEF EngineInv, Shapes
<1>6. owner # "floor" => OneInput(tx)' BY DEF EngineInv, Shapes
<1> QED BY <1>1, <1>2, <1>3, <1>4, <1>5, <1>6

\* The count of the mishaps.
LEMMA SpendIs ==
  ASSUME mishaps \in 0 .. MaxMishaps, NEW mode, Spend(mode, TRUE) \/ Mishap
  PROVE  mishaps' \in 0 .. MaxMishaps
<1>1. MaxMishaps \in Nat BY EngineConstants
<1>2. \/ mishaps' = mishaps
      \/ mishaps < MaxMishaps /\ mishaps' = mishaps + 1
  <2>1. CASE mode = "ok" BY <2>1 DEF Spend, Mishap
  <2>2. CASE mode # "ok" BY <2>2 DEF Spend, Mishap
  <2> QED BY <2>1, <2>2
<1> QED BY <1>1, <1>2

\* The start of a round of spam.
LEMMA BeginSendingInv ==
  ASSUME EngineInv, owner # "floor", ~stale, NEW e, Keeps(Now, e), KeepsOne(Now, e),
         NEW need, NEW target \in Nat, target + 1 <= MaxOuts, NEW txs \in Nat,
         NEW again \in BOOLEAN, NEW mode, BeginSending(e, need, target, txs, again, mode),
         mishaps' \in 0 .. MaxMishaps,
         UNCHANGED <<owner, height, inflight, seen_height, stale>>
  PROVE  EngineInv'
<1> DEFINE f == EnsureFunds(e, need, target, mode)
<1>0. Books(e) /\ Books(Now) BY DEF Keeps, EngineInv
<1>1. Keeps(e, f) /\ KeepsOne(e, f) BY <1>0, EnsureFundsKeeps
<1>2. Keeps(Now, f) /\ KeepsOne(Now, f) BY <1>0, <1>1, KeepsBoth
<1>3. Becomes(f)
  <2> HIDE DEF f
  <2>1. \E after \in {f} : Becomes(after) BY DEF BeginSending, f
  <2> QED BY <2>1
<1> HIDE DEF f
<1>4. /\ Books(Now)' /\ Dated(tx, height)' /\ (Range(inflight) \subseteq Coins(tx))'
      /\ OneInput(tx)' /\ (InBooks(Now) => InBooks(Now)')
  BY <1>2, <1>3, Provisioned
<1>5. /\ doing' \in {"send", "idle"}
      /\ round' = [Idle EXCEPT !.left = txs, !.again = again] \/ round' = Idle
  BY DEF BeginSending
<1>6. round' \in RoundRec /\ (round.sent)' = <<>>
  <2> DEFINE r == [Idle EXCEPT !.left = txs, !.again = again]
  <2>1. r \in RoundRec /\ r.sent = <<>> BY IdleIs
  <2>2. round' = r \/ round' = Idle BY <1>5
  <2> HIDE DEF r
  <2> QED BY <2>1, <2>2, IdleIs
<1>7. SentLater' BY <1>6, NoneSent
<1>8. EngineTypes' BY <1>4, <1>5, <1>6 DEF EngineInv, EngineTypes
<1>9. WhoDoes' BY <1>5 DEF WhoDoes
<1>10. Shapes' BY <1>4, <1>5 DEF Shapes
<1>11. Reconciliation' BY <1>4 DEF EngineInv, Reconciliation
<1> QED BY <1>4, <1>7, <1>8, <1>9, <1>10, <1>11 DEF EngineInv

\* The numbers of branches a round asks for.
LEMMA Targets ==
  /\ Fanout \in Nat /\ BurstTxs \in Nat
  /\ Fanout + 1 <= MaxOuts /\ BurstTxs + 1 <= MaxOuts
BY EngineConstants DEF MaxOuts

\* OutputRound keeps the invariant.
LEMMA OutputRoundInv ==
  ASSUME EngineInv, NEW mode, OutputRound(mode)
  PROVE  EngineInv'
<1>1. /\ owner = "output" /\ ~stale
      /\ Spend(mode, TRUE) /\ BeginSending(Now, MinOf(Share, Fanout), Fanout, Share, FALSE, mode)
      /\ UNCHANGED <<owner, height, inflight, seen_height, stale>>
  BY DEF OutputRound, Spend
<1>2. mishaps' \in 0 .. MaxMishaps BY <1>1, SpendIs DEF EngineInv, EngineTypes
<1>3. Keeps(Now, Now) /\ KeepsOne(Now, Now) BY KeepsSelf DEF EngineInv
<1>4. Share \in Nat /\ FALSE \in BOOLEAN BY EngineConstants
<1> QED BY <1>1, <1>2, <1>3, <1>4, Targets, BeginSendingInv

\* SpamBurst keeps the invariant.
LEMMA SpamBurstInv ==
  ASSUME EngineInv, NEW mode, SpamBurst(mode)
  PROVE  EngineInv'
<1>1. /\ owner = "burst" /\ ~stale
      /\ Spend(mode, TRUE) /\ BeginSending(Now, BurstTxs, BurstTxs, BurstTxs, FALSE, mode)
      /\ UNCHANGED <<owner, height, inflight, seen_height, stale>>
  BY DEF SpamBurst, Spend
<1>2. mishaps' \in 0 .. MaxMishaps BY <1>1, SpendIs DEF EngineInv, EngineTypes
<1>3. Keeps(Now, Now) /\ KeepsOne(Now, Now) BY KeepsSelf DEF EngineInv
<1>4. FALSE \in BOOLEAN OBVIOUS
<1> QED BY <1>1, <1>2, <1>3, <1>4, Targets, BeginSendingInv

\* A reconciliation keeps the books.
LEMMA ReconciledAll ==
  ASSUME NEW e, Books(e), NEW mode, NEW f, f = Reconciled(e, mode)
  PROVE  Keeps(e, f) /\ KeepsOne(e, f)
<1>1. Books(f) /\ f.tx = e.tx /\ f.cursor = 0 /\ Accounted(f) /\ Alive(f) /\ Confirmed(f)
  BY ReconciledKeeps
<1>2. Grown(e.tx, f.tx) BY <1>1, KeepsSelf DEF Keeps
<1> QED BY <1>1, <1>2 DEF Keeps, KeepsOne

\* A round that ends, and the other steps that leave the books.
LEMMA RoundEnds ==
  ASSUME EngineInv, doing # "height", owner' = owner, tx' = tx, height' = height, utxos' = utxos,
         cursor' = cursor, funding' = funding, fanout' = fanout, inflight' = inflight,
         lost' = lost, seen_height' = seen_height, stale' = stale,
         doing' = "idle", round' = Idle, mishaps' \in 0 .. MaxMishaps
  PROVE  EngineInv'
<1>1. /\ Books(Now)' /\ Dated(tx, height)' /\ (Range(inflight) \subseteq Coins(tx))'
      /\ InBooks(Now) => InBooks(Now)'
      /\ owner = "floor" => cursor' = 0
      /\ owner # "floor" => OneInput(tx)'
  BY SameBooks
<1>2. round' \in RoundRec /\ (round.sent)' = <<>> BY IdleIs
<1>3. SentLater' BY <1>2, NoneSent
<1>4. EngineTypes' BY <1>1, <1>2 DEF EngineInv, EngineTypes
<1>5. WhoDoes' BY DEF WhoDoes
<1>6. Shapes' BY <1>1 DEF Shapes
<1>7. Reconciliation' BY <1>1 DEF EngineInv, Reconciliation
<1> QED BY <1>1, <1>3, <1>4, <1>5, <1>6, <1>7 DEF EngineInv

\* EndSpamBurst keeps the invariant.
LEMMA EndSpamBurstInv ==
  ASSUME EngineInv, NEW mode, EndSpamBurst(mode)
  PROVE  EngineInv'
<1> DEFINE over == round.left = 0 \/ round.again \/ mode = "read"
           e == Reconciled(Now, "ok")
<1>1. /\ owner = "burst" /\ doing = "send" /\ Spend(mode, TRUE)
      /\ UNCHANGED <<owner, height, inflight, seen_height, stale>>
      /\ over => /\ doing' = "idle" /\ round' = Idle
                 /\ UNCHANGED <<tx, utxos, cursor, funding, fanout, lost>>
      /\ ~over => BeginSending(e, MinOf(round.left, BurstTxs), BurstTxs, round.left, TRUE, "ok")
  <2>1. CASE over BY <2>1 DEF EndSpamBurst, Spend, SendingEnds
  <2>2. CASE ~over BY <2>2 DEF EndSpamBurst, Spend, SendingEnds
  <2> QED BY <2>1, <2>2
<1>2. mishaps' \in 0 .. MaxMishaps BY <1>1, SpendIs DEF EngineInv, EngineTypes
<1>3. ~stale BY <1>1 DEF EngineInv, WhoDoes
<1>4. CASE over BY <1>1, <1>2, <1>4, RoundEnds
<1>5. CASE ~over
  <2>1. Keeps(Now, e) /\ KeepsOne(Now, e) BY ReconciledAll DEF EngineInv
  <2>2. round.left \in Nat /\ TRUE \in BOOLEAN BY DEF EngineInv, EngineTypes, RoundRec
  <2> HIDE DEF e, over
  <2> QED BY <1>1, <1>2, <1>3, <1>5, <2>1, <2>2, Targets, BeginSendingInv
<1> QED BY <1>4, <1>5

\* EndOutputRound keeps the invariant.
LEMMA EndOutputRoundInv ==
  ASSUME EngineInv, EndOutputRound
  PROVE  EngineInv'
<1>1. /\ owner = "output" /\ doing = "send"
      /\ UNCHANGED <<owner, tx, height, utxos, cursor, funding, fanout, inflight, seen_height,
                     stale, mishaps, lost>>
  BY DEF EndOutputRound, SendingEnds, node, engine
<1>2. mishaps' \in 0 .. MaxMishaps BY <1>1 DEF EngineInv, EngineTypes
<1>3. CASE ~Replaceable
  <2>1. doing' = "idle" /\ round' = Idle BY <1>3 DEF EndOutputRound
  <2> QED BY <1>1, <1>2, <2>1, RoundEnds
<1>4. CASE Replaceable
  <2>1. doing' = "bump" /\ round' = [round EXCEPT !.left = Replaces]
    BY <1>4 DEF EndOutputRound
  <2>2. /\ Books(Now)' /\ Dated(tx, height)' /\ (Range(inflight) \subseteq Coins(tx))'
        /\ InBooks(Now) => InBooks(Now)'
        /\ owner # "floor" => OneInput(tx)'
    BY <1>1, SameBooks
  <2>3. round' \in RoundRec /\ (round.sent)' = round.sent
    BY <2>1, EngineConstants DEF EngineInv, EngineTypes, RoundRec
  <2>4. EngineTypes' BY <1>1, <1>2, <2>1, <2>2, <2>3 DEF EngineInv, EngineTypes
  <2>5. SentLater' BY <1>1, <2>1, <2>3 DEF EngineInv, SentLater
  <2>6. WhoDoes' BY <1>1, <2>1 DEF EngineInv, WhoDoes
  <2>7. Shapes' BY <1>1, <2>1, <2>2 DEF Shapes
  <2>8. Reconciliation' BY <1>1, <2>1, <2>2 DEF EngineInv, Reconciliation
  <2> QED BY <2>2, <2>4, <2>5, <2>6, <2>7, <2>8 DEF EngineInv
<1> QED BY <1>3, <1>4

\* EndBump keeps the invariant.
LEMMA EndBumpInv ==
  ASSUME EngineInv, EndBump
  PROVE  EngineInv'
<1>1. /\ doing = "bump" /\ doing' = "idle" /\ round' = Idle
      /\ UNCHANGED <<owner, tx, height, utxos, cursor, funding, fanout, inflight, seen_height,
                     stale, mishaps, lost>>
  BY DEF EndBump, node, engine
<1>2. mishaps' \in 0 .. MaxMishaps BY <1>1 DEF EngineInv, EngineTypes
<1> QED BY <1>1, <1>2, RoundEnds

\* EndFloorRound keeps the invariant.
LEMMA EndFloorRoundInv ==
  ASSUME EngineInv, EndFloorRound
  PROVE  EngineInv'
<1>1. /\ doing = "batch" /\ doing' = "idle" /\ round' = Idle
      /\ UNCHANGED <<owner, tx, height, utxos, cursor, funding, fanout, inflight, seen_height,
                     stale, mishaps, lost>>
  BY DEF EndFloorRound, node, engine
<1>2. mishaps' \in 0 .. MaxMishaps BY <1>1 DEF EngineInv, EngineTypes
<1> QED BY <1>1, <1>2, RoundEnds

\* Interrupted keeps the invariant.
LEMMA InterruptedInv ==
  ASSUME EngineInv, Interrupted
  PROVE  EngineInv'
<1>1. /\ doing # "height" /\ doing' = "idle" /\ round' = Idle /\ Mishap
      /\ UNCHANGED <<owner, tx, height, utxos, cursor, funding, fanout, inflight, seen_height,
                     stale, lost>>
  BY DEF Interrupted, node, engine, Mishap
<1>2. mishaps' \in 0 .. MaxMishaps BY <1>1, SpendIs DEF EngineInv, EngineTypes
<1> QED BY <1>1, <1>2, RoundEnds

\* BeginPrepare keeps the invariant.
LEMMA BeginPrepareInv ==
  ASSUME EngineInv, BeginPrepare
  PROVE  EngineInv'
<1>1. /\ owner = "burst" /\ doing = "idle" /\ ~stale /\ doing' = "prepare"
      /\ UNCHANGED <<owner, tx, height, utxos, cursor, funding, fanout, inflight, seen_height,
                     round, stale, mishaps, lost>>
  BY DEF BeginPrepare, node, engine
<1>2. /\ Books(Now)' /\ Dated(tx, height)' /\ (Range(inflight) \subseteq Coins(tx))'
      /\ InBooks(Now) => InBooks(Now)'
      /\ owner # "floor" => OneInput(tx)'
  BY <1>1, SameBooks
<1>4. EngineTypes' BY <1>1, <1>2 DEF EngineInv, EngineTypes
<1>5. SentLater' BY <1>1 DEF EngineInv, SentLater
<1>6. WhoDoes' BY <1>1 DEF EngineInv, WhoDoes
<1>7. Shapes' BY <1>1, <1>2 DEF Shapes
<1>8. Reconciliation' BY <1>1, <1>2 DEF EngineInv, Reconciliation
<1> QED BY <1>2, <1>4, <1>5, <1>6, <1>7, <1>8 DEF EngineInv

\* ReconcileHeight keeps the invariant.
LEMMA ReconcileHeightInv ==
  ASSUME EngineInv, NEW mode, ReconcileHeight(mode)
  PROVE  EngineInv'
<1>1. /\ doing = "height" /\ doing' = "idle" /\ Spend(mode, TRUE)
      /\ UNCHANGED <<owner, tx, height, utxos, cursor, funding, fanout, inflight, round, lost>>
      /\ (seen_height' = height /\ stale' = FALSE) \/ (UNCHANGED <<seen_height, stale>>)
  BY DEF ReconcileHeight, node
<1>2. mishaps' \in 0 .. MaxMishaps BY <1>1, SpendIs DEF EngineInv, EngineTypes
<1>3. /\ Books(Now)' /\ Dated(tx, height)' /\ (Range(inflight) \subseteq Coins(tx))'
      /\ InBooks(Now) => InBooks(Now)'
      /\ owner = "floor" => cursor' = 0
      /\ owner # "floor" => OneInput(tx)'
  BY <1>1, SameBooks
<1>4. EngineTypes' BY <1>1, <1>2, <1>3 DEF EngineInv, EngineTypes
<1>5. SentLater' BY <1>1 DEF EngineInv, SentLater
<1>6. WhoDoes' BY <1>1 DEF EngineInv, WhoDoes
<1>7. Shapes' BY <1>1, <1>3 DEF Shapes
<1>8. Reconciliation' BY <1>1, <1>3 DEF EngineInv, Reconciliation
<1> QED BY <1>3, <1>4, <1>5, <1>6, <1>7, <1>8 DEF EngineInv

\* ReconciliationAsked keeps the invariant.
LEMMA ReconciliationAskedInv ==
  ASSUME EngineInv, ReconciliationAsked
  PROVE  EngineInv'
<1>1. /\ Mishap /\ doing = "idle" /\ stale' = TRUE
      /\ UNCHANGED <<owner, tx, height, utxos, cursor, funding, fanout, inflight, seen_height,
                     doing, round, lost>>
  BY DEF ReconciliationAsked, node, engine
<1>2. mishaps' \in 0 .. MaxMishaps BY <1>1, SpendIs DEF EngineInv, EngineTypes
<1>3. /\ Books(Now)' /\ Dated(tx, height)' /\ (Range(inflight) \subseteq Coins(tx))'
      /\ owner = "floor" => cursor' = 0
      /\ owner # "floor" => OneInput(tx)'
  BY <1>1, SameBooks
<1>4. EngineTypes' BY <1>1, <1>2, <1>3 DEF EngineInv, EngineTypes
<1>5. SentLater' BY <1>1 DEF EngineInv, SentLater
<1>6. WhoDoes' BY <1>1 DEF EngineInv, WhoDoes
<1>7. Shapes' BY <1>1, <1>3 DEF Shapes
<1>8. Reconciliation' BY <1>1 DEF Reconciliation
<1> QED BY <1>3, <1>4, <1>5, <1>6, <1>7, <1>8 DEF EngineInv

\* EngineRestarts keeps the invariant.
LEMMA RestartInv ==
  ASSUME EngineInv, EngineRestarts
  PROVE  EngineInv'
<1> DEFINE L == lost \cup Unseen(tx)
           f == [tx |-> tx, utxos |-> <<>>, cursor |-> 0, funding |-> NoFunding,
                 fanout |-> 0, lost |-> L]
<1>1. /\ Mishap /\ utxos' = <<>> /\ cursor' = 0 /\ funding' = NoFunding /\ fanout' = 0
      /\ inflight' = <<>> /\ seen_height' = 0
      /\ doing' = "idle" /\ round' = Idle /\ stale' = TRUE /\ lost' = L
      /\ owner' = owner /\ tx' = tx /\ height' = height
  BY DEF EngineRestarts, node
<1>2. mishaps' \in 0 .. MaxMishaps BY <1>1, SpendIs DEF EngineInv, EngineTypes
<1>3. /\ Ledger(tx) /\ tx \in Seq(TxRecord) /\ Len(tx) <= MaxTxs /\ Dated(tx, height)
      /\ lost \subseteq Coins(tx)
  BY EngineParts
<1>4. L \subseteq Coins(tx) /\ Coins(tx) \subseteq Place BY <1>3, CoinIs DEF Unseen
<1>5. NoFunding \in [txid : Nat, known : BOOLEAN] BY PendingIs DEF EngineInv
<1>6. Now' = f BY <1>1 DEF Now
<1>7. /\ f.tx = tx /\ f.utxos = <<>> /\ f.cursor = 0 /\ f.funding = NoFunding /\ f.fanout = 0
      /\ f.lost = L
  OBVIOUS
<1>10. <<>> \in Seq(Place) /\ Range(<<>>) = {} BY DEF Range
<1>8. f \in EngineRec
  <2> HIDE DEF L
  <2> QED BY <1>3, <1>4, <1>5, <1>10 DEF EngineRec
<1> HIDE DEF f, L
<1>9. Books(f) BY <1>3, <1>4, <1>7, <1>8, <1>10 DEF Books, Known, Pending
<1>11. Books(Now)' /\ Dated(tx, height)' BY <1>1, <1>3, <1>6, <1>9
<1>12. round' \in RoundRec /\ (round.sent)' = <<>> BY <1>1, IdleIs
<1>13. EngineTypes'
  <2>1. Len(<<>>) = 0 OBVIOUS
  <2> QED BY <1>1, <1>2, <1>10, <1>12, <2>1, EngineConstants DEF EngineInv, EngineTypes
<1>14. SentLater' BY <1>12, NoneSent
<1>15. WhoDoes' BY <1>1 DEF WhoDoes
<1>16. Shapes' BY <1>1 DEF EngineInv, Shapes
<1>17. Reconciliation' BY <1>1 DEF Reconciliation
<1> QED BY <1>11, <1>13, <1>14, <1>15, <1>16, <1>17 DEF EngineInv

\* FundPool keeps the invariant.
LEMMA FundPoolInv ==
  ASSUME EngineInv, NEW mode, FundPool(mode)
  PROVE  EngineInv'
<1> DEFINE f == EnsurePoolFunds(Now, round.left, mode)
<1>1. /\ doing = "pool" /\ Spend(mode, TRUE) /\ (\E e \in {f} : Becomes(e))
      /\ (doing' = "batch" /\ round' = round) \/ (doing' = "idle" /\ round' = Idle)
      /\ UNCHANGED <<owner, height, inflight, seen_height, stale>>
  BY DEF FundPool, Spend
<1>2. mishaps' \in 0 .. MaxMishaps BY <1>1, SpendIs DEF EngineInv, EngineTypes
<1>3. owner = "floor" /\ ~stale BY <1>1 DEF EngineInv, WhoDoes
<1>4. Keeps(Now, f)
  <2>1. Now.cursor = 0 BY <1>3, NowIs DEF EngineInv, Shapes
  <2> QED BY <2>1, EnsurePoolFundsKeeps DEF EngineInv
<1> HIDE DEF f
<1>5. Becomes(f) BY <1>1
<1>6. /\ Books(Now)' /\ Dated(tx, height)' /\ (Range(inflight) \subseteq Coins(tx))'
      /\ cursor' = 0 /\ (InBooks(Now) => InBooks(Now)')
  BY <1>1, <1>3, <1>4, <1>5, Provisioned
<1>7. round.sent = <<>> BY <1>1 DEF EngineInv, SentLater
<1>8. round' \in RoundRec /\ (round.sent)' = <<>> BY <1>1, <1>7, IdleIs DEF EngineInv, EngineTypes
<1>9. EngineTypes' BY <1>1, <1>2, <1>6, <1>8 DEF EngineInv, EngineTypes
<1>10. SentLater' BY <1>8, NoneSent
<1>11. WhoDoes' BY <1>1, <1>3 DEF WhoDoes
<1>12. Shapes' BY <1>1, <1>3, <1>6 DEF EngineInv, Shapes
<1>13. Reconciliation' BY <1>1, <1>3, <1>6 DEF EngineInv, Reconciliation
<1> QED BY <1>6, <1>9, <1>10, <1>11, <1>12, <1>13 DEF EngineInv

\* PrepareBurst keeps the invariant.
LEMMA PrepareBurstInv ==
  ASSUME EngineInv, NEW mode, PrepareBurst(mode)
  PROVE  EngineInv'
<1> DEFINE f == EnsureFunds(Now, BurstTxs, BurstTxs, mode)
<1>1. /\ doing = "prepare" /\ Spend(mode, TRUE) /\ (\E e \in {f} : Becomes(e))
      /\ doing' \in {"idle", "prepare"}
      /\ UNCHANGED <<owner, height, inflight, seen_height, round, stale>>
  BY DEF PrepareBurst, Spend
<1>2. mishaps' \in 0 .. MaxMishaps BY <1>1, SpendIs DEF EngineInv, EngineTypes
<1>3. owner = "burst" /\ ~stale BY <1>1 DEF EngineInv, WhoDoes
<1>4. Keeps(Now, f) /\ KeepsOne(Now, f) BY Targets, EnsureFundsKeeps DEF EngineInv
<1> HIDE DEF f
<1>5. Becomes(f) BY <1>1
<1>6. /\ Books(Now)' /\ Dated(tx, height)' /\ (Range(inflight) \subseteq Coins(tx))'
      /\ OneInput(tx)' /\ (InBooks(Now) => InBooks(Now)')
  BY <1>1, <1>3, <1>4, <1>5, Provisioned
<1>7. round.sent = <<>> BY <1>1 DEF EngineInv, SentLater
<1>8. (round.sent)' = <<>> BY <1>1, <1>7
<1>9. EngineTypes' BY <1>1, <1>2, <1>6 DEF EngineInv, EngineTypes
<1>10. SentLater' BY <1>8, NoneSent
<1>11. WhoDoes' BY <1>1, <1>3 DEF WhoDoes
<1>12. Shapes' BY <1>1, <1>3, <1>6 DEF Shapes
<1>13. Reconciliation' BY <1>1, <1>3, <1>6 DEF EngineInv, Reconciliation
<1> QED BY <1>6, <1>9, <1>10, <1>11, <1>12, <1>13 DEF EngineInv

\* The engine after a step, by its fields.
LEMMA NowHas ==
  ASSUME NEW t \in Seq(TxRecord), NEW a \in Seq(Place), NEW n \in Nat,
         NEW g \in [txid : Nat, known : BOOLEAN], NEW k \in Nat, NEW L \in SUBSET Place,
         tx' = t, utxos' = a, cursor' = n, funding' = g, fanout' = k, lost' = L
  PROVE  Has(Now', t, a, n, g, k, L)
BY DEF Now, Has, EngineRec

\* A block, or its removal, behind the engine's back.
LEMMA MovesBooks ==
  ASSUME NEW e, Books(e), NEW u, Moves(e.tx, u),
         NEW f, Has(f, u, e.utxos, e.cursor, e.funding, e.fanout, e.lost)
  PROVE  /\ Books(f)
         /\ Accounted(e) => Accounted(f)
         /\ Alive(e) => Alive(f)
         /\ Confirmed(e) /\ (\A i \in DOMAIN e.tx : e.tx[i].state = "mined" => u[i] = e.tx[i])
              => Confirmed(f)
<1>1. /\ f \in EngineRec /\ f.tx = u /\ f.utxos = e.utxos /\ f.cursor = e.cursor
      /\ f.funding = e.funding /\ f.fanout = e.fanout /\ f.lost = e.lost
  BY DEF Has
<1>2. /\ Ledger(u) /\ Coins(u) = Coins(e.tx) /\ Unspent(u) = Unspent(e.tx)
      /\ \A i \in DOMAIN e.tx : Live(u, i) <=> Live(e.tx, i)
      /\ Len(u) = Len(e.tx) /\ DOMAIN u = DOMAIN e.tx
      /\ \A i \in DOMAIN e.tx : u[i].kind = e.tx[i].kind
  BY DEF Moves, Changed
<1>3. Len(u) <= MaxTxs /\ Known(e) /\ Pending(e) BY <1>2 DEF Books
<1>4. Known(f) BY <1>1, <1>2, <1>3 DEF Known
<1>5. Pending(f) BY <1>1, <1>2, <1>3 DEF Pending
<1>6. Books(f) BY <1>1, <1>2, <1>3, <1>4, <1>5 DEF Books
<1>7. Accounted(e) => Accounted(f) BY <1>1, <1>2 DEF Accounted
<1>8. Alive(e) => Alive(f) BY <1>1, <1>2, <1>3 DEF Alive, Pending
<1>9. ASSUME Confirmed(e), \A i \in DOMAIN e.tx : e.tx[i].state = "mined" => u[i] = e.tx[i]
      PROVE  Confirmed(f)
  <2>1. e.tx \in Seq(TxRecord) BY EngineFields DEF Books
  <2>2. \A c \in Range(e.utxos) : c[1] \in DOMAIN e.tx BY <1>3, <2>1, CoinIs DEF Known
  <2> QED BY <1>1, <1>9, <2>2 DEF Confirmed
<1> QED BY <1>6, <1>7, <1>8, <1>9

(***************************************************************************)
(* The steps of the node, of chain jobs and of reconciliation.             *)
(***************************************************************************)
\* What a family spent is hidden from the engine e.
Freed(L, e, F) ==
  F \subseteq DOMAIN e.tx /\ L = e.lost \cup UNION {e.tx[j].ins : j \in F}

\* The node forgets a family, and what it spent is out of the engine's sight.
LEMMA ForgetsBooks ==
  ASSUME NEW e, Books(e), NEW u, NEW F, Forgets(e.tx, u, F), NEW L, Freed(L, e, F),
         NEW f, Has(f, u, e.utxos, e.cursor, e.funding, e.fanout, L)
  PROVE  /\ Books(f)
         /\ Accounted(e) => Accounted(f)
         /\ Alive(e) /\ e.funding.txid \notin F /\ e.fanout \notin F => Alive(f)
         /\ Confirmed(e) /\ (\A i \in F : e.tx[i].state # "mined") => Confirmed(f)
<1>0. F \subseteq DOMAIN e.tx /\ L = e.lost \cup UNION {e.tx[j].ins : j \in F} BY DEF Freed
<1>1. /\ f \in EngineRec /\ f.tx = u /\ f.utxos = e.utxos /\ f.cursor = e.cursor
      /\ f.funding = e.funding /\ f.fanout = e.fanout /\ f.lost = L
  BY DEF Has
<1>2. /\ Ledger(u) /\ Coins(u) = Coins(e.tx)
      /\ Unspent(u) \subseteq Unspent(e.tx) \cup UNION {e.tx[j].ins : j \in F}
      /\ \A i \in DOMAIN e.tx : Live(u, i) <=> Live(e.tx, i) /\ i \notin F
      /\ \A i \in DOMAIN e.tx : i \notin F => u[i] = e.tx[i]
      /\ Len(u) = Len(e.tx) /\ DOMAIN u = DOMAIN e.tx
      /\ \A i \in DOMAIN e.tx : u[i].kind = e.tx[i].kind
  BY DEF Forgets, Changed
<1>3. Len(u) <= MaxTxs /\ Known(e) /\ Pending(e) /\ Ledger(e.tx) BY <1>2 DEF Books
<1>10. L \subseteq Coins(e.tx)
  <2>1. \A j \in F : e.tx[j].ins \subseteq Coins(e.tx) BY <1>0, <1>3 DEF Ledger, Spends
  <2> QED BY <1>0, <1>3, <2>1 DEF Known
<1>4. Known(f) BY <1>1, <1>2, <1>3, <1>10 DEF Known
<1>5. Pending(f) BY <1>1, <1>2, <1>3 DEF Pending
<1>6. Books(f) BY <1>1, <1>2, <1>3, <1>4, <1>5 DEF Books
<1>7. Accounted(e) => Accounted(f)
  <2>1. ASSUME Accounted(e), NEW c \in Unspent(u)
        PROVE  c \in Range(e.utxos) \cup Range(inflight) \cup L
                       \cup {d \in Coins(e.tx) : d[1] \in {e.funding.txid, e.fanout}}
    BY <1>0, <1>2, <2>1 DEF Accounted
  <2> QED BY <1>1, <1>2, <2>1 DEF Accounted
<1>8. Alive(e) /\ e.funding.txid \notin F /\ e.fanout \notin F => Alive(f)
  BY <1>1, <1>2, <1>3 DEF Alive, Pending
<1>9. ASSUME Confirmed(e), \A i \in F : e.tx[i].state # "mined" PROVE Confirmed(f)
  <2>1. e.tx \in Seq(TxRecord) BY EngineFields DEF Books
  <2>2. \A c \in Range(e.utxos) : c[1] \in DOMAIN e.tx BY <1>3, <2>1, CoinIs DEF Known
  <2>3. \A c \in Range(e.utxos) : c[1] \notin F BY <1>9 DEF Confirmed
  <2> QED BY <1>1, <1>2, <1>9, <2>2, <2>3 DEF Confirmed
<1> QED BY <1>6, <1>7, <1>8, <1>9

\* A family without a mined root has no mined member.
LEMMA FamilyUnconfirmed ==
  ASSUME NEW t, Ledger(t), NEW S, NEW F, IsFamily(F, t, S),
         \A i \in S : i \in DOMAIN t => t[i].state # "mined"
  PROVE  \A i \in F : t[i].state # "mined"
<1> DEFINE M == {i \in F : t[i].state = "mined"}
<1>0. t \in Seq(TxRecord) BY DEF Ledger
<1>1. F \subseteq DOMAIN t BY DEF IsFamily
<1>2. M \in SUBSET Nat BY <1>0, <1>1
<1>3. SUFFICES ASSUME M # {} PROVE FALSE OBVIOUS
<1>4. PICK x \in M : \A y \in M : x <= y BY <1>2, <1>3, Smallest
<1>5. x \in F /\ t[x].state = "mined" /\ x \in DOMAIN t BY <1>1
<1>6. PICK c \in t[x].ins : c[1] \in F BY <1>5 DEF IsFamily
<1>7. c[1] < x /\ t[c[1]].state = "mined" BY <1>5, <1>6 DEF Ledger, Spends
<1>8. c[1] \in M BY <1>6, <1>7
<1>9. c[1] \in Nat /\ x \in Nat BY <1>2, <1>8
<1> QED BY <1>4, <1>7, <1>8, <1>9

\* No family at all.
LEMMA EmptyFamily ==
  ASSUME NEW t
  PROVE  IsFamily({}, t, {})
BY DEF IsFamily

\* What was sent stays what it is when only states change.
LEMMA SentStays ==
  ASSUME NEW t, NEW u, Changed(t, u)
  PROVE  \A s : IsSent(s, t) => IsSent(s, u)
BY DEF Changed, IsSent

\* Mine keeps the invariant.
LEMMA MineInv ==
  ASSUME EngineInv, Mine
  PROVE  EngineInv'
<1>1. /\ height' = height + 1
      /\ UNCHANGED <<owner, utxos, cursor, funding, fanout, inflight, seen_height, doing, round,
                     stale, mishaps, lost>>
  BY DEF Mine, engine
<1>2. PICK X \in {{}} \cup {FamilyOf(tx, {i}) : i \in Unconfirmed} : tx' = Mined(tx, X)
  BY DEF Mine
<1>3. /\ Books(Now) /\ Ledger(tx) /\ Dated(tx, height) /\ utxos \in Seq(Place) /\ cursor \in Nat
      /\ fanout \in Nat /\ funding \in [txid : Nat, known : BOOLEAN] /\ lost \in SUBSET Place
      /\ EngineTypes /\ WhoDoes /\ SentLater /\ Shapes /\ Reconciliation
  BY EngineParts
<1>4. height \in Nat BY <1>3 DEF EngineTypes
<1>5. Moves(tx, tx') /\ Dated(tx', height + 1)
      /\ \A i \in DOMAIN tx : tx[i].state = "mined" => tx'[i] = tx[i]
  <2>1. \E S : IsFamily(X, tx, S)
    <3>1. CASE X = {} BY <3>1, EmptyFamily
    <3>2. CASE X # {}
      <4>1. PICK i \in Unconfirmed : X = FamilyOf(tx, {i}) BY <1>2, <3>2
      <4> QED BY <1>3, <4>1, FamilyFacts
    <3> QED BY <3>1, <3>2
  <2>2. PICK S : IsFamily(X, tx, S) BY <2>1
  <2> DEFINE u == tx'
  <2>4. u = Mined(tx, X) BY <1>2
  <2> HIDE DEF u
  <2>5. Moves(tx, u) /\ Dated(u, height + 1)
        /\ \A i \in DOMAIN tx : tx[i].state = "mined" => u[i] = tx[i]
    BY <1>3, <1>4, <2>2, <2>4, MinedKeeps
  <2> QED BY <2>5 DEF u
<1>6. Changed(tx, tx') /\ Coins(tx') = Coins(tx) /\ (OneInput(tx) => OneInput(tx'))
      /\ tx' \in Seq(TxRecord)
  BY <1>5 DEF Moves, Changed
<1>7. Has(Now', tx', utxos, cursor, funding, fanout, lost) BY <1>1, <1>3, <1>6, NowHas
<1>8. /\ Books(Now')
      /\ Accounted(Now) => Accounted(Now')
      /\ Alive(Now) => Alive(Now')
      /\ Confirmed(Now) => Confirmed(Now')
  <2> DEFINE e == Now
             f == Now'
             u == tx'
  <2>1. /\ e.tx = tx /\ e.utxos = utxos /\ e.cursor = cursor /\ e.funding = funding
        /\ e.fanout = fanout /\ e.lost = lost
    BY NowIs
  <2>2. Books(e) BY <1>3
  <2>3. Has(f, u, e.utxos, e.cursor, e.funding, e.fanout, e.lost) BY <1>7, <2>1
  <2>4. Moves(e.tx, u) /\ (\A i \in DOMAIN e.tx : e.tx[i].state = "mined" => u[i] = e.tx[i])
    BY <1>5, <2>1
  <2> HIDE DEF e, f, u
  <2>5. /\ Books(f)
        /\ Accounted(e) => Accounted(f)
        /\ Alive(e) => Alive(f)
        /\ Confirmed(e) => Confirmed(f)
    BY <2>2, <2>3, <2>4, MovesBooks
  <2> QED BY <2>5 DEF e, f
<1>9. InBooks(Now) => InBooks(Now)'
  <2>1. Accounted(Now') => Accounted(Now)' BY <1>1 DEF Accounted
  <2> QED BY <1>1, <1>8, <2>1 DEF InBooks
<1>10. Books(Now)' /\ Dated(tx, height)' BY <1>1, <1>5, <1>8
<1>11. EngineTypes' BY <1>1, <1>3, <1>4, <1>6 DEF EngineTypes
<1>12. WhoDoes' BY <1>1, <1>3 DEF WhoDoes
<1>13. SentLater' BY <1>1, <1>3, <1>6, SentStays DEF SentLater
<1>14. Shapes' BY <1>1, <1>3, <1>6 DEF Shapes
<1>15. Reconciliation' BY <1>1, <1>3, <1>9 DEF Reconciliation
<1> QED BY <1>10, <1>11, <1>12, <1>13, <1>14, <1>15 DEF EngineInv

\* NodeEvicts keeps the invariant.
LEMMA NodeEvictsInv ==
  ASSUME EngineInv, NodeEvicts
  PROVE  EngineInv'
<1>1. /\ Mishap
      /\ UNCHANGED <<owner, height, utxos, cursor, funding, fanout, inflight, seen_height, doing,
                     round, stale>>
  BY DEF NodeEvicts, engine
<1>2. PICK i \in Unconfirmed :
        LET S == FamilyOf(tx, {i}) IN
        /\ \A j \in S : tx[j].kind \in {"spam", "fill"}
        /\ tx' = Gone(tx, S)
        /\ lost' = lost \cup UNION {tx[j].ins : j \in S}
  BY DEF NodeEvicts
<1> DEFINE F == FamilyOf(tx, {i})
<1>3. /\ Books(Now) /\ Ledger(tx) /\ Dated(tx, height) /\ utxos \in Seq(Place) /\ cursor \in Nat
      /\ fanout \in Nat /\ funding \in [txid : Nat, known : BOOLEAN] /\ lost \subseteq Coins(tx)
      /\ EngineTypes /\ WhoDoes /\ SentLater /\ Shapes /\ Reconciliation /\ tx \in Seq(TxRecord)
  BY EngineParts
<1>4. mishaps' \in 0 .. MaxMishaps BY <1>1, <1>3, SpendIs DEF EngineTypes
<1>5. IsFamily(F, tx, {i}) BY <1>3, FamilyFacts
<1>6. /\ \A j \in F : tx[j].kind \in {"spam", "fill"}
      /\ tx' = Gone(tx, F)
      /\ lost' = lost \cup UNION {tx[j].ins : j \in F}
  BY <1>2
<1>7. tx[i].state = "mempool" BY DEF Unconfirmed
<1> HIDE DEF F
<1>8. Forgets(tx, tx', F) BY <1>3, <1>5, <1>6, GoneKeeps
<1>9. \A j \in F : tx[j].state # "mined" BY <1>3, <1>5, <1>7, FamilyUnconfirmed
<1>10. Changed(tx, tx') /\ Coins(tx') = Coins(tx) /\ (OneInput(tx) => OneInput(tx'))
       /\ tx' \in Seq(TxRecord) /\ Dated(tx', height)
  BY <1>3, <1>8 DEF Forgets, Changed
<1>11. F \subseteq DOMAIN tx BY <1>5 DEF IsFamily
<1>12. lost' \in SUBSET Place
  <2>1. \A j \in F : tx[j].ins \subseteq Coins(tx) BY <1>3, <1>11 DEF Ledger, Spends
  <2>2. Coins(tx) \subseteq Place BY <1>3, CoinIs
  <2> QED BY <1>3, <1>6, <2>1, <2>2
<1>13. Has(Now', tx', utxos, cursor, funding, fanout, lost')
  BY <1>1, <1>3, <1>10, <1>12, NowHas
<1>14. funding.txid \notin F /\ fanout \notin F
  <2>1. /\ funding # NoFunding => tx[funding.txid].kind = "fund"
        /\ fanout # 0 => tx[fanout].kind = "fan"
        /\ NoFunding.txid = 0 /\ 0 \notin DOMAIN tx
    BY <1>3, PendingIs, NowIs
  <2> QED BY <1>6, <1>11, <2>1
<1>15. /\ Books(Now')
       /\ Accounted(Now) => Accounted(Now')
       /\ Alive(Now) => Alive(Now')
       /\ Confirmed(Now) => Confirmed(Now')
  <2> DEFINE e == Now
             f == Now'
             u == tx'
             L == lost'
  <2>1. /\ e.tx = tx /\ e.utxos = utxos /\ e.cursor = cursor /\ e.funding = funding
        /\ e.fanout = fanout /\ e.lost = lost
    BY NowIs
  <2>2. Books(e) BY <1>3
  <2>3. Has(f, u, e.utxos, e.cursor, e.funding, e.fanout, L) BY <1>13, <2>1
  <2>4. Forgets(e.tx, u, F) /\ Freed(L, e, F)
    BY <1>6, <1>8, <1>11, <2>1 DEF Freed
  <2>6. e.funding.txid \notin F /\ e.fanout \notin F /\ \A j \in F : e.tx[j].state # "mined"
    BY <1>9, <1>14, <2>1
  <2> HIDE DEF e, f, u, L
  <2>5. /\ Books(f)
        /\ Accounted(e) => Accounted(f)
        /\ Alive(e) => Alive(f)
        /\ Confirmed(e) => Confirmed(f)
    BY <2>2, <2>3, <2>4, <2>6, ForgetsBooks
  <2> QED BY <2>5 DEF e, f
<1>16. InBooks(Now) => InBooks(Now)'
  <2>1. Accounted(Now') => Accounted(Now)' BY <1>1 DEF Accounted
  <2> QED BY <1>1, <1>15, <2>1 DEF InBooks
<1>17. Books(Now)' /\ Dated(tx, height)' BY <1>1, <1>10, <1>15
<1>18. EngineTypes' BY <1>1, <1>3, <1>4, <1>10 DEF EngineTypes
<1>19. WhoDoes' BY <1>1, <1>3 DEF WhoDoes
<1>20. SentLater' BY <1>1, <1>3, <1>10, SentStays DEF SentLater
<1>21. Shapes' BY <1>1, <1>3, <1>10 DEF Shapes
<1>22. Reconciliation' BY <1>1, <1>3, <1>16 DEF Reconciliation
<1> QED BY <1>17, <1>18, <1>19, <1>20, <1>21, <1>22 DEF EngineInv

\* A chain job takes the latest block off.
LEMMA ChainMutatedInv ==
  ASSUME EngineInv, ChainMutated
  PROVE  EngineInv'
<1> DEFINE top == Top(tx, height)
           back == Back(tx, top)
           m == [Now EXCEPT !.tx = back]
<1>1. /\ Mishap /\ doing = "idle" /\ height > 1 /\ height' = height - 1
      /\ stale' = (stale \/ owner # "burst")
      /\ UNCHANGED <<owner, utxos, cursor, funding, fanout, inflight, seen_height, doing, round>>
  BY DEF ChainMutated, engine
<1>2. PICK D \in {{}} \cup {FamilyOf(back, {i}) : i \in top} :
        /\ tx' = Gone(back, D)
        /\ lost' = lost \cup UNION {tx[j].ins : j \in D}
  BY DEF ChainMutated, Top, Back
<1>3. /\ Books(Now) /\ Ledger(tx) /\ Dated(tx, height) /\ utxos \in Seq(Place) /\ cursor \in Nat
      /\ fanout \in Nat /\ funding \in [txid : Nat, known : BOOLEAN] /\ lost \subseteq Coins(tx)
      /\ EngineTypes /\ WhoDoes /\ SentLater /\ Shapes /\ Reconciliation /\ tx \in Seq(TxRecord)
      /\ Now \in EngineRec
  BY EngineParts
<1>4. mishaps' \in 0 .. MaxMishaps BY <1>1, <1>3, SpendIs DEF EngineTypes
<1>5. height \in Nat /\ height > 0 BY <1>3 DEF EngineTypes
<1>6. back = Back(tx, Top(tx, height)) OBVIOUS
<1> HIDE DEF back, top
<1>7. Moves(tx, back) /\ Dated(back, height - 1) BY <1>3, <1>5, <1>6, BackKeeps
<1>8. /\ Changed(tx, back) /\ Coins(back) = Coins(tx) /\ (OneInput(tx) => OneInput(back))
      /\ back \in Seq(TxRecord) /\ Ledger(back)
  BY <1>7 DEF Moves, Changed
<1>9. \E S : IsFamily(D, back, S)
  <2>1. CASE D = {} BY <2>1, EmptyFamily
  <2>2. CASE D # {}
    <3>1. PICK i \in top : D = FamilyOf(back, {i}) BY <1>2, <2>2
    <3> QED BY <1>8, <3>1, FamilyFacts
  <2> QED BY <2>1, <2>2
<1>10. PICK S : IsFamily(D, back, S) BY <1>9
<1>11. Forgets(back, tx', D)
  <2> DEFINE u == tx'
  <2>1. u = Gone(back, D) BY <1>2
  <2> HIDE DEF u
  <2>2. Forgets(back, u, D) BY <1>8, <1>10, <2>1, GoneKeeps
  <2> QED BY <2>2 DEF u
<1>12. /\ Changed(back, tx') /\ Coins(tx') = Coins(tx) /\ (OneInput(tx) => OneInput(tx'))
       /\ tx' \in Seq(TxRecord) /\ Dated(tx', height - 1)
  BY <1>7, <1>8, <1>11 DEF Forgets, Changed
<1>13. D \subseteq DOMAIN back /\ DOMAIN back = DOMAIN tx /\ \A j \in DOMAIN tx : back[j].ins = tx[j].ins
  BY <1>8, <1>10 DEF IsFamily, Changed
<1>14. lost' = lost \cup UNION {back[j].ins : j \in D} BY <1>2, <1>13
<1>15. lost' \in SUBSET Place
  <2>1. \A j \in D : tx[j].ins \subseteq Coins(tx) BY <1>3, <1>13 DEF Ledger, Spends
  <2>2. Coins(tx) \subseteq Place BY <1>3, CoinIs
  <2> QED BY <1>2, <1>3, <2>1, <2>2
<1>16. Has(Now', tx', utxos, cursor, funding, fanout, lost')
  BY <1>1, <1>3, <1>12, <1>15, NowHas
<1>17. Has(m, back, Now.utxos, Now.cursor, Now.funding, Now.fanout, Now.lost)
  BY <1>3, <1>8, EditTx
<1> HIDE DEF m
<1>18. Books(m) /\ (Accounted(Now) => Accounted(m))
  <2> DEFINE e == Now
  <2>1. Books(e) /\ Moves(e.tx, back) BY <1>3, <1>7, NowIs
  <2>2. Has(m, back, e.utxos, e.cursor, e.funding, e.fanout, e.lost) BY <1>17
  <2> HIDE DEF e
  <2>3. Books(m) /\ (Accounted(e) => Accounted(m)) BY <2>1, <2>2, MovesBooks
  <2> QED BY <2>3 DEF e
<1>19. Books(Now') /\ (Accounted(Now) => Accounted(Now'))
  <2> DEFINE f == Now'
             u == tx'
             L == lost'
  <2>1. /\ m.tx = back /\ m.utxos = utxos /\ m.cursor = cursor /\ m.funding = funding
        /\ m.fanout = fanout /\ m.lost = lost
    BY <1>17, NowIs DEF Has
  <2>2. Has(f, u, m.utxos, m.cursor, m.funding, m.fanout, L) BY <1>16, <2>1
  <2>3. Forgets(m.tx, u, D) /\ Freed(L, m, D)
    BY <1>11, <1>13, <1>14, <2>1 DEF Freed
  <2> HIDE DEF f, u, L
  <2>4. Books(f) /\ (Accounted(m) => Accounted(f)) BY <1>18, <2>2, <2>3, ForgetsBooks
  <2> QED BY <1>18, <2>4 DEF f
<1>20. ~stale' => owner = "burst" /\ ~stale BY <1>1, <1>3 DEF EngineTypes
<1>21. Reconciliation'
  <2>1. Accounted(Now') => Accounted(Now)' BY <1>1 DEF Accounted
  <2>2. ASSUME ~stale' PROVE InBooks(Now)'
    <3>1. Accounted(Now) /\ owner' = "burst" BY <1>1, <1>3, <1>20, <2>2 DEF Reconciliation, InBooks
    <3> QED BY <1>19, <2>1, <3>1 DEF InBooks
  <2>3. doing' # "height" BY <1>1
  <2> QED BY <2>2, <2>3 DEF Reconciliation
<1>22. Books(Now)' /\ Dated(tx, height)' BY <1>1, <1>12, <1>19
<1>23. EngineTypes'
  <2>1. height' \in Nat /\ height' > 0 BY <1>1, <1>5
  <2>2. stale' \in BOOLEAN BY <1>1
  <2> QED BY <1>1, <1>3, <1>4, <1>12, <2>1, <2>2 DEF EngineTypes
<1>24. WhoDoes' BY <1>1 DEF WhoDoes
<1>25. SentLater'
  <2>1. round.sent = <<>> BY <1>1, <1>3 DEF SentLater
  <2>2. (round.sent)' = <<>> BY <1>1, <2>1
  <2> QED BY <2>2, NoneSent
<1>26. Shapes' BY <1>1, <1>3, <1>12 DEF Shapes
<1> QED BY <1>21, <1>22, <1>23, <1>24, <1>25, <1>26 DEF EngineInv

\* r is the coins of q at the positions P.
CoinsKept(r, q, P) ==
  /\ r \in Seq(Place) /\ Len(r) <= Len(q) /\ Len(r) \in Nat /\ Len(q) \in Nat
  /\ \A k \in P : k \in DOMAIN q /\ q[k] \in Range(r)
  /\ \A c \in Range(r) : \E k \in P : k \in DOMAIN q /\ c = q[k]

\* What Kept returns of a list of coins.
LEMMA KeptCoins ==
  ASSUME NEW q \in Seq(Place), NEW P \in SUBSET (1 .. Len(q)), NEW r,
         r = [n \in DOMAIN Ascending(P) |-> q[Ascending(P)[n]]]
  PROVE  CoinsKept(r, q, P)
<1>1. r \in Seq(Place) /\ IsKept(r, q, P) BY KeptPositions
<1>2. PICK slot \in [1 .. Len(r) -> P] :
        /\ \A p \in P : \E n \in 1 .. Len(r) : slot[n] = p
        /\ \A n \in 1 .. Len(r) : r[n] = q[slot[n]]
  BY <1>1 DEF IsKept
<1>3. /\ Len(r) <= Len(q) /\ Len(r) \in Nat /\ DOMAIN r = 1 .. Len(r) /\ Len(q) \in Nat
      /\ DOMAIN q = 1 .. Len(q)
  BY <1>1 DEF IsKept
<1>4. ASSUME NEW k \in P PROVE k \in DOMAIN q /\ q[k] \in Range(r)
  <2>1. PICK n \in 1 .. Len(r) : slot[n] = k BY <1>2
  <2>2. r[n] = q[k] /\ n \in DOMAIN r BY <1>2, <1>3, <2>1
  <2>3. r[n] \in Range(r) BY <2>2 DEF Range
  <2> QED BY <1>3, <2>2, <2>3
<1>5. ASSUME NEW c \in Range(r) PROVE \E k \in P : k \in DOMAIN q /\ c = q[k]
  <2>1. PICK n \in DOMAIN r : c = r[n] BY DEF Range
  <2>2. n \in 1 .. Len(r) /\ r[n] = q[slot[n]] BY <1>2, <1>3
  <2>3. slot[n] \in P BY <2>2
  <2> QED BY <1>3, <2>1, <2>2, <2>3
<1> QED BY <1>1, <1>3, <1>4, <1>5 DEF CoinsKept

\* The same on demand, with a block of its own.
LEMMA PrepareManualBurstInv ==
  ASSUME EngineInv, NEW mode, PrepareManualBurst(mode)
  PROVE  EngineInv'
<1> DEFINE f == EnsureFunds(Now, BurstTxs, BurstTxs, mode)
           w == Mined(f.tx, {})
           g == [f EXCEPT !.tx = w]
<1>1. /\ doing = "prepare" /\ Spend(mode, TRUE)
      /\ doing' \in {"idle", "prepare"}
      /\ UNCHANGED <<owner, inflight, seen_height, round, stale>>
      /\ (Becomes(f) /\ height' = height) \/ (Becomes(g) /\ height' = height + 1)
  BY DEF PrepareManualBurst, Spend
<1>2. mishaps' \in 0 .. MaxMishaps BY <1>1, SpendIs DEF EngineInv, EngineTypes
<1>3. owner = "burst" /\ ~stale /\ height \in Nat /\ height > 0 BY <1>1 DEF EngineInv, WhoDoes, EngineTypes
<1>4. Keeps(Now, f) /\ KeepsOne(Now, f) BY Targets, EnsureFundsKeeps DEF EngineInv
<1>14. w = Mined(f.tx, {}) OBVIOUS
<1> HIDE DEF f
<1>5. /\ Books(Now)' /\ Dated(tx, height)' /\ (Range(inflight) \subseteq Coins(tx))'
      /\ OneInput(tx)' /\ (InBooks(Now) => InBooks(Now)')
  <2>1. CASE Becomes(f) /\ height' = height BY <1>1, <1>3, <1>4, <2>1, Provisioned
  <2>2. CASE Becomes(g) /\ height' = height + 1
    <3>1. Books(f) /\ f \in EngineRec /\ f.tx \in Seq(TxRecord) /\ Ledger(f.tx)
      <4>1. Books(f) BY <1>4 DEF Keeps
      <4>2. f \in EngineRec /\ Ledger(f.tx) BY <4>1 DEF Books
      <4> QED BY <4>1, <4>2, EngineFields
    <3>2. Grown(tx, f.tx) BY <1>4, NowIs DEF Keeps
    <3>3. tx \in Seq(TxRecord) /\ Dated(tx, height) BY EngineParts
    <3>4. Coins(tx) \subseteq Coins(f.tx) /\ Dated(f.tx, height) BY <3>1, <3>2, <3>3, GrownFacts
    <3>5. IsFamily({}, f.tx, {}) BY EmptyFamily
    <3> HIDE DEF w
    <3>6. Moves(f.tx, w) /\ Dated(w, height + 1) BY <1>3, <1>14, <3>1, <3>4, <3>5, MinedKeeps
    <3>7. w \in Seq(TxRecord) /\ Coins(w) = Coins(f.tx) /\ (OneInput(f.tx) => OneInput(w))
      BY <3>6 DEF Moves, Changed
    <3>8. Has(g, w, f.utxos, f.cursor, f.funding, f.fanout, f.lost) BY <3>1, <3>7, EditTx
    <3> HIDE DEF g
    <3>9. Books(g) /\ (Accounted(f) => Accounted(g)) BY <3>1, <3>6, <3>8, MovesBooks
    <3>10. g \in EngineRec /\ g.tx = w BY <3>8 DEF Has
    <3>11. Now' = g BY <2>2, <3>10, BecomesIs
    <3>12. tx' = w BY <2>2, <3>10 DEF Becomes
    <3>13. Books(Now)' BY <3>9, <3>11
    <3>14. Dated(tx, height)' BY <2>2, <3>6, <3>12
    <3>15. (Range(inflight) \subseteq Coins(tx))'
      BY <1>1, <3>4, <3>7, <3>12 DEF EngineInv, EngineTypes
    <3>16. OneInput(tx)' BY <1>3, <1>4, <3>7, <3>12, NowIs DEF EngineInv, Shapes, KeepsOne
    <3>17. ASSUME InBooks(Now) PROVE InBooks(Now)'
      <4>1. Accounted(g) BY <1>4, <3>9, <3>17 DEF InBooks, Keeps
      <4>2. Accounted(Now)' BY <1>1, <3>11, <4>1 DEF Accounted
      <4> QED BY <1>1, <1>3, <4>2 DEF InBooks
    <3> QED BY <3>13, <3>14, <3>15, <3>16, <3>17
  <2> QED BY <1>1, <2>1, <2>2
<1>6. height' \in Nat /\ height' > 0 BY <1>1, <1>3
<1>7. round.sent = <<>> BY <1>1 DEF EngineInv, SentLater
<1>8. (round.sent)' = <<>> BY <1>1, <1>7
<1>9. EngineTypes' BY <1>1, <1>2, <1>5, <1>6 DEF EngineInv, EngineTypes
<1>10. SentLater' BY <1>8, NoneSent
<1>11. WhoDoes' BY <1>1, <1>3 DEF WhoDoes
<1>12. Shapes' BY <1>1, <1>3, <1>5 DEF Shapes
<1>13. Reconciliation' BY <1>1, <1>3, <1>5 DEF EngineInv, Reconciliation
<1> QED BY <1>5, <1>9, <1>10, <1>11, <1>12, <1>13 DEF EngineInv

\* The scan of a reconciliation, and what still stands of the fills.
LEMMA ReconcileScanInv ==
  ASSUME EngineInv, NEW mode, ReconcileScan(mode)
  PROVE  EngineInv'
<1> DEFINE f == Reconciled(Now, mode)
<1>1. /\ doing = "idle" /\ stale /\ Spend(mode, TRUE)
      /\ UNCHANGED <<owner, height, round, stale, seen_height>>
      /\ \/ UNCHANGED <<tx, utxos, cursor, funding, fanout, inflight, doing, lost>>
         \/ Becomes(f) /\ inflight' = StillInflight /\ doing' = "height"
  BY DEF ReconcileScan, engine
<1> HIDE DEF f
<1>2. mishaps' \in 0 .. MaxMishaps BY <1>1, SpendIs DEF EngineInv, EngineTypes
<1>3. round.sent = <<>> BY <1>1 DEF EngineInv, SentLater
<1>4. (round.sent)' = <<>> BY <1>1, <1>3
<1>5. SentLater' BY <1>4, NoneSent
<1>6. CASE UNCHANGED <<tx, utxos, cursor, funding, fanout, inflight, doing, lost>>
  <2>1. /\ Books(Now)' /\ Dated(tx, height)' /\ (Range(inflight) \subseteq Coins(tx))'
        /\ InBooks(Now) => InBooks(Now)'
        /\ owner = "floor" => cursor' = 0
        /\ owner # "floor" => OneInput(tx)'
    BY <1>1, <1>6, SameBooks
  <2>2. EngineTypes' BY <1>1, <1>2, <1>6, <2>1 DEF EngineInv, EngineTypes
  <2>3. WhoDoes' BY <1>1, <1>6 DEF EngineInv, WhoDoes
  <2>4. Shapes' BY <1>1, <1>6, <2>1 DEF Shapes
  <2>5. Reconciliation' BY <1>1, <1>6, <2>1 DEF EngineInv, Reconciliation
  <2> QED BY <1>5, <2>1, <2>2, <2>3, <2>4, <2>5 DEF EngineInv
<1>7. CASE Becomes(f) /\ inflight' = StillInflight /\ doing' = "height"
  <2>0. f = Reconciled(Now, mode) BY DEF f
  <2>1. /\ Books(f) /\ f.tx = tx /\ f.cursor = 0
        /\ Unseen(tx) \ Range(inflight) \subseteq f.lost
        /\ Alive(f) /\ Confirmed(f) /\ Range(f.utxos) = Scanned(tx)
    BY <2>0, ReconciledKeeps, NowIs DEF EngineInv
  <2>2. f \in EngineRec BY <2>1 DEF Books
  <2>3. Now' = f /\ tx' = tx /\ cursor' = 0 BY <1>7, <2>1, <2>2, BecomesIs DEF Becomes
  <2>4. Books(Now)' /\ Dated(tx, height)' BY <1>1, <2>1, <2>3 DEF EngineInv
  <2> DEFINE P == {k \in DOMAIN inflight : TxOutWithMempool(tx, inflight[k])
                                             /\ inflight[k] \notin Scanned(tx)}
             r == inflight'
  <2>5. r = [n \in DOMAIN Ascending(P) |-> inflight[Ascending(P)[n]]]
    BY <1>7 DEF StillInflight, Kept
  <2>6. inflight \in Seq(Place) /\ Range(inflight) \subseteq Coins(tx) /\ Len(inflight) <= FloorTarget
    BY DEF EngineInv, EngineTypes
  <2>7. P \in SUBSET (1 .. Len(inflight)) BY <2>6
  <2>8. \A k \in DOMAIN inflight : k \in P <=> TxOutWithMempool(tx, inflight[k])
                                               /\ inflight[k] \notin Scanned(tx)
    OBVIOUS
  <2> HIDE DEF P, r
  <2>9. CoinsKept(r, inflight, P) BY <2>5, <2>6, <2>7, KeptCoins
  <2>10. r \in Seq(Place) /\ Range(r) \subseteq Coins(tx) /\ Len(r) <= FloorTarget
    <3>1. Len(r) <= FloorTarget BY <2>6, <2>9, EngineConstants DEF CoinsKept
    <3>2. r \in Seq(Place) BY <2>9 DEF CoinsKept
    <3>3. Range(r) \subseteq Coins(tx) BY <2>6, <2>9 DEF CoinsKept, Range
    <3> QED BY <3>1, <3>2, <3>3
  <2>11. ASSUME NEW c \in Unspent(tx)
         PROVE  c \in Scanned(tx) \cup Range(r) \cup f.lost
    <3>1. CASE c \in Scanned(tx) BY <3>1
    <3>2. CASE c \notin Scanned(tx) /\ c \in Range(inflight)
      <4>1. PICK k \in DOMAIN inflight : inflight[k] = c BY <3>2 DEF Range
      <4>2. TxOutWithMempool(tx, c) BY DEF Unspent
      <4>3. k \in P BY <2>8, <3>2, <4>1, <4>2
      <4> QED BY <2>9, <4>1, <4>3 DEF CoinsKept
    <3>3. CASE c \notin Scanned(tx) /\ c \notin Range(inflight)
      <4>1. c \in Unseen(tx) BY <3>3 DEF Unspent, Unseen
      <4> QED BY <2>1, <3>3, <4>1
    <3> QED BY <3>1, <3>2, <3>3
  <2>12. Accounted(Now)'
    <3>1. Unspent(tx) \subseteq Range(f.utxos) \cup Range(r) \cup f.lost BY <2>1, <2>11
    <3> QED BY <2>1, <2>3, <3>1 DEF Accounted, r
  <2>13. InBooks(Now)'
    <3>1. Alive(Now)' /\ Confirmed(Now)' BY <2>1, <2>3
    <3> QED BY <2>12, <3>1 DEF InBooks
  <2>14. EngineTypes'
    <3>1. (inflight \in Seq(Place) /\ Range(inflight) \subseteq Coins(tx) /\ Len(inflight) <= FloorTarget)'
      BY <2>3, <2>10 DEF r
    <3> QED BY <1>1, <1>2, <1>7, <3>1 DEF EngineInv, EngineTypes
  <2>15. WhoDoes' BY <1>1, <1>7 DEF WhoDoes
  <2>16. Shapes' BY <1>1, <1>7, <2>3 DEF EngineInv, Shapes
  <2>17. Reconciliation' BY <2>13 DEF Reconciliation
  <2> QED BY <1>5, <2>4, <2>14, <2>15, <2>16, <2>17 DEF EngineInv
<1> QED BY <1>1, <1>6, <1>7

(***************************************************************************)
(* The harvest of the floor pool.                                          *)
(***************************************************************************)
\* What the floor asks for is what is missing.
LEMMA FloorNeedIs ==
  ASSUME NEW n \in Nat, n <= FloorTarget
  PROVE  FloorNeed(n) \in Nat /\ FloorNeed(n) + n <= FloorTarget
BY EngineConstants DEF FloorNeed

\* The mined fills become coins of the pool again.
LEMMA HarvestedBooks ==
  ASSUME EngineInv, owner = "floor", ~stale,
         UNCHANGED <<owner, tx, height, cursor, funding, fanout, lost>>,
         NEW M, \A c \in M : c \in Range(inflight) /\ tx[c[1]].state = "mined",
         utxos' = utxos \o Kept(inflight, LAMBDA c : c \in M /\ c \notin Range(utxos)),
         inflight' = Kept(inflight, LAMBDA c : c \notin M)
  PROVE  /\ Books(Now)' /\ InBooks(Now)'
         /\ inflight' \in Seq(Place) /\ Range(inflight') \subseteq Coins(tx)
         /\ Len(inflight') <= FloorTarget /\ Len(inflight') \in Nat
<1> DEFINE P == {k \in DOMAIN inflight : inflight[k] \in M /\ inflight[k] \notin Range(utxos)}
           Q == {k \in DOMAIN inflight : inflight[k] \notin M}
           b == [n \in DOMAIN Ascending(P) |-> inflight[Ascending(P)[n]]]
           a == utxos \o b
           r == inflight'
<1>1. utxos' = a BY DEF Kept
<1>2. r = [n \in DOMAIN Ascending(Q) |-> inflight[Ascending(Q)[n]]] BY DEF Kept
<1>3. inflight \in Seq(Place) /\ Range(inflight) \subseteq Coins(tx) /\ Len(inflight) <= FloorTarget
  BY DEF EngineInv, EngineTypes
<1>4. P \in SUBSET (1 .. Len(inflight)) /\ Q \in SUBSET (1 .. Len(inflight)) BY <1>3
<1>5. \A k \in DOMAIN inflight :
        /\ k \in P <=> inflight[k] \in M /\ inflight[k] \notin Range(utxos)
        /\ k \in Q <=> inflight[k] \notin M
  OBVIOUS
<1>6. b = [n \in DOMAIN Ascending(P) |-> inflight[Ascending(P)[n]]] OBVIOUS
<1> HIDE DEF P, Q, b, r
<1>7. CoinsKept(b, inflight, P) BY <1>3, <1>4, <1>6, KeptCoins
<1>8. CoinsKept(r, inflight, Q) BY <1>2, <1>3, <1>4, KeptCoins
<1>9. /\ utxos \in Seq(Place) /\ cursor \in Nat /\ fanout \in Nat /\ lost \in SUBSET Place
      /\ funding \in [txid : Nat, known : BOOLEAN] /\ tx \in Seq(TxRecord)
      /\ Range(utxos) \subseteq Coins(tx) /\ lost \subseteq Coins(tx) /\ cursor = 0
      /\ Books(Now) /\ InBooks(Now) /\ Alive(Now) /\ Accounted(Now) /\ Confirmed(Now)
  <2>1. InBooks(Now) /\ cursor = 0 BY DEF EngineInv, Reconciliation, Shapes
  <2>2. Alive(Now) /\ Accounted(Now) /\ Confirmed(Now) BY <2>1 DEF InBooks
  <2> QED BY <2>1, <2>2, EngineParts
<1>10. b \in Seq(Place) BY <1>7 DEF CoinsKept
<1>11. a \in Seq(Place) /\ Range(a) = Range(utxos) \cup Range(b) BY <1>9, <1>10, MoreCoins
<1>12. \A c \in Range(b) : c \in Coins(tx) /\ tx[c[1]].state = "mined"
  <2>1. SUFFICES ASSUME NEW c \in Range(b) PROVE c \in Coins(tx) /\ tx[c[1]].state = "mined" OBVIOUS
  <2>2. PICK k \in P : k \in DOMAIN inflight /\ c = inflight[k] BY <1>7 DEF CoinsKept
  <2>3. c \in M BY <1>5, <2>2
  <2> QED BY <1>3, <2>3
<1>13. \A c \in Range(inflight) : c \in Range(a) \/ c \in Range(r)
  <2>1. SUFFICES ASSUME NEW c \in Range(inflight) PROVE c \in Range(a) \/ c \in Range(r) OBVIOUS
  <2>2. PICK k \in DOMAIN inflight : inflight[k] = c BY DEF Range
  <2>3. CASE c \notin M BY <1>5, <1>8, <2>2, <2>3 DEF CoinsKept
  <2>4. CASE c \in M /\ c \in Range(utxos) BY <1>11, <2>4
  <2>5. CASE c \in M /\ c \notin Range(utxos)
    <3>1. c \in Range(b) BY <1>5, <1>7, <2>2, <2>5 DEF CoinsKept
    <3> QED BY <1>11, <3>1
  <2> QED BY <2>3, <2>4, <2>5
<1>14. r \in Seq(Place) /\ Range(r) \subseteq Coins(tx) /\ Len(r) <= FloorTarget /\ Len(r) \in Nat
  <2>1. r \in Seq(Place) /\ Len(r) \in Nat /\ Len(r) <= FloorTarget
    BY <1>3, <1>8, EngineConstants DEF CoinsKept
  <2>2. \A c \in Range(r) : c \in Range(inflight) BY <1>8 DEF CoinsKept, Range
  <2> QED BY <1>3, <2>1, <2>2
<1> HIDE DEF a
<1>15. Has(Now', tx, a, cursor, funding, fanout, lost) BY <1>1, <1>9, <1>11, NowHas
<1>16. Books(Now') /\ Alive(Now') /\ Confirmed(Now')
       /\ Now'.tx = tx /\ Now'.utxos = a /\ Now'.lost = lost /\ Now'.funding = funding
       /\ Now'.fanout = fanout
  <2> DEFINE f == Now'
  <2>1. /\ f \in EngineRec /\ f.tx = tx /\ f.utxos = a /\ f.cursor = cursor /\ f.funding = funding
        /\ f.fanout = fanout /\ f.lost = lost
    BY <1>15 DEF Has
  <2> HIDE DEF f
  <2>2. Ledger(tx) /\ Len(tx) <= MaxTxs BY EngineParts
  <2>3. Known(f) BY <1>9, <1>11, <1>12, <2>1 DEF Known
  <2>4. Pending(f) BY <1>9, <2>1, NowIs DEF Books, Pending
  <2>5. Books(f) BY <2>1, <2>2, <2>3, <2>4 DEF Books
  <2>6. Alive(f) BY <1>9, <2>1, NowIs DEF Alive
  <2>7. Confirmed(f) BY <1>9, <1>11, <1>12, <2>1, NowIs DEF Confirmed
  <2> QED BY <2>1, <2>5, <2>6, <2>7 DEF f
<1>17. Accounted(Now)'
  <2>1. Unspent(tx) \subseteq Range(a) \cup Range(r) \cup lost
                          \cup {c \in Coins(tx) : c[1] \in {funding.txid, fanout}}
    <3>1. Unspent(tx) \subseteq Range(utxos) \cup Range(inflight) \cup lost
                          \cup {c \in Coins(tx) : c[1] \in {funding.txid, fanout}}
      BY <1>9, NowIs DEF Accounted
    <3> QED BY <1>11, <1>13, <3>1
  <2> QED BY <1>16, <2>1 DEF Accounted, r
<1>18. InBooks(Now)' BY <1>16, <1>17 DEF InBooks
<1> QED BY <1>14, <1>16, <1>18 DEF r

\* HarvestMinedFills keeps the invariant.
LEMMA HarvestMinedFillsInv ==
  ASSUME EngineInv, NEW mode, HarvestMinedFills(mode)
  PROVE  EngineInv'
<1> DEFINE M == {c \in Range(inflight) : /\ tx[c[1]].state = "mined"
                                         /\ tx[c[1]].at \in seen_height + 1 .. height}
<1>1. /\ owner = "floor" /\ doing = "idle" /\ ~stale /\ Spend(mode, TRUE)
      /\ UNCHANGED <<owner, tx, height, cursor, funding, fanout, stale, lost>>
      /\ \/ (doing' = "idle" /\ round' = Idle)
         \/ (doing' = "pool" /\ round' = [Idle EXCEPT !.left = FloorNeed(Len(inflight'))])
  BY DEF HarvestMinedFills, node
<1>2. /\ seen_height' \in {height, seen_height}
      /\ \/ UNCHANGED <<utxos, inflight>>
         \/ /\ utxos' = utxos \o Kept(inflight, LAMBDA c : c \in M /\ c \notin Range(utxos))
            /\ inflight' = Kept(inflight, LAMBDA c : c \notin M)
  BY DEF HarvestMinedFills
<1>3. \A c \in M : c \in Range(inflight) /\ tx[c[1]].state = "mined" OBVIOUS
<1> HIDE DEF M
<1>4. /\ Books(Now)' /\ InBooks(Now)'
      /\ inflight' \in Seq(Place) /\ Range(inflight') \subseteq Coins(tx)
      /\ Len(inflight') <= FloorTarget /\ Len(inflight') \in Nat
  <2>1. CASE UNCHANGED <<utxos, inflight>>
    <3>1. Books(Now)' /\ (InBooks(Now) => InBooks(Now)') BY <1>1, <2>1, SameBooks
    <3>2. InBooks(Now) BY <1>1 DEF EngineInv, Reconciliation
    <3>3. /\ inflight \in Seq(Place) /\ Range(inflight) \subseteq Coins(tx)
          /\ Len(inflight) <= FloorTarget
      BY DEF EngineInv, EngineTypes
    <3>4. Len(inflight) \in Nat BY <3>3
    <3> QED BY <2>1, <3>1, <3>2, <3>3, <3>4
  <2>2. CASE /\ utxos' = utxos \o Kept(inflight, LAMBDA c : c \in M /\ c \notin Range(utxos))
             /\ inflight' = Kept(inflight, LAMBDA c : c \notin M)
    BY <1>1, <1>3, <2>2, HarvestedBooks
  <2> QED BY <1>2, <2>1, <2>2
<1>5. mishaps' \in 0 .. MaxMishaps BY <1>1, SpendIs DEF EngineInv, EngineTypes
<1>6. FloorNeed(Len(inflight')) \in Nat /\ FloorNeed(Len(inflight')) + Len(inflight') <= FloorTarget
  BY <1>4, FloorNeedIs
<1>7. /\ round' \in RoundRec /\ (round.sent)' = <<>>
      /\ doing' = "pool" => (round.left)' = FloorNeed(Len(inflight'))
  <2> DEFINE n == FloorNeed(Len(inflight'))
  <2>1. n \in Nat BY <1>6
  <2>2. (doing' = "idle" /\ round' = Idle) \/ round' = [Idle EXCEPT !.left = n] BY <1>1
  <2> HIDE DEF n
  <2>3. round' \in RoundRec /\ (round.sent)' = <<>> /\ (doing' = "pool" => (round.left)' = n)
    BY <2>1, <2>2, IdleIs
  <2> QED BY <2>3 DEF n
<1>8. Dated(tx, height)' BY <1>1 DEF EngineInv
<1>9. EngineTypes' BY <1>1, <1>2, <1>4, <1>5, <1>7 DEF EngineInv, EngineTypes
<1>10. SentLater' BY <1>7, NoneSent
<1>11. WhoDoes' BY <1>1 DEF WhoDoes
<1>12. Shapes' BY <1>1, <1>6, <1>7 DEF EngineInv, Shapes
<1>13. Reconciliation' BY <1>4 DEF Reconciliation
<1> QED BY <1>4, <1>8, <1>9, <1>10, <1>11, <1>12, <1>13 DEF EngineInv

(***************************************************************************)
(* The round robin and its sending.                                        *)
(***************************************************************************)
\* The branch the round robin turns to.
LEMMA NextBranchIs ==
  ASSUME EngineInv, NEW idx \in NextBranch
  PROVE  /\ idx \in 1 .. Len(utxos) /\ Amount(tx, utxos[idx]) >= 1 /\ Len(utxos) \in Nat
         /\ idx \in DOMAIN utxos /\ Len(utxos) > 0
<1> DEFINE n == Len(utxos)
           able == {k \in 0 .. n - 1 : Amount(tx, utxos[((cursor + k) % n) + 1]) >= 1}
<1>1. utxos \in Seq(Place) /\ cursor \in Nat BY EngineParts
<1>2. n \in Nat /\ DOMAIN utxos = 1 .. n BY <1>1
<1>3. able # {} /\ idx = ((cursor + Min(able)) % n) + 1 BY DEF NextBranch
<1>4. able \in SUBSET Nat BY <1>2
<1>5. Min(able) \in able BY <1>3, <1>4, LeastOf
<1>6. Min(able) \in 0 .. n - 1 /\ Amount(tx, utxos[((cursor + Min(able)) % n) + 1]) >= 1 BY <1>5
<1> HIDE DEF able
<1>7. n > 0 /\ cursor + Min(able) \in Nat BY <1>1, <1>2, <1>6
<1>8. (cursor + Min(able)) % n \in 0 .. n - 1 BY <1>2, <1>7
<1>9. idx \in 1 .. n BY <1>2, <1>3, <1>8
<1> QED BY <1>2, <1>3, <1>6, <1>7, <1>9

\* The rounds that go on.
LEMMA RoundEdits ==
  ASSUME NEW r \in RoundRec
  PROVE  /\ LET q == [r EXCEPT !.fails = @ + 1] IN q \in RoundRec /\ q.sent = r.sent /\ q.left = r.left
         /\ \A m \in Nat : LET q == [r EXCEPT !.left = @ - m] IN
              r.left >= m => q \in RoundRec /\ q.sent = r.sent /\ q.left = r.left - m
         /\ \A s \in Nat : LET q == [r EXCEPT !.left = @ - 1, !.fails = 0, !.sent = Append(@, s)] IN
              r.left > 0 => q \in RoundRec /\ q.sent = Append(r.sent, s)
         /\ LET q == [r EXCEPT !.sent = Front(@)] IN
              r.sent # <<>> => q \in RoundRec /\ q.sent = Front(r.sent)
         /\ LET q == [r EXCEPT !.sent = Front(@), !.left = @ - 1] IN
              r.sent # <<>> /\ r.left > 0 => q \in RoundRec /\ q.sent = Front(r.sent)
<1>1. r.left \in Nat /\ r.fails \in Nat /\ r.sent \in Seq(Nat) /\ r.again \in BOOLEAN BY DEF RoundRec
<1>2. r = [left |-> r.left, fails |-> r.fails, sent |-> r.sent, again |-> r.again] BY DEF RoundRec
<1>3. r.sent # <<>> => Front(r.sent) \in Seq(Nat) BY <1>1 DEF Front
<1>4. LET q == [r EXCEPT !.fails = @ + 1] IN q \in RoundRec /\ q.sent = r.sent /\ q.left = r.left
  BY <1>1 DEF RoundRec
<1>5. ASSUME NEW m \in Nat, r.left >= m
      PROVE  LET q == [r EXCEPT !.left = @ - m] IN q \in RoundRec /\ q.sent = r.sent /\ q.left = r.left - m
  BY <1>1, <1>5 DEF RoundRec
<1>6. ASSUME NEW s \in Nat, r.left > 0
      PROVE  LET q == [r EXCEPT !.left = @ - 1, !.fails = 0, !.sent = Append(@, s)] IN
             q \in RoundRec /\ q.sent = Append(r.sent, s)
  <2> DEFINE w == Append(r.sent, s)
  <2>1. w \in Seq(Nat) /\ r.left - 1 \in Nat BY <1>1, <1>6
  <2> HIDE DEF w
  <2>2. LET q == [r EXCEPT !.left = @ - 1, !.fails = 0, !.sent = w] IN q \in RoundRec /\ q.sent = w
    BY <1>1, <2>1 DEF RoundRec
  <2> QED BY <2>2 DEF w
<1>7. ASSUME r.sent # <<>>
      PROVE  LET q == [r EXCEPT !.sent = Front(@)] IN q \in RoundRec /\ q.sent = Front(r.sent)
  <2> DEFINE w == Front(r.sent)
  <2>1. w \in Seq(Nat) BY <1>3, <1>7
  <2> HIDE DEF w
  <2>2. LET q == [r EXCEPT !.sent = w] IN q \in RoundRec /\ q.sent = w BY <1>1, <2>1 DEF RoundRec
  <2> QED BY <2>2 DEF w
<1>8. ASSUME r.sent # <<>>, r.left > 0
      PROVE  LET q == [r EXCEPT !.sent = Front(@), !.left = @ - 1] IN
             q \in RoundRec /\ q.sent = Front(r.sent)
  <2> DEFINE w == Front(r.sent)
  <2>1. w \in Seq(Nat) /\ r.left - 1 \in Nat BY <1>1, <1>3, <1>8
  <2> HIDE DEF w
  <2>2. LET q == [r EXCEPT !.sent = w, !.left = @ - 1] IN q \in RoundRec /\ q.sent = w
    BY <1>1, <2>1 DEF RoundRec
  <2> QED BY <2>2 DEF w
<1> QED BY <1>4, <1>5, <1>6, <1>7, <1>8

\* The engine submitted a transaction of its rounds, whose change is a tip or
\* out of sight.
LEMMA SpamBooks ==
  ASSUME NEW e, Books(e), NEW t, NEW coin, NEW outs, NEW change,
         Submitted(e.tx, t, "spam", {coin}, outs), NewCoins(Len(t), outs) = {change},
         Len(e.tx) < MaxTxs, NEW f, NEW coins, NEW n, NEW hidden,
         Has(f, t, coins, n, e.funding, e.fanout, hidden),
         Range(coins) \subseteq Range(e.utxos) \cup {change},
         Range(e.utxos) \subseteq Range(coins) \cup {coin},
         hidden \subseteq e.lost \cup {change}, e.lost \subseteq hidden,
         change \in Range(coins) \cup hidden, n = 0 \/ n < Len(coins)
  PROVE  /\ Books(f)
         /\ Accounted(e) => Accounted(f)
         /\ Alive(e) => Alive(f)
<1>1. /\ f \in EngineRec /\ f.tx = t /\ f.utxos = coins /\ f.cursor = n
      /\ f.funding = e.funding /\ f.fanout = e.fanout /\ f.lost = hidden
  BY DEF Has
<1>2. /\ Ledger(t) /\ Len(t) = Len(e.tx) + 1 /\ Len(e.tx) \in Nat
      /\ \A i \in DOMAIN e.tx : i \in DOMAIN t /\ t[i] = e.tx[i] /\ i # Len(t)
      /\ \A i \in DOMAIN e.tx : Live(t, i) <=> Live(e.tx, i)
      /\ Coins(t) = Coins(e.tx) \cup {change}
      /\ Unspent(t) = (Unspent(e.tx) \ {coin}) \cup {change}
  BY DEF Submitted
<1>3. Known(e) /\ Pending(e) /\ Ledger(e.tx) BY DEF Books
<1>4. Len(t) <= MaxTxs BY <1>2, EngineConstants
<1>5. Known(f) BY <1>1, <1>2, <1>3 DEF Known
<1>6. Pending(f) BY <1>1, <1>2, <1>3 DEF Pending
<1>7. Books(f) BY <1>1, <1>2, <1>4, <1>5, <1>6 DEF Books
<1>8. ASSUME Accounted(e) PROVE Accounted(f)
  <2>1. ASSUME NEW c \in Unspent(t)
        PROVE  c \in Range(coins) \cup Range(inflight) \cup hidden
                       \cup {d \in Coins(t) : d[1] \in {e.funding.txid, e.fanout}}
    <3>1. CASE c = change BY <3>1
    <3>2. CASE c \in Unspent(e.tx) /\ c # coin
      BY <1>2, <1>8, <3>2 DEF Accounted
    <3> QED BY <1>2, <3>1, <3>2
  <2> QED BY <1>1, <2>1 DEF Accounted
<1>9. ASSUME Alive(e) PROVE Alive(f) BY <1>1, <1>2, <1>3, <1>9 DEF Alive, Pending
<1> QED BY <1>7, <1>8, <1>9

\* A list of coins with another one in a place.
Exchanged(b, a, i, c) ==
  /\ b \in Seq(Place) /\ Len(b) = Len(a) /\ DOMAIN b = DOMAIN a
  /\ Range(b) \subseteq Range(a) \cup {c} /\ c \in Range(b)
  /\ Range(a) \subseteq Range(b) \cup {a[i]}
  /\ b[i] = c /\ \A k \in DOMAIN a : k # i => b[k] = a[k]

\* A list of coins with one exchanged.
LEMMA ExchangedCoin ==
  ASSUME NEW a \in Seq(Place), NEW i \in DOMAIN a, NEW c \in Place
  PROVE  Exchanged([a EXCEPT ![i] = c], a, i, c)
<1> DEFINE b == [a EXCEPT ![i] = c]
<1>1. /\ b \in Seq(Place) /\ Len(b) = Len(a) /\ DOMAIN b = DOMAIN a
      /\ b[i] = c /\ \A k \in DOMAIN a : k # i => b[k] = a[k]
  OBVIOUS
<1>2. c \in Range(b) BY <1>1 DEF Range
<1>3. Range(b) \subseteq Range(a) \cup {c} BY <1>1 DEF Range
<1>4. Range(a) \subseteq Range(b) \cup {a[i]}
  <2>1. SUFFICES ASSUME NEW k \in DOMAIN a, k # i PROVE a[k] \in Range(b) BY DEF Range
  <2> QED BY <1>1, <2>1 DEF Range
<1> QED BY <1>1, <1>2, <1>3, <1>4 DEF Exchanged

\* The round robin goes on within the list.
LEMMA Around ==
  ASSUME NEW n \in Nat, NEW i \in 1 .. n
  PROVE  /\ i % n \in Nat /\ i % n < n
         /\ n = 1 => i % n = 0
         /\ n # 1 => (i % n) % (n - 1) \in Nat /\ (i % n) % (n - 1) < n - 1
<1>1. i % n \in Nat /\ i % n < n /\ (n = 1 => i % n = 0) OBVIOUS
<1>2. ASSUME n # 1, NEW j \in Nat PROVE j % (n - 1) \in Nat /\ j % (n - 1) < n - 1
  <2>1. n - 1 \in Nat /\ n - 1 > 0 BY <1>2
  <2> QED BY <2>1
<1> QED BY <1>1, <1>2

\* A step of the sending or the replacing loop.
LEMMA SendingStep ==
  ASSUME EngineInv, doing \in {"send", "bump"},
         UNCHANGED <<owner, height, inflight, seen_height, doing, stale>>,
         mishaps' \in 0 .. MaxMishaps, round' \in RoundRec, SentLater',
         Books(Now)', Dated(tx', height), Coins(tx) \subseteq Coins(tx'), OneInput(tx'),
         InBooks(Now) => InBooks(Now)'
  PROVE  EngineInv'
<1>1. owner # "floor" /\ ~stale BY DEF EngineInv, WhoDoes
<1>2. EngineTypes'
  <2>1. (Range(inflight) \subseteq Coins(tx))' BY DEF EngineInv, EngineTypes
  <2> QED BY <2>1 DEF EngineInv, EngineTypes
<1>3. WhoDoes' BY DEF EngineInv, WhoDoes
<1>4. Shapes' BY <1>1 DEF Shapes
<1>5. Reconciliation' BY <1>1 DEF EngineInv, Reconciliation
<1>6. Dated(tx, height)' OBVIOUS
<1> QED BY <1>2, <1>3, <1>4, <1>5, <1>6 DEF EngineInv

\* What is sent stays sent.
LEMMA SentKept ==
  ASSUME EngineInv, UNCHANGED <<funding, fanout, doing>>, doing \in {"send", "bump"},
         (round.sent)' = round.sent, \A s : IsSent(s, tx) => IsSent(s, tx')
  PROVE  SentLater'
BY DEF EngineInv, SentLater

\* The coin of a branch, and the transaction that spends it.
LEMMA BranchSpent ==
  ASSUME EngineInv, NEW c \in Range(utxos), Amount(tx, c) >= 1, Accepts(tx, {c}),
         NEW rbf \in BOOLEAN, NEW sort \in {"spam", "fill"},
         NEW u, u = Accepted(tx, sort, {c}, <<Amount(tx, c) - 1>>, rbf)
  PROVE  /\ Submitted(tx, u, sort, {c}, <<Amount(tx, c) - 1>>) /\ Len(tx) < MaxTxs
         /\ NewCoins(Len(u), <<Amount(tx, c) - 1>>) = {<<Len(tx) + 1, 1>>}
         /\ <<Len(tx) + 1, 1>> \in Place
<1>1. Ledger(tx) /\ tx \in Seq(TxRecord) /\ Len(tx) \in Nat /\ c \in Coins(tx) BY EngineParts
<1>2. Amount(tx, c) \in Nat BY <1>1, AmountIs
<1>3. Amount(tx, c) - 1 \in Nat BY <1>2
<1>4. TxOutWithMempool(tx, c) /\ Len(tx) < MaxTxs BY DEF Accepts
<1>5. Live(tx, c[1]) BY <1>4 DEF TxOutWithMempool
<1>6. Submitted(tx, u, sort, {c}, <<Amount(tx, c) - 1>>)
  <2> DEFINE x == Amount(tx, c) - 1
             outs == <<x>>
             ins == {c}
  <2>1. outs \in Seq(Nat) /\ Len(outs) = 1 /\ Len(outs) \in 1 .. MaxOuts BY <1>3, OneOutput
  <2>2. ins \in SUBSET Coins(tx) /\ \A d \in ins : Live(tx, d[1]) BY <1>1, <1>5
  <2>3. sort \in Kinds /\ sort # "fund" BY DEF Kinds
  <2>4. u = Accepted(tx, sort, ins, outs, rbf) OBVIOUS
  <2> HIDE DEF outs, ins
  <2>5. Submitted(tx, u, sort, ins, outs) BY <1>1, <2>1, <2>2, <2>3, <2>4, AcceptedIs
  <2> QED BY <2>5 DEF outs, ins
<1>7. Len(u) = Len(tx) + 1 BY <1>6 DEF Submitted
<1>8. NewCoins(Len(u), <<Amount(tx, c) - 1>>) = {<<Len(tx) + 1, 1>>} BY <1>3, <1>7, OneOutput
<1>9. <<Len(tx) + 1, 1>> \in Place BY <1>1 DEF Place
<1> QED BY <1>4, <1>6, <1>8, <1>9

\* What a submission leaves of the transactions.
LEMMA SubmittedFacts ==
  ASSUME NEW t, NEW u, NEW sort, NEW ins, NEW outs, Submitted(t, u, sort, ins, outs)
  PROVE  /\ Coins(t) \subseteq Coins(u) /\ u \in Seq(TxRecord)
         /\ \A s : IsSent(s, t) => IsSent(s, u)
         /\ \A h : Dated(t, h) => Dated(u, h)
         /\ (\A c, d \in ins : c = d) /\ OneInput(t) => OneInput(u)
         /\ sort = "spam" => IsSent(Len(t) + 1, u)
BY DEF Submitted, IsSent, Ledger

\* A shape that the node took: its change is the tip of the branch, or out of
\* the engine's sight.
LEMMA ShapeTaken ==
  ASSUME EngineInv, doing = "send", NEW idx \in DOMAIN utxos, Amount(tx, utxos[idx]) >= 1,
         Accepts(tx, {utxos[idx]}),
         tx' = Accepted(tx, "spam", {utxos[idx]}, <<Amount(tx, utxos[idx]) - 1>>, Replaceable),
         cursor' = idx % Len(utxos), UNCHANGED <<owner, funding, fanout, inflight>>,
         \/ utxos' = [utxos EXCEPT ![idx] = <<Len(tx) + 1, 1>>] /\ lost' = lost
         \/ utxos' = utxos /\ lost' = lost \cup {<<Len(tx) + 1, 1>>}
  PROVE  /\ Books(Now)' /\ Dated(tx', height) /\ Coins(tx) \subseteq Coins(tx') /\ OneInput(tx')
         /\ InBooks(Now) => InBooks(Now)'
         /\ \A s : IsSent(s, tx) => IsSent(s, tx')
         /\ IsSent(Len(tx) + 1, tx')
<1> DEFINE u == tx'
           c == utxos[idx]
           x == Amount(tx, c) - 1
           outs == <<x>>
           change == <<Len(tx) + 1, 1>>
           n == idx % Len(utxos)
           a == utxos'
           L == lost'
<1>1. /\ Now \in EngineRec /\ Books(Now) /\ Ledger(tx) /\ tx \in Seq(TxRecord) /\ Dated(tx, height)
      /\ utxos \in Seq(Place) /\ fanout \in Nat /\ lost \in SUBSET Place
      /\ funding \in [txid : Nat, known : BOOLEAN] /\ owner # "floor" /\ OneInput(tx)
  <2>1. owner # "floor" BY DEF EngineInv, WhoDoes
  <2>2. OneInput(tx) BY <2>1 DEF EngineInv, Shapes
  <2> QED BY <2>1, <2>2, EngineParts
<1>2. c \in Range(utxos) BY DEF Range
<1>3. Replaceable \in BOOLEAN BY DEF Replaceable
<1>4. /\ Submitted(tx, u, "spam", {c}, outs) /\ Len(tx) < MaxTxs
      /\ NewCoins(Len(u), outs) = {change} /\ change \in Place
  BY <1>2, <1>3, BranchSpent
<1>5. /\ Coins(tx) \subseteq Coins(u) /\ u \in Seq(TxRecord) /\ Dated(u, height) /\ OneInput(u)
      /\ \A s : IsSent(s, tx) => IsSent(s, u)
      /\ IsSent(Len(tx) + 1, u)
  <2> DEFINE ins == {c}
             k == "spam"
  <2>1. Submitted(tx, u, k, ins, outs) /\ (\A d, g \in ins : d = g) /\ k = "spam" BY <1>4
  <2> HIDE DEF ins, k, u, outs
  <2> QED BY <1>1, <2>1, SubmittedFacts
<1>6. n \in Nat /\ n < Len(utxos) /\ Len(utxos) \in Nat
  <2>1. idx \in 1 .. Len(utxos) /\ Len(utxos) \in Nat BY <1>1
  <2> QED BY <2>1, Around
<1>7. /\ a \in Seq(Place) /\ Len(a) = Len(utxos) /\ Range(a) \subseteq Range(utxos) \cup {change}
      /\ Range(utxos) \subseteq Range(a) \cup {c} /\ L \in SUBSET Place
      /\ L \subseteq lost \cup {change} /\ lost \subseteq L /\ change \in Range(a) \cup L
  <2>1. CASE a = [utxos EXCEPT ![idx] = change] /\ L = lost
    <3> HIDE DEF a, change, L
    <3>1. /\ a \in Seq(Place) /\ Len(a) = Len(utxos) /\ Range(a) \subseteq Range(utxos) \cup {change}
          /\ change \in Range(a) /\ Range(utxos) \subseteq Range(a) \cup {utxos[idx]}
      <4>1. Exchanged(a, utxos, idx, change) BY <1>1, <1>4, <2>1, ExchangedCoin
      <4> QED BY <4>1 DEF Exchanged
    <3> QED BY <1>1, <2>1, <3>1
  <2>2. CASE a = utxos /\ L = lost \cup {change}
    <3> HIDE DEF change
    <3> QED BY <1>1, <1>4, <2>2
  <2> QED BY <2>1, <2>2
<1>8. Has(Now', u, a, n, funding, fanout, L)
  <2> HIDE DEF n, a, L, u, outs, change, c
  <2>1. tx' = u /\ utxos' = a /\ cursor' = n /\ lost' = L /\ funding' = funding /\ fanout' = fanout
    BY DEF u, a, n, L
  <2> QED BY <1>1, <1>5, <1>6, <1>7, <2>1, NowHas
<1>9. /\ Books(Now') /\ (Accounted(Now) => Accounted(Now')) /\ (Alive(Now) => Alive(Now'))
  <2> DEFINE e == Now
             f == Now'
  <2>1. /\ e.tx = tx /\ e.utxos = utxos /\ e.cursor = cursor /\ e.funding = funding
        /\ e.fanout = fanout /\ e.lost = lost
    BY NowIs
  <2> HIDE DEF u, c, outs, change, n, a, L, e, f
  <2>2. Books(e) BY <1>1 DEF e
  <2>3. Submitted(e.tx, u, "spam", {c}, outs) /\ Len(e.tx) < MaxTxs BY <1>4, <2>1
  <2>4. Has(f, u, a, n, e.funding, e.fanout, L) BY <1>8, <2>1 DEF f
  <2>5. n = 0 \/ n < Len(a) BY <1>6, <1>7
  <2>6. /\ Range(a) \subseteq Range(e.utxos) \cup {change} /\ Range(e.utxos) \subseteq Range(a) \cup {c}
        /\ L \subseteq e.lost \cup {change} /\ e.lost \subseteq L
    BY <1>7, <2>1
  <2>7. Books(f) /\ (Accounted(e) => Accounted(f)) /\ (Alive(e) => Alive(f))
    BY <1>4, <1>7, <2>2, <2>3, <2>4, <2>5, <2>6, SpamBooks
  <2> QED BY <2>7 DEF e, f
<1>10. InBooks(Now) => InBooks(Now)'
  <2>1. Accounted(Now') => Accounted(Now)' BY DEF Accounted
  <2> QED BY <1>1, <1>9, <2>1 DEF InBooks
<1> QED BY <1>5, <1>9, <1>10

\* A branch that is dropped or passed over.
LEMMA BranchPassed ==
  ASSUME EngineInv, doing = "send", NEW idx \in DOMAIN utxos,
         UNCHANGED <<owner, tx, funding, fanout, inflight, lost>>,
         \/ /\ utxos' = RemoveAt(utxos, idx) /\ RefusedAsStale(utxos[idx])
            /\ cursor' = IF Len(utxos) = 1 THEN idx % Len(utxos)
                         ELSE (idx % Len(utxos)) % (Len(utxos) - 1)
         \/ utxos' = utxos /\ cursor' = idx % Len(utxos)
  PROVE  /\ Books(Now)' /\ Dated(tx', height) /\ Coins(tx) \subseteq Coins(tx') /\ OneInput(tx')
         /\ InBooks(Now) => InBooks(Now)'
         /\ \A s : IsSent(s, tx) => IsSent(s, tx')
<1> DEFINE a == utxos'
           n == cursor'
           c == utxos[idx]
<1>1. /\ Now \in EngineRec /\ Books(Now) /\ Ledger(tx) /\ tx \in Seq(TxRecord) /\ Dated(tx, height)
      /\ utxos \in Seq(Place) /\ fanout \in Nat /\ lost \in SUBSET Place
      /\ Range(utxos) \subseteq Coins(tx) /\ lost \subseteq Coins(tx) /\ Len(tx) <= MaxTxs
      /\ funding \in [txid : Nat, known : BOOLEAN] /\ owner # "floor" /\ OneInput(tx)
  <2>1. owner # "floor" BY DEF EngineInv, WhoDoes
  <2>2. OneInput(tx) BY <2>1 DEF EngineInv, Shapes
  <2> QED BY <2>1, <2>2, EngineParts
<1>2. idx \in 1 .. Len(utxos) /\ Len(utxos) \in Nat /\ idx \in Nat BY <1>1
<1>3. /\ a \in Seq(Place) /\ Range(a) \subseteq Range(utxos) /\ n \in Nat /\ (n = 0 \/ n < Len(a))
      /\ \A d \in Range(utxos) : d \in Range(a) \/ d \notin Unspent(tx)
  <2>1. CASE /\ a = RemoveAt(utxos, idx) /\ RefusedAsStale(c)
             /\ n = IF Len(utxos) = 1 THEN idx % Len(utxos)
                         ELSE (idx % Len(utxos)) % (Len(utxos) - 1)
    <3>1. c \notin Unspent(tx)
      <4>1. ~TxOutWithMempool(tx, c) BY <2>1 DEF RefusedAsStale, TxOutWithMempool
      <4> QED BY <4>1 DEF Unspent
    <3> HIDE DEF a, n
    <3>2. /\ a \in Seq(Place) /\ Len(a) = Len(utxos) - 1
          /\ Range(a) \subseteq Range(utxos) /\ Range(utxos) \subseteq Range(a) \cup {utxos[idx]}
      BY <1>1, <2>1, RemoveAtIs
    <3>3. n \in Nat /\ (n = 0 \/ n < Len(a))
      <4> DEFINE q == Len(utxos)
                 p == idx % q
                 w == p % (q - 1)
      <4>1. p \in Nat /\ p < q /\ (q = 1 => p = 0) /\ (q # 1 => w \in Nat /\ w < q - 1)
        BY <1>2, Around
      <4>2. n = IF q = 1 THEN p ELSE w BY <2>1
      <4>3. Len(a) = q - 1 BY <3>2
      <4> HIDE DEF q, p, w
      <4> QED BY <4>1, <4>2, <4>3
    <3> QED BY <3>1, <3>2, <3>3
  <2>2. CASE a = utxos /\ n = idx % Len(utxos)
    <3>1. n \in Nat /\ n < Len(a) BY <1>2, <2>2, Around
    <3> QED BY <1>1, <2>2, <3>1
  <2> QED BY <2>1, <2>2
<1>4. Has(Now', tx, a, n, funding, fanout, lost)
  <2> HIDE DEF n, a
  <2>1. tx' = tx /\ utxos' = a /\ cursor' = n /\ lost' = lost /\ funding' = funding /\ fanout' = fanout
    BY DEF a, n
  <2> QED BY <1>1, <1>3, <2>1, NowHas
<1>5. /\ Books(Now') /\ (Accounted(Now) => Accounted(Now)') /\ (Alive(Now) => Alive(Now'))
  <2> DEFINE f == Now'
  <2>1. /\ f \in EngineRec /\ f.tx = tx /\ f.utxos = a /\ f.cursor = n /\ f.funding = funding
        /\ f.fanout = fanout /\ f.lost = lost
    BY <1>4 DEF Has
  <2> HIDE DEF f, a, n
  <2>2. Known(f) BY <1>1, <1>3, <2>1 DEF Known
  <2>3. Pending(f) BY <1>1, <2>1, NowIs DEF Books, Pending
  <2>4. Books(f) BY <1>1, <2>1, <2>2, <2>3 DEF Books
  <2>5. Alive(Now) => Alive(f) BY <2>1, NowIs DEF Alive
  <2>6. Accounted(Now) => Accounted(f)
    <3>1. SUFFICES ASSUME Accounted(Now), NEW d \in Unspent(tx)
                   PROVE  d \in Range(a) \cup Range(inflight) \cup lost
                                 \cup {g \in Coins(tx) : g[1] \in {funding.txid, fanout}}
      BY <2>1 DEF Accounted
    <3> QED BY <1>3, <3>1, NowIs DEF Accounted
  <2>7. Accounted(f) => Accounted(Now)' BY DEF Accounted, f
  <2> QED BY <2>4, <2>5, <2>6, <2>7 DEF f
<1>6. InBooks(Now) => InBooks(Now)' BY <1>1, <1>5 DEF InBooks
<1> QED BY <1>1, <1>5, <1>6

\* SendShape keeps the invariant.
LEMMA SendShapeInv ==
  ASSUME EngineInv, NEW mode, SendShape(mode)
  PROVE  EngineInv'
<1>1. /\ doing = "send" /\ round.left > 0 /\ Spend(mode, TRUE)
      /\ UNCHANGED <<owner, height, funding, fanout, inflight, seen_height, doing, stale>>
  BY DEF SendShape
<1>2. mishaps' \in 0 .. MaxMishaps BY <1>1, SpendIs DEF EngineInv, EngineTypes
<1>3. round \in RoundRec /\ round.sent \in Seq(Nat) BY DEF EngineInv, EngineTypes, RoundRec
<1>4. /\ tx \in Seq(TxRecord) /\ Len(tx) \in Nat /\ Books(Now) /\ fanout \in Nat /\ funding.txid \in Nat
      /\ Dated(tx, height) /\ DOMAIN tx = 1 .. Len(tx)
  BY EngineParts
<1>5. OneInput(tx)
  <2>1. owner # "floor" BY <1>1 DEF EngineInv, WhoDoes
  <2> QED BY <2>1 DEF EngineInv, Shapes
<1> DEFINE failed == [round EXCEPT !.fails = @ + 1]
           sent == [round EXCEPT !.left = @ - 1, !.fails = 0, !.sent = Append(@, Len(tx) + 1)]
<1>6. failed \in RoundRec /\ failed.sent = round.sent BY <1>3, RoundEdits
<1>7. sent \in RoundRec /\ sent.sent = Append(round.sent, Len(tx) + 1)
  <2>1. Len(tx) + 1 \in Nat BY <1>4
  <2> QED BY <1>1, <1>3, <2>1, RoundEdits
<1>8. CASE NextBranch = {}
  <2>1. round' = failed /\ UNCHANGED <<tx, utxos, cursor, lost>> BY <1>8 DEF SendShape
  <2> HIDE DEF failed, sent
  <2>2. round' \in RoundRec /\ (round.sent)' = round.sent BY <1>6, <2>1
  <2>3. /\ Books(Now)' /\ (InBooks(Now) => InBooks(Now)') BY <1>1, <2>1, SameBooks
  <2>4. Dated(tx', height) /\ Coins(tx) \subseteq Coins(tx') /\ OneInput(tx')
        /\ \A s : IsSent(s, tx) => IsSent(s, tx')
    BY <1>4, <1>5, <2>1
  <2>5. SentLater' BY <1>1, <2>2, <2>4, SentKept
  <2> QED BY <1>1, <1>2, <2>2, <2>3, <2>4, <2>5, SendingStep
<1>9. CASE NextBranch # {}
  <2>1. PICK idx \in NextBranch :
          LET coin == utxos[idx]
              change == <<Len(tx) + 1, 1>>
              next == idx % Len(utxos)
              spent == Accepted(tx, "spam", {coin}, <<Amount(tx, coin) - 1>>, Replaceable)
          IN  \/ /\ Accepts(tx, {coin}) /\ tx' = spent /\ cursor' = next /\ round' = sent
                 /\ utxos' = [utxos EXCEPT ![idx] = change] /\ lost' = lost
              \/ /\ Accepts(tx, {coin}) /\ tx' = spent /\ cursor' = next /\ round' = failed
                 /\ utxos' = utxos /\ lost' = lost \cup {change}
              \/ /\ utxos' = RemoveAt(utxos, idx) /\ RefusedAsStale(coin)
                 /\ cursor' = IF Len(utxos) = 1 THEN next ELSE next % (Len(utxos) - 1)
                 /\ round' = failed /\ UNCHANGED <<tx, lost>>
              \/ /\ cursor' = next /\ round' = failed /\ UNCHANGED <<tx, utxos, lost>>
    BY <1>9 DEF SendShape
  <2>2. idx \in DOMAIN utxos /\ Amount(tx, utxos[idx]) >= 1 BY NextBranchIs
  <2> DEFINE coin == utxos[idx]
             change == <<Len(tx) + 1, 1>>
             spent == Accepted(tx, "spam", {coin}, <<Amount(tx, coin) - 1>>, Replaceable)
             taken == /\ Accepts(tx, {coin}) /\ tx' = spent /\ cursor' = idx % Len(utxos)
                      /\ \/ utxos' = [utxos EXCEPT ![idx] = change] /\ lost' = lost
                         \/ utxos' = utxos /\ lost' = lost \cup {change}
             passed == /\ UNCHANGED <<tx, lost>> /\ round' = failed
                       /\ \/ /\ utxos' = RemoveAt(utxos, idx) /\ RefusedAsStale(coin)
                             /\ cursor' = IF Len(utxos) = 1 THEN idx % Len(utxos)
                                          ELSE (idx % Len(utxos)) % (Len(utxos) - 1)
                          \/ utxos' = utxos /\ cursor' = idx % Len(utxos)
  <2>3. (taken /\ round' \in {sent, failed}) \/ passed BY <2>1
  <2>4. CASE taken /\ round' \in {sent, failed}
    <3>1. /\ Books(Now)' /\ Dated(tx', height) /\ Coins(tx) \subseteq Coins(tx') /\ OneInput(tx')
          /\ InBooks(Now) => InBooks(Now)'
          /\ \A s : IsSent(s, tx) => IsSent(s, tx')
          /\ IsSent(Len(tx) + 1, tx')
      BY <1>1, <2>2, <2>4, ShapeTaken
    <3>2. round' \in {sent, failed} BY <2>4
    <3> HIDE DEF sent, failed, taken, passed
    <3>3. round' \in RoundRec BY <1>6, <1>7, <3>2
    <3>4. SentLater'
      <4>1. CASE round' = failed
        <5>1. (round.sent)' = round.sent BY <1>6, <4>1
        <5> QED BY <1>1, <3>1, <5>1, SentKept
      <4>2. CASE round' = sent
        <5> DEFINE w == round'.sent
                   m == Len(tx) + 1
        <5>1. w = Append(round.sent, m) BY <1>7, <4>2
        <5>2. /\ DOMAIN w = 1 .. Len(round.sent) + 1 /\ w[Len(round.sent) + 1] = m
              /\ Len(round.sent) \in Nat /\ DOMAIN round.sent = 1 .. Len(round.sent)
              /\ \A k \in 1 .. Len(round.sent) : w[k] = round.sent[k]
          <6> HIDE DEF w, m
          <6> QED BY <1>3, <5>1
        <5>3. m > fanout /\ m > funding.txid
          <6>1. fanout = 0 \/ fanout \in DOMAIN tx BY <1>4, PendingIs, NowIs
          <6>2. funding.txid = 0 \/ funding.txid \in DOMAIN tx BY <1>4, PendingIs, NowIs
          <6> QED BY <1>4, <6>1, <6>2
        <5> HIDE DEF w
        <5>4. ASSUME NEW k \in DOMAIN w
              PROVE  IsSent(w[k], tx') /\ w[k] > fanout /\ w[k] > funding.txid
          <6>1. CASE k = Len(round.sent) + 1 BY <3>1, <5>2, <5>3, <6>1
          <6>2. CASE k # Len(round.sent) + 1
            <7>1. k \in 1 .. Len(round.sent) BY <5>2, <6>2
            <7> QED BY <3>1, <5>2, <7>1 DEF EngineInv, SentLater
          <6> QED BY <6>1, <6>2
        <5> QED BY <1>1, <5>4 DEF SentLater, w
      <4> QED BY <3>2, <4>1, <4>2
    <3> QED BY <1>1, <1>2, <3>1, <3>3, <3>4, SendingStep
  <2>5. CASE passed
    <3>1. /\ Books(Now)' /\ Dated(tx', height) /\ Coins(tx) \subseteq Coins(tx') /\ OneInput(tx')
          /\ InBooks(Now) => InBooks(Now)'
          /\ \A s : IsSent(s, tx) => IsSent(s, tx')
      BY <1>1, <2>2, <2>5, BranchPassed
    <3>2. round' = failed BY <2>5
    <3> HIDE DEF sent, failed, taken, passed
    <3>3. round' \in RoundRec /\ (round.sent)' = round.sent BY <1>6, <3>2
    <3>4. SentLater' BY <1>1, <3>1, <3>3, SentKept
    <3> QED BY <1>1, <1>2, <3>1, <3>3, <3>4, SendingStep
  <2> QED BY <2>3, <2>4, <2>5
<1> QED BY <1>8, <1>9

(***************************************************************************)
(* Fee bumps.                                                              *)
(***************************************************************************)
\* A family has nothing that is older than its root.
LEMMA FamilyAbove ==
  ASSUME NEW t, Ledger(t), NEW r \in Nat, NEW F, IsFamily(F, t, {r})
  PROVE  \A i \in F : i \in Nat /\ i >= r
<1> DEFINE M == {i \in F : i < r}
<1>0. t \in Seq(TxRecord) BY DEF Ledger
<1>1. F \subseteq DOMAIN t /\ F \subseteq Nat BY <1>0 DEF IsFamily
<1>2. M \in SUBSET Nat BY <1>1
<1>3. SUFFICES ASSUME M # {} PROVE FALSE BY <1>1
<1>4. PICK x \in M : \A y \in M : x <= y BY <1>2, <1>3, Smallest
<1>5. x \in F /\ x < r /\ x \in DOMAIN t /\ x \in Nat BY <1>1
<1>6. x \notin {r} BY <1>5
<1>7. PICK c \in t[x].ins : c[1] \in F BY <1>5, <1>6 DEF IsFamily
<1>8. c[1] < x BY <1>5, <1>7 DEF Ledger, Spends
<1>9. c[1] \in Nat BY <1>1, <1>7
<1>10. c[1] \in M BY <1>5, <1>7, <1>8, <1>9
<1> QED BY <1>4, <1>5, <1>8, <1>9, <1>10

\* The last of what a round has sent.
LEMMA LastSent ==
  ASSUME EngineInv, round.sent # <<>>
  PROVE  /\ IsSent(Last(round.sent), tx) /\ Last(round.sent) \in Nat
         /\ Last(round.sent) > fanout /\ Last(round.sent) > funding.txid
         /\ \A k \in DOMAIN Front(round.sent) : \E j \in DOMAIN round.sent :
               Front(round.sent)[k] = round.sent[j]
<1> DEFINE s == round.sent
<1>1. s \in Seq(Nat) /\ s # <<>> BY DEF EngineInv, EngineTypes, RoundRec
<1>2. \A a \in DOMAIN s : IsSent(s[a], tx) /\ s[a] > fanout /\ s[a] > funding.txid
  BY DEF EngineInv, SentLater
<1> HIDE DEF s
<1>3. Len(s) \in DOMAIN s /\ Last(s) = s[Len(s)] /\ Last(s) \in Nat BY <1>1 DEF Last
<1>4. \A k \in DOMAIN Front(s) : k \in DOMAIN s /\ Front(s)[k] = s[k] BY <1>1 DEF Front
<1>5. IsSent(Last(s), tx) /\ Last(s) > fanout /\ Last(s) > funding.txid BY <1>2, <1>3
<1> QED BY <1>3, <1>4, <1>5 DEF s

\* What is left of it stays sent.
LEMMA FrontSent ==
  ASSUME EngineInv, round.sent # <<>>, UNCHANGED <<funding, fanout, doing>>, doing = "bump",
         (round.sent)' = Front(round.sent), \A s : IsSent(s, tx) => IsSent(s, tx')
  PROVE  SentLater'
<1>1. \A k \in DOMAIN Front(round.sent) : \E j \in DOMAIN round.sent :
        Front(round.sent)[k] = round.sent[j]
  BY LastSent
<1>2. ASSUME NEW k \in DOMAIN Front(round.sent)
      PROVE  /\ IsSent(Front(round.sent)[k], tx') /\ Front(round.sent)[k] > fanout
             /\ Front(round.sent)[k] > funding.txid
  <2>1. PICK j \in DOMAIN round.sent : Front(round.sent)[k] = round.sent[j] BY <1>1
  <2>2. IsSent(round.sent[j], tx) /\ round.sent[j] > fanout /\ round.sent[j] > funding.txid
    BY DEF EngineInv, SentLater
  <2> QED BY <2>1, <2>2
<1> QED BY <1>2 DEF SentLater

\* The latest transaction is replaced.  Its change was the tip of a branch.
Supersedes(t, u, old, F) ==
  /\ \E g, amount : /\ g = Gone(t, F) /\ amount \in Nat
                    /\ u = Accepted(g, "spam", t[old].ins, <<amount>>, TRUE)
  /\ IsFamily(F, t, {old}) /\ \A c \in t[old].ins : Live(t, c[1])

\* What a replacement does to the transactions.
LEMMA ReplacedTx ==
  ASSUME NEW t, Ledger(t), OneInput(t), NEW old, IsSent(old, t), NEW F, NEW u,
         Supersedes(t, u, old, F)
  PROVE  /\ Ledger(u) /\ OneInput(u) /\ Len(u) = Len(t) + 1 /\ Len(t) \in Nat
         /\ Coins(u) = Coins(t) \cup {<<Len(t) + 1, 1>>}
         /\ \A h : Dated(t, h) => Dated(u, h)
         /\ \A s : IsSent(s, t) => IsSent(s, u)
         /\ \A i \in DOMAIN t : i \in DOMAIN u /\ u[i].kind = t[i].kind
                                /\ (Live(u, i) <=> Live(t, i) /\ i \notin F)
         /\ \A i \in F : i \in Nat /\ i >= old
         /\ \A c \in Unspent(u) : c = <<Len(t) + 1, 1>> \/ (c \in Unspent(t) /\ c # <<old, 1>>)
<1>0. t \in Seq(TxRecord) /\ Len(t) \in Nat /\ DOMAIN t = 1 .. Len(t) BY DEF Ledger
<1>1. PICK g, amount : /\ g = Gone(t, F) /\ amount \in Nat
                       /\ u = Accepted(g, "spam", t[old].ins, <<amount>>, TRUE)
  BY DEF Supersedes
<1>2. IsFamily(F, t, {old}) /\ \A c \in t[old].ins : Live(t, c[1]) BY DEF Supersedes
<1>3. old \in DOMAIN t /\ t[old].kind = "spam" /\ old \in Nat BY <1>0 DEF IsSent
<1>4. Forgets(t, g, F) BY <1>1, <1>2, GoneKeeps
<1>5. /\ Ledger(g) /\ Changed(t, g) /\ Coins(g) = Coins(t)
      /\ \A i \in DOMAIN t : Live(g, i) <=> Live(t, i) /\ i \notin F
      /\ Unspent(g) \subseteq Unspent(t) \cup UNION {t[j].ins : j \in F}
      /\ \A c \in Unspent(g) : c[1] \notin F
      /\ \A h : Dated(t, h) => Dated(g, h)
      /\ OneInput(g)
  BY <1>4 DEF Forgets
<1>6. Len(g) = Len(t) /\ DOMAIN g = DOMAIN t /\ \A i \in DOMAIN t : g[i].kind = t[i].kind
  BY <1>5 DEF Changed
<1>7. \A i \in F : i \in Nat /\ i >= old BY <1>2, <1>3, FamilyAbove
<1> DEFINE ins == t[old].ins
           outs == <<amount>>
           change == <<Len(t) + 1, 1>>
<1>8. \A c \in ins : c \in Coins(t) /\ c[1] < old /\ c[1] \in DOMAIN t
  <2>1. \A c \in ins : c \in Coins(t) /\ c[1] < old BY <1>3 DEF Ledger, Spends
  <2> QED BY <1>0, <2>1, CoinIs
<1>9. \A c \in ins : Live(g, c[1])
  <2>1. SUFFICES ASSUME NEW c \in ins PROVE c[1] \in DOMAIN t /\ Live(t, c[1]) /\ c[1] \notin F
    BY <1>5
  <2>2. c[1] \in Nat /\ c[1] < old BY <1>0, <1>8
  <2>3. c[1] \notin F BY <1>3, <1>7, <2>2
  <2> QED BY <1>2, <1>8, <2>3
<1>10. outs \in Seq(Nat) /\ Len(outs) = 1 /\ Len(outs) \in 1 .. MaxOuts BY <1>1, OneOutput
<1>11. Submitted(g, u, "spam", ins, outs)
  <2>1. u = Accepted(g, "spam", ins, outs, TRUE) /\ "spam" \in Kinds /\ "spam" # "fund"
    BY <1>1 DEF Kinds
  <2>2. ins \in SUBSET Coins(g) BY <1>5, <1>8
  <2> HIDE DEF ins, outs
  <2> QED BY <1>5, <1>9, <1>10, <2>1, <2>2, AcceptedIs
<1>12. NewCoins(Len(t) + 1, outs) = {change} BY <1>1, OneOutput
<1> HIDE DEF outs
<1>13. /\ Ledger(u) /\ Len(u) = Len(t) + 1
       /\ \A i \in DOMAIN t : i \in DOMAIN u /\ u[i] = g[i] /\ (Live(u, i) <=> Live(g, i))
       /\ Coins(u) = Coins(t) \cup {change}
       /\ Unspent(u) = (Unspent(g) \ ins) \cup {change}
       /\ \A h : Dated(g, h) => Dated(u, h)
       /\ (\A c, d \in ins : c = d) /\ OneInput(g) => OneInput(u)
  <2> HIDE DEF ins, change
  <2>1. Len(u) = Len(t) + 1 BY <1>6, <1>11 DEF Submitted
  <2> QED BY <1>5, <1>6, <1>11, <1>12, <2>1 DEF Submitted
<1>14. OneInput(u)
  <2>1. \A c, d \in ins : c = d BY <1>3 DEF OneInput
  <2> QED BY <1>5, <1>13, <2>1
<1>15. \A s : IsSent(s, t) => IsSent(s, u) BY <1>6, <1>13 DEF IsSent
<1>16. ASSUME NEW c \in Unspent(u), c # change
       PROVE  c \in Unspent(t) /\ c # <<old, 1>>
  <2>1. c \in Unspent(g) /\ c \notin ins /\ c[1] \notin F BY <1>5, <1>13, <1>16
  <2>2. c \in Unspent(t)
    <3>1. SUFFICES ASSUME NEW j \in F, c \in t[j].ins PROVE FALSE BY <1>5, <2>1
    <3>2. j # old BY <2>1, <3>1
    <3>3. PICK d \in t[j].ins : d[1] \in F BY <1>2, <3>2 DEF IsFamily
    <3>4. j \in DOMAIN t BY <1>2 DEF IsFamily
    <3>5. c = d BY <3>1, <3>3, <3>4 DEF OneInput
    <3> QED BY <2>1, <3>3, <3>5
  <2>3. ASSUME c = <<old, 1>> PROVE FALSE
    <3>1. c[1] = old BY <2>3
    <3>2. Live(t, old) BY <2>2, <3>1 DEF Unspent, TxOutWithMempool
    <3>3. old \in F BY <1>2, <1>3, <3>2 DEF IsFamily
    <3> QED BY <2>1, <3>1, <3>3
  <2> QED BY <2>2, <2>3
<1>17. \A h : Dated(t, h) => Dated(u, h) BY <1>5, <1>13
<1>18. \A i \in DOMAIN t : i \in DOMAIN u /\ u[i].kind = t[i].kind
                           /\ (Live(u, i) <=> Live(t, i) /\ i \notin F)
  BY <1>5, <1>6, <1>13
<1> QED BY <1>0, <1>7, <1>13, <1>14, <1>15, <1>16, <1>17, <1>18

\* The fee bump of the latest transaction of a round.
LEMMA BumpInv ==
  ASSUME EngineInv, NEW mode, Bump(mode)
  PROVE  EngineInv'
<1> DEFINE old == Last(round.sent)
           slot == TipOf(old)
           F == FamilyOf(tx, {old})
           x == tx[old].outs[1] - 1
           change == <<Len(tx) + 1, 1>>
<1>1. /\ doing = "bump" /\ round.sent # <<>> /\ round.left > 0 /\ Spend(mode, TRUE)
      /\ UNCHANGED <<owner, height, cursor, funding, fanout, inflight, seen_height, doing, stale, lost>>
  BY DEF Bump
<1>2. \/ /\ slot # {} /\ tx[old].outs[1] >= 1 /\ Len(tx) < MaxTxs
         /\ \A c \in tx[old].ins : Live(tx, c[1])
         /\ tx' = Accepted(Gone(tx, F), "spam", tx[old].ins, <<x>>, TRUE)
         /\ utxos' = [utxos EXCEPT ![Min(slot)] = change]
         /\ round' = [round EXCEPT !.sent = Front(@), !.left = @ - 1]
      \/ /\ round' = [round EXCEPT !.sent = Front(@)]
         /\ UNCHANGED <<tx, utxos>>
  BY DEF Bump
<1>3. mishaps' \in 0 .. MaxMishaps BY <1>1, SpendIs DEF EngineInv, EngineTypes
<1>4. round \in RoundRec BY DEF EngineInv, EngineTypes
<1>5. round' \in RoundRec /\ (round.sent)' = Front(round.sent)
  BY <1>1, <1>2, <1>4, RoundEdits
<1>6. owner # "floor" /\ OneInput(tx)
  <2>1. owner # "floor" BY <1>1 DEF EngineInv, WhoDoes
  <2> QED BY <2>1 DEF EngineInv, Shapes
<1>7. /\ Now \in EngineRec /\ Books(Now) /\ Ledger(tx) /\ tx \in Seq(TxRecord) /\ Dated(tx, height)
      /\ utxos \in Seq(Place) /\ fanout \in Nat /\ lost \in SUBSET Place /\ cursor \in Nat
      /\ Range(utxos) \subseteq Coins(tx) /\ lost \subseteq Coins(tx) /\ Len(tx) <= MaxTxs
      /\ funding \in [txid : Nat, known : BOOLEAN] /\ funding.txid \in Nat /\ Len(tx) \in Nat
      /\ cursor = 0 \/ cursor < Len(utxos)
  BY EngineParts
<1>8. IsSent(old, tx) /\ old \in Nat /\ old > fanout /\ old > funding.txid BY <1>1, LastSent
<1> HIDE DEF old
<1>9. CASE /\ round' = [round EXCEPT !.sent = Front(@)]
           /\ UNCHANGED <<tx, utxos>>
  <2>1. /\ Books(Now)' /\ (InBooks(Now) => InBooks(Now)') BY <1>1, <1>9, SameBooks
  <2>2. Dated(tx', height) /\ Coins(tx) \subseteq Coins(tx') /\ OneInput(tx')
        /\ \A s : IsSent(s, tx) => IsSent(s, tx')
    BY <1>6, <1>7, <1>9
  <2>3. SentLater' BY <1>1, <1>5, <2>2, FrontSent
  <2> QED BY <1>1, <1>3, <1>5, <2>1, <2>2, <2>3, SendingStep
<1>10. CASE /\ slot # {} /\ tx[old].outs[1] >= 1 /\ Len(tx) < MaxTxs
            /\ \A c \in tx[old].ins : Live(tx, c[1])
            /\ tx' = Accepted(Gone(tx, F), "spam", tx[old].ins, <<x>>, TRUE)
            /\ utxos' = [utxos EXCEPT ![Min(slot)] = change]
  <2> DEFINE u == tx'
             a == utxos'
             i == Min(slot)
  <2>1. i \in DOMAIN utxos /\ utxos[i] = <<old, 1>>
    <3>1. slot \in SUBSET Nat BY <1>7 DEF TipOf
    <3>2. i \in slot BY <1>10, <3>1, LeastOf
    <3> QED BY <3>2 DEF TipOf
  <2>2. x \in Nat
    <3>1. old \in DOMAIN tx BY <1>8 DEF IsSent
    <3>2. tx[old] \in TxRecord /\ Len(tx[old].outs) \in 1 .. MaxOuts BY <1>7, <3>1 DEF Ledger, Outs
    <3>3. tx[old].outs \in Seq(Nat) BY <3>2 DEF TxRecord
    <3>4. tx[old].outs[1] \in Nat BY <3>2, <3>3
    <3> QED BY <1>10, <3>4
  <2>3. Supersedes(tx, u, old, F)
    <3>1. IsFamily(F, tx, {old}) BY <1>7, FamilyFacts
    <3>2. u = Accepted(Gone(tx, F), "spam", tx[old].ins, <<x>>, TRUE) BY <1>10
    <3> HIDE DEF u, F, x
    <3> QED BY <1>10, <2>2, <3>1, <3>2 DEF Supersedes
  <2>4. a = [utxos EXCEPT ![i] = change] BY <1>10
  <2> HIDE DEF u, a, i, F, x, slot
  <2>5. /\ Ledger(u) /\ OneInput(u) /\ Len(u) = Len(tx) + 1
        /\ Coins(u) = Coins(tx) \cup {change}
        /\ \A h : Dated(tx, h) => Dated(u, h)
        /\ \A s : IsSent(s, tx) => IsSent(s, u)
        /\ \A k \in DOMAIN tx : k \in DOMAIN u /\ u[k].kind = tx[k].kind
                                /\ (Live(u, k) <=> Live(tx, k) /\ k \notin F)
        /\ \A k \in F : k \in Nat /\ k >= old
        /\ \A c \in Unspent(u) : c = change \/ (c \in Unspent(tx) /\ c # <<old, 1>>)
    BY <1>6, <1>7, <1>8, <2>3, ReplacedTx
  <2>6. change \in Place BY <1>7 DEF Place
  <2> HIDE DEF change
  <2>7. /\ a \in Seq(Place) /\ Len(a) = Len(utxos) /\ Range(a) \subseteq Range(utxos) \cup {change}
        /\ change \in Range(a) /\ Range(utxos) \subseteq Range(a) \cup {<<old, 1>>}
    <3>1. Exchanged(a, utxos, i, change) BY <1>7, <2>1, <2>4, <2>6, ExchangedCoin
    <3> QED BY <2>1, <3>1 DEF Exchanged
  <2>8. u \in Seq(TxRecord) BY <2>5 DEF Ledger
  <2>9. Has(Now', u, a, cursor, funding, fanout, lost)
    <3>1. tx' = u /\ utxos' = a BY DEF u, a
    <3> QED BY <1>1, <1>7, <2>7, <2>8, <3>1, NowHas
  <2>10. /\ Books(Now') /\ (Accounted(Now) => Accounted(Now)') /\ (Alive(Now) => Alive(Now'))
    <3> DEFINE f == Now'
    <3>1. /\ f \in EngineRec /\ f.tx = u /\ f.utxos = a /\ f.cursor = cursor /\ f.funding = funding
          /\ f.fanout = fanout /\ f.lost = lost
      BY <2>9 DEF Has
    <3> HIDE DEF f
    <3>2. Known(f) BY <1>7, <2>5, <2>7, <3>1 DEF Known
    <3>3. Pending(f) BY <1>7, <2>5, <3>1, NowIs DEF Books, Pending
    <3>4. Len(u) <= MaxTxs BY <1>7, <1>10, <2>5, EngineConstants
    <3>5. Books(f) BY <2>5, <3>1, <3>2, <3>3, <3>4 DEF Books
    <3>6. fanout \notin F /\ funding.txid \notin F BY <1>7, <1>8, <2>5
    <3>7. Alive(Now) => Alive(f)
      <4>1. /\ funding # NoFunding => funding.txid \in DOMAIN tx
            /\ fanout # 0 => fanout \in DOMAIN tx
        BY <1>7, PendingIs, NowIs
      <4> QED BY <2>5, <3>1, <3>6, <4>1, NowIs DEF Alive
    <3>8. Accounted(Now) => Accounted(f)
      <4>1. SUFFICES ASSUME Accounted(Now), NEW d \in Unspent(u)
                     PROVE  d \in Range(a) \cup Range(inflight) \cup lost
                                   \cup {g \in Coins(u) : g[1] \in {funding.txid, fanout}}
        BY <3>1 DEF Accounted
      <4>2. CASE d = change BY <2>7, <4>2
      <4>3. CASE d \in Unspent(tx) /\ d # <<old, 1>>
        <5>1. d \in Range(utxos) \cup Range(inflight) \cup lost
                                   \cup {g \in Coins(tx) : g[1] \in {funding.txid, fanout}}
          BY <4>1, <4>3, NowIs DEF Accounted
        <5> QED BY <2>5, <2>7, <4>3, <5>1
      <4> QED BY <2>5, <4>2, <4>3
    <3>9. Accounted(f) => Accounted(Now)' BY <1>1 DEF Accounted, f
    <3> QED BY <3>5, <3>7, <3>8, <3>9 DEF f
  <2>11. InBooks(Now) => InBooks(Now)' BY <1>1, <1>6, <2>10 DEF InBooks
  <2>12. /\ Dated(tx', height) /\ Coins(tx) \subseteq Coins(tx') /\ OneInput(tx')
         /\ \A s : IsSent(s, tx) => IsSent(s, tx')
    BY <1>7, <2>5 DEF u
  <2>13. SentLater' BY <1>1, <1>5, <2>12, FrontSent
  <2> QED BY <1>1, <1>3, <1>5, <2>10, <2>11, <2>12, <2>13, SendingStep
<1> QED BY <1>2, <1>9, <1>10

(***************************************************************************)
(* A batch of fills.                                                       *)
(***************************************************************************)
BatchRec == [tx : Seq(TxRecord), inflight : Seq(Place), lost : SUBSET Place]

\* One fill of a batch, as in SendBatch.
Submitting(mode, acc, c) ==
  IF mode = "refused" \/ ~Accepts(acc.tx, {c})
  THEN [acc EXCEPT !.lost = @ \cup {c}]
  ELSE LET t == Accepted(acc.tx, "fill", {c}, <<Amount(acc.tx, c) - 1>>, FALSE)
           out == <<Len(t), 1>>
       IN  IF mode = "hidden"
           THEN [acc EXCEPT !.tx = t, !.lost = @ \cup {out}]
           ELSE [acc EXCEPT !.tx = t, !.inflight = Append(@, out)]

\* What holds of a batch under way.
Batching(acc) ==
  /\ acc \in BatchRec /\ Ledger(acc.tx) /\ Len(acc.tx) <= MaxTxs
  /\ \A i \in DOMAIN tx : i \in DOMAIN acc.tx /\ acc.tx[i] = tx[i]
  /\ \A i \in DOMAIN acc.tx : i \notin DOMAIN tx =>
       acc.tx[i].kind = "fill" /\ acc.tx[i].state = "mempool" /\ acc.tx[i].ins \subseteq Range(utxos)
  /\ Range(inflight) \subseteq Range(acc.inflight) /\ Range(acc.inflight) \subseteq Coins(acc.tx)
  /\ lost \subseteq acc.lost /\ acc.lost \subseteq Coins(acc.tx)

\* The coin of a fill: it comes from the pool, and can pay.
Pays(c) == c \in Range(utxos) /\ Amount(tx, c) >= 1

\* What a fill makes of a batch.
Fills(a, b, c) ==
  /\ Batching(b) /\ Len(b.inflight) <= Len(a.inflight) + 1
  /\ \A d \in Unspent(b.tx) : d \in Range(b.inflight) \cup b.lost \/ (d \in Unspent(a.tx) /\ d # c)
  /\ Range(a.inflight) \subseteq Range(b.inflight) /\ a.lost \subseteq b.lost

\* b is a batch with these fields.
BatchHas(b, t, q, L) == b \in BatchRec /\ b.tx = t /\ b.inflight = q /\ b.lost = L

\* The fields of a batch under way.
LEMMA BatchFields ==
  ASSUME NEW a \in BatchRec
  PROVE  a.tx \in Seq(TxRecord) /\ a.inflight \in Seq(Place) /\ a.lost \in SUBSET Place
BY DEF BatchRec

\* A batch with other hidden coins.
LEMMA BatchLost ==
  ASSUME NEW a \in BatchRec, NEW L \in SUBSET Place, NEW b, b = [a EXCEPT !.lost = L]
  PROVE  BatchHas(b, a.tx, a.inflight, L)
BY DEF BatchRec, BatchHas

\* A batch with other transactions and hidden coins.
LEMMA BatchTxLost ==
  ASSUME NEW a \in BatchRec, NEW t \in Seq(TxRecord), NEW L \in SUBSET Place,
         NEW b, b = [a EXCEPT !.tx = t, !.lost = L]
  PROVE  BatchHas(b, t, a.inflight, L)
BY DEF BatchRec, BatchHas

\* A batch with other transactions and fills.
LEMMA BatchTxInflight ==
  ASSUME NEW a \in BatchRec, NEW t \in Seq(TxRecord), NEW q \in Seq(Place),
         NEW b, b = [a EXCEPT !.tx = t, !.inflight = q]
  PROVE  BatchHas(b, t, q, a.lost)
BY DEF BatchRec, BatchHas

\* One submission of a batch adds a fill, hides its change, or drops the coin.
LEMMA SubmittingFills ==
  ASSUME EngineInv, NEW mode, NEW a, Batching(a), NEW c, Pays(c),
         NEW b, b = Submitting(mode, a, c)
  PROVE  Fills(a, b, c)
<1>1. /\ a \in BatchRec /\ Ledger(a.tx) /\ Len(a.tx) <= MaxTxs
      /\ \A i \in DOMAIN tx : i \in DOMAIN a.tx /\ a.tx[i] = tx[i]
      /\ \A i \in DOMAIN a.tx : i \notin DOMAIN tx =>
           a.tx[i].kind = "fill" /\ a.tx[i].state = "mempool" /\ a.tx[i].ins \subseteq Range(utxos)
      /\ Range(inflight) \subseteq Range(a.inflight) /\ Range(a.inflight) \subseteq Coins(a.tx)
      /\ lost \subseteq a.lost /\ a.lost \subseteq Coins(a.tx)
  BY DEF Batching
<1>2. a.tx \in Seq(TxRecord) /\ a.inflight \in Seq(Place) /\ a.lost \in SUBSET Place
  BY <1>1, BatchFields
<1>3. tx \in Seq(TxRecord) /\ Range(utxos) \subseteq Coins(tx) BY EngineParts
<1>4. c \in Coins(tx) /\ c[1] \in DOMAIN tx /\ c[2] \in 1 .. Len(tx[c[1]].outs) /\ c = <<c[1], c[2]>>
      /\ c \in Place
  BY <1>3, CoinIs DEF Pays
<1>5. c \in Coins(a.tx) /\ Amount(a.tx, c) = Amount(tx, c)
  <2>1. c[1] \in DOMAIN a.tx /\ a.tx[c[1]] = tx[c[1]] BY <1>1, <1>4
  <2>2. <<c[1], c[2]>> \in Coins(a.tx) BY <1>2, <1>4, <2>1, CoinIs
  <2> QED BY <1>4, <2>1, <2>2 DEF Amount
<1> DEFINE x == Amount(a.tx, c) - 1
           outs == <<x>>
           t == Accepted(a.tx, "fill", {c}, outs, FALSE)
           out == <<Len(t), 1>>
<1>6. x \in Nat
  <2>1. Amount(tx, c) \in Nat BY <1>3, <1>4, AmountIs
  <2> QED BY <1>5, <2>1 DEF Pays
<1>7. CASE mode = "refused" \/ ~Accepts(a.tx, {c})
  <2> DEFINE L == a.lost \cup {c}
  <2>1. b = [a EXCEPT !.lost = L] BY <1>7 DEF Submitting
  <2>2. L \in SUBSET Place /\ L \subseteq Coins(a.tx) /\ a.lost \subseteq L /\ c \in L
    BY <1>1, <1>2, <1>4, <1>5
  <2> HIDE DEF L
  <2>3. b \in BatchRec /\ b.tx = a.tx /\ b.inflight = a.inflight /\ b.lost = L
    <3>1. BatchHas(b, a.tx, a.inflight, L) BY <1>1, <2>1, <2>2, BatchLost
    <3> QED BY <3>1 DEF BatchHas
  <2>4. Batching(b) BY <1>1, <2>2, <2>3 DEF Batching
  <2>5. Len(a.inflight) \in Nat BY <1>2
  <2> QED BY <2>2, <2>3, <2>4, <2>5 DEF Fills
<1>8. CASE ~(mode = "refused" \/ ~Accepts(a.tx, {c}))
  <2>1. TxOutWithMempool(a.tx, c) /\ Len(a.tx) < MaxTxs BY <1>8 DEF Accepts
  <2>2. Live(a.tx, c[1]) BY <2>1 DEF TxOutWithMempool
  <2>3. outs \in Seq(Nat) /\ Len(outs) = 1 /\ Len(outs) \in 1 .. MaxOuts BY <1>6, OneOutput
  <2>4. Submitted(a.tx, t, "fill", {c}, outs)
    <3> DEFINE ins == {c}
    <3>1. t = Accepted(a.tx, "fill", ins, outs, FALSE) /\ "fill" \in Kinds
          /\ "fill" \notin {"fund", "spam"} /\ "fill" # "fund"
      BY DEF Kinds
    <3>2. ins \in SUBSET Coins(a.tx) /\ \A d \in ins : Live(a.tx, d[1]) BY <1>5, <2>2
    <3> HIDE DEF ins, outs, t
    <3>3. Submitted(a.tx, t, "fill", ins, outs) BY <1>1, <2>3, <3>1, <3>2, AcceptedIs
    <3> QED BY <3>3 DEF ins
  <2>5. Len(t) = Len(a.tx) + 1 /\ Len(a.tx) \in Nat BY <2>4 DEF Submitted
  <2>6. NewCoins(Len(t), outs) = {out} BY <1>6, <2>5, OneOutput
  <2>7. \/ mode = "hidden" /\ b = [a EXCEPT !.tx = t, !.lost = @ \cup {out}]
        \/ b = [a EXCEPT !.tx = t, !.inflight = Append(@, out)]
    BY <1>8 DEF Submitting
  <2>8. out \in Place BY <2>5 DEF Place
  <2> HIDE DEF t, outs, out, x
  <2>9. /\ Ledger(t) /\ t \in Seq(TxRecord) /\ Len(t) <= MaxTxs
        /\ \A i \in DOMAIN a.tx : i \in DOMAIN t /\ t[i] = a.tx[i]
        /\ \A i \in DOMAIN t : i = Len(t) \/ i \in DOMAIN a.tx
        /\ t[Len(t)].kind = "fill" /\ t[Len(t)].ins = {c} /\ t[Len(t)].state = "mempool"
        /\ Coins(t) = Coins(a.tx) \cup {out}
        /\ Unspent(t) = (Unspent(a.tx) \ {c}) \cup {out}
    <3>1. Len(t) <= MaxTxs BY <2>1, <2>5, EngineConstants
    <3> QED BY <2>4, <2>6, <3>1 DEF Submitted, Ledger
  <2>10. /\ \A i \in DOMAIN tx : i \in DOMAIN t /\ t[i] = tx[i]
         /\ \A i \in DOMAIN t : i \notin DOMAIN tx =>
              t[i].kind = "fill" /\ t[i].state = "mempool" /\ t[i].ins \subseteq Range(utxos)
    BY <1>1, <2>9 DEF Pays
  <2>11. /\ b \in BatchRec /\ b.tx = t /\ Range(a.inflight) \subseteq Range(b.inflight)
         /\ Range(b.inflight) \subseteq Range(a.inflight) \cup {out}
         /\ a.lost \subseteq b.lost /\ b.lost \subseteq a.lost \cup {out}
         /\ out \in Range(b.inflight) \cup b.lost
         /\ Len(b.inflight) <= Len(a.inflight) + 1
    <3>1. CASE b = [a EXCEPT !.tx = t, !.lost = @ \cup {out}]
      <4> DEFINE L == a.lost \cup {out}
      <4>1. L \in SUBSET Place /\ b = [a EXCEPT !.tx = t, !.lost = L] BY <1>2, <2>8, <3>1
      <4> HIDE DEF L
      <4>2. b \in BatchRec /\ b.tx = t /\ b.inflight = a.inflight /\ b.lost = L
        <5>1. BatchHas(b, t, a.inflight, L) BY <1>1, <2>9, <4>1, BatchTxLost
        <5> QED BY <5>1 DEF BatchHas
      <4>3. Len(a.inflight) \in Nat BY <1>2
      <4> QED BY <4>2, <4>3 DEF L
    <3>2. CASE b = [a EXCEPT !.tx = t, !.inflight = Append(@, out)]
      <4> DEFINE q == Append(a.inflight, out)
      <4>1. b = [a EXCEPT !.tx = t, !.inflight = q] BY <3>2
      <4>2. q \in Seq(Place) /\ Range(q) = Range(a.inflight) \cup {out} /\ Len(q) = Len(a.inflight) + 1
            /\ Len(a.inflight) \in Nat
        BY <1>2, <2>8, OneMoreCoin
      <4> HIDE DEF q
      <4>3. b \in BatchRec /\ b.tx = t /\ b.inflight = q /\ b.lost = a.lost
        <5>1. BatchHas(b, t, q, a.lost) BY <1>1, <2>9, <4>1, <4>2, BatchTxInflight
        <5> QED BY <5>1 DEF BatchHas
      <4> QED BY <4>2, <4>3
    <3> QED BY <2>7, <3>1, <3>2
  <2>12. Batching(b) BY <1>1, <2>9, <2>10, <2>11 DEF Batching
  <2> QED BY <2>9, <2>11, <2>12 DEF Fills
<1> QED BY <1>7, <1>8

\* What the first k fills of a batch leave.
Batched(list, k, a) ==
  /\ Batching(a) /\ Len(a.inflight) <= Len(inflight) + k
  /\ \A d \in Unspent(a.tx) :
       d \in Range(a.inflight) \cup a.lost \/ (d \in Unspent(tx) /\ \A j \in 1 .. k : d # list[j])

\* A batch before its first submission.
BatchStart == [tx |-> tx, inflight |-> inflight, lost |-> lost]

\* A batch after the submissions of a list of coins.
SendAll(mode, list) == FoldLeft(LAMBDA acc, c : Submitting(mode, acc, c), BatchStart, list)

\* A batch begins with nothing done.
LEMMA BatchBegins ==
  ASSUME EngineInv, NEW list
  PROVE  Batched(list, 0, BatchStart)
<1> DEFINE a == BatchStart
<1>1. a.tx = tx /\ a.inflight = inflight /\ a.lost = lost BY DEF BatchStart
<1>2. /\ tx \in Seq(TxRecord) /\ lost \in SUBSET Place /\ lost \subseteq Coins(tx)
      /\ Ledger(tx) /\ Len(tx) <= MaxTxs
  BY EngineParts
<1>3. inflight \in Seq(Place) /\ Range(inflight) \subseteq Coins(tx) BY DEF EngineInv, EngineTypes
<1>4. a \in BatchRec BY <1>2, <1>3 DEF BatchRec, BatchStart
<1> HIDE DEF a
<1>5. Batching(a) BY <1>1, <1>2, <1>3, <1>4 DEF Batching
<1>6. Len(inflight) \in Nat BY <1>3
<1>7. Batched(list, 0, a) BY <1>1, <1>5, <1>6 DEF Batched
<1> QED BY <1>7 DEF a

\* The fills of a batch, one after the other.
LEMMA BatchFolds ==
  ASSUME EngineInv, NEW mode, NEW n \in Nat, NEW list, DOMAIN list = 1 .. n,
         \A k \in 1 .. n : Pays(list[k]),
         NEW done, done = SendAll(mode, list)
  PROVE  Batched(list, n, done)
<1> DEFINE Acc == {a \in BatchRec : Batching(a)}
           base == BatchStart
           F == [k \in 1 .. n |-> [a \in Acc |-> Submitting(mode, a, list[k])]]
           Solves(f) == f = [s \in SUBSET DOMAIN list |->
                               IF s = {} THEN base
                               ELSE LET x == Max(s) IN Submitting(mode, f[s \ {x}], list[x])]
<1>2. ASSUME NEW a \in Acc, NEW k \in 1 .. n
      PROVE  Submitting(mode, a, list[k]) \in Acc /\ Fills(a, Submitting(mode, a, list[k]), list[k])
  <2> DEFINE b == Submitting(mode, a, list[k])
  <2>1. Batching(a) /\ Pays(list[k]) /\ b = Submitting(mode, a, list[k]) OBVIOUS
  <2> HIDE DEF b
  <2>2. Fills(a, b, list[k]) BY <2>1, SubmittingFills
  <2>3. Batching(b) BY <2>2 DEF Fills
  <2>4. b \in BatchRec BY <2>3 DEF Batching
  <2> QED BY <2>2, <2>3, <2>4 DEF b
<1>3. base \in Acc /\ Batched(list, 0, base)
  <2>1. Batched(list, 0, base) BY BatchBegins
  <2>2. Batching(base) BY <2>1 DEF Batched
  <2>3. base \in BatchRec BY <2>2 DEF Batching
  <2> QED BY <2>1, <2>2, <2>3
<1>6. done = (CHOOSE f : Solves(f))[DOMAIN list]
  BY DEF SendAll, FoldLeft, MapThenFoldSet
<1> HIDE DEF Acc, base
<1>4. F \in [1 .. n -> [Acc -> Acc]] BY <1>2
<1>5. PICK it : IsFold(it, n, Acc, base, F)
  <2> HIDE DEF F
  <2> QED BY <1>3, <1>4, FoldExists
<1>7. Solves(it)
  <2>1. ASSUME NEW s \in SUBSET (1 .. n), s # {}
        PROVE  it[s] = Submitting(mode, it[s \ {Max(s)}], list[Max(s)])
    <3>1. s \in SUBSET Nat /\ \A x \in s : x <= n OBVIOUS
    <3>2. Max(s) \in 1 .. n BY <3>1, <2>1, GreatestOf
    <3>3. s \ {Max(s)} \in SUBSET (1 .. n) OBVIOUS
    <3>4. it[s \ {Max(s)}] \in Acc BY <3>3, <1>5 DEF IsFold
    <3> QED BY <1>5, <2>1, <3>2, <3>4 DEF IsFold
  <2>2. \A s \in SUBSET (1 .. n) :
          it[s] = IF s = {} THEN base ELSE Submitting(mode, it[s \ {Max(s)}], list[Max(s)])
    BY <1>5, <2>1 DEF IsFold
  <2>3. it = [s \in SUBSET (1 .. n) |-> it[s]] BY <1>5 DEF IsFold
  <2> QED BY <2>2, <2>3
<1>8. PICK f : Solves(f) /\ done = f[1 .. n]
  <2> HIDE DEF Solves
  <2> QED BY <1>6, <1>7
<1>9. f[{}] = base
  <2>1. {} \in SUBSET DOMAIN list OBVIOUS
  <2> QED BY <2>1, <1>8
<1>10. ASSUME NEW k \in 1 .. n
       PROVE  f[1 .. k] = Submitting(mode, f[1 .. k - 1], list[k])
  <2>1. /\ 1 .. k \in SUBSET (1 .. n) /\ 1 .. k # {}
        /\ Max(1 .. k) = k /\ (1 .. k) \ {k} = 1 .. k - 1
    BY LastOfPrefix
  <2> QED BY <1>8, <2>1
<1>11. \A k \in 1 .. n : f[1 .. k - 1] \in Acc => f[1 .. k] = F[k][f[1 .. k - 1]]
  BY <1>10
<1>12. PICK acc : Runs(acc, n, Acc, base, F) /\ acc[n] = f[1 .. n]
  <2> HIDE DEF F, Solves
  <2>2. FoldsUp(f, n, Acc, base, F) BY <1>9, <1>11 DEF FoldsUp
  <2>3. RunsTo(f[1 .. n], n, Acc, base, F) BY <1>3, <2>2, <1>4, FoldRuns
  <2> QED BY <2>3 DEF RunsTo
<1> DEFINE S == {k \in Nat : k <= n => Batched(list, k, acc[k])}
<1>13. 0 \in S BY <1>3, <1>12 DEF Runs
<1>14. ASSUME NEW k \in Nat, k \in S PROVE k + 1 \in S
  <2>1. SUFFICES ASSUME k + 1 <= n PROVE Batched(list, k + 1, acc[k + 1]) OBVIOUS
  <2>2. k + 1 \in 1 .. n /\ (k + 1) - 1 = k /\ k \in 0 .. n /\ k <= n BY <2>1
  <2>3. Batched(list, k, acc[k]) BY <1>14, <2>2
  <2>4. acc[k] \in Acc BY <1>12, <2>2 DEF Runs
  <2>5. acc[k + 1] = Submitting(mode, acc[k], list[k + 1]) BY <1>12, <2>2, <2>4 DEF Runs
  <2>6. Fills(acc[k], acc[k + 1], list[k + 1]) BY <1>2, <2>2, <2>4, <2>5
  <2> DEFINE a == acc[k]
             b == acc[k + 1]
             c == list[k + 1]
  <2>7. /\ Batching(a) /\ Len(a.inflight) <= Len(inflight) + k
        /\ \A d \in Unspent(a.tx) :
             d \in Range(a.inflight) \cup a.lost \/ (d \in Unspent(tx) /\ \A j \in 1 .. k : d # list[j])
    BY <2>3 DEF Batched
  <2>8. /\ Batching(b) /\ Len(b.inflight) <= Len(a.inflight) + 1
        /\ \A d \in Unspent(b.tx) : d \in Range(b.inflight) \cup b.lost \/ (d \in Unspent(a.tx) /\ d # c)
        /\ Range(a.inflight) \subseteq Range(b.inflight) /\ a.lost \subseteq b.lost
    BY <2>6 DEF Fills
  <2>9. Len(a.inflight) \in Nat /\ Len(b.inflight) \in Nat /\ Len(inflight) \in Nat
    <3>1. a \in BatchRec /\ b \in BatchRec BY <2>7, <2>8 DEF Batching
    <3>2. a.inflight \in Seq(Place) /\ b.inflight \in Seq(Place) BY <3>1, BatchFields
    <3>3. inflight \in Seq(Place) BY DEF EngineInv, EngineTypes
    <3> QED BY <3>2, <3>3
  <2> HIDE DEF a, b
  <2>10. Len(b.inflight) <= Len(inflight) + (k + 1) BY <2>7, <2>8, <2>9
  <2>11. \A j \in 1 .. k + 1 : j \in 1 .. k \/ j = k + 1 OBVIOUS
  <2>12. ASSUME NEW d \in Unspent(b.tx)
         PROVE  d \in Range(b.inflight) \cup b.lost
                  \/ (d \in Unspent(tx) /\ \A j \in 1 .. k + 1 : d # list[j])
    BY <2>7, <2>8, <2>11
  <2>13. Batched(list, k + 1, b) BY <2>8, <2>10, <2>12 DEF Batched
  <2> QED BY <2>13 DEF b
<1>15. \A k \in Nat : k \in S
  <2> HIDE DEF S
  <2> QED BY <1>13, <1>14, SetInduction
<1>16. Batched(list, n, acc[n]) BY <1>15
<1> QED BY <1>8, <1>12, <1>16

\* The first n positions of a set of them.
FirstTaken(x, P, n) ==
  /\ x \in Seq(P) /\ Len(x) = n /\ DOMAIN x = 1 .. n /\ Range(x) \subseteq P
  /\ Cardinality(Range(x)) = n

\* The first n of a set of places in order.
LEMMA FirstPlaces ==
  ASSUME NEW P \in SUBSET Nat, IsFiniteSet(P), NEW n \in Nat, n <= Cardinality(P)
  PROVE  FirstTaken(SubSeq(Ascending(P), 1, n), P, n)
<1> DEFINE s == Ascending(P)
           x == SubSeq(s, 1, n)
<1>1. Lists(s, P, Less(P)) BY AscendingLists
<1>2. /\ s \in Seq(P) /\ Len(s) = Cardinality(P)
      /\ \A i, j \in 1 .. Len(s) : i < j => s[i] < s[j]
  <2>1. s \in Seq(P) /\ Len(s) = Cardinality(P) BY <1>1 DEF Lists
  <2>2. ASSUME NEW i \in 1 .. Len(s), NEW j \in 1 .. Len(s), i < j PROVE s[i] < s[j]
    <3>1. <<s[i], s[j]>> \in Less(P) BY <1>1, <2>2 DEF Lists
    <3> QED BY <3>1 DEF Less
  <2> QED BY <2>1, <2>2
<1> HIDE DEF s
<1>3. /\ x \in Seq(P) /\ Len(x) = n /\ DOMAIN x = 1 .. n
      /\ \A k \in 1 .. n : x[k] = s[k] /\ k \in 1 .. Len(s)
  BY <1>2
<1> HIDE DEF x
<1>4. Range(x) \subseteq P BY <1>3 DEF Range
<1>5. Cardinality(Range(x)) = n
  <2> DEFINE R == Range(x)
             f == [k \in 1 .. n |-> x[k]]
  <2>1. f \in [1 .. n -> R] BY <1>3 DEF Range
  <2>2. \A i, j \in 1 .. n : f[i] = f[j] => i = j
    <3>1. SUFFICES ASSUME NEW i \in 1 .. n, NEW j \in 1 .. n, x[i] = x[j], i < j PROVE FALSE
      OBVIOUS
    <3>2. s[i] < s[j] /\ s[i] = s[j] BY <1>2, <1>3, <3>1
    <3>3. s[i] \in P
      <4>1. i \in 1 .. Len(s) BY <1>3
      <4> QED BY <1>2, <4>1
    <3>4. s[i] \in Nat BY <3>3
    <3>5. s[i] < s[i] BY <3>2
    <3> QED BY <3>4, <3>5
  <2>3. \A y \in R : \E k \in 1 .. n : f[k] = y BY <1>3 DEF Range
  <2>4. f \in Bijection(1 .. n, R) BY <2>1, <2>2, <2>3 DEF Bijection, Injection, Surjection, IsInjective
  <2>5. ExistsBijection(1 .. n, R) BY <2>4 DEF ExistsBijection
  <2> QED BY <2>5, FS_CountingElements
<1>6. FirstTaken(x, P, n) BY <1>3, <1>4, <1>5 DEF FirstTaken
<1> QED BY <1>6 DEF x, s

\* A batch is the fold of its fills.
LEMMA BatchIs ==
  ASSUME NEW mode, SendBatch(mode)
  PROVE  LET able == {i \in DOMAIN utxos : Amount(tx, utxos[i]) >= 1}
             n == MinOf(MinOf(round.left, BatchSize), Cardinality(able))
             taken == SubSeq(Ascending(able), 1, n)
             done == SendAll(mode, [k \in 1 .. n |-> utxos[taken[k]]])
         IN  /\ tx' = done.tx /\ inflight' = done.inflight /\ lost' = done.lost
             /\ utxos' = [k \in 1 .. Len(utxos) - n |->
                            utxos[Ascending(DOMAIN utxos \ Range(taken))[k]]]
             /\ round' = [round EXCEPT !.left = @ - n]
BY DEF SendBatch, SendAll, Submitting, BatchStart

\* The sizes of a batch.
LEMMA BatchSizes ==
  ASSUME NEW a \in Nat, NEW b \in Nat, NEW n, n = MinOf(MinOf(a, BatchSize), b)
  PROVE  n \in Nat /\ n <= a /\ n <= b
BY EngineConstants DEF MinOf

\* SendBatch keeps the invariant.
LEMMA SendBatchInv ==
  ASSUME EngineInv, NEW mode, SendBatch(mode)
  PROVE  EngineInv'
<1> DEFINE able == {i \in DOMAIN utxos : Amount(tx, utxos[i]) >= 1}
           n == MinOf(MinOf(round.left, BatchSize), Cardinality(able))
           taken == SubSeq(Ascending(able), 1, n)
           U == Range(taken)
           fills == [k \in 1 .. n |-> utxos[taken[k]]]
           done == SendAll(mode, fills)
           a == utxos'
<1>1. /\ doing = "batch" /\ Spend(mode, TRUE)
      /\ UNCHANGED <<owner, height, cursor, funding, fanout, seen_height, doing, stale>>
  BY DEF SendBatch
<1>2. /\ tx' = done.tx /\ inflight' = done.inflight /\ lost' = done.lost
      /\ a = [k \in 1 .. Len(utxos) - n |-> utxos[Ascending(DOMAIN utxos \ U)[k]]]
      /\ round' = [round EXCEPT !.left = @ - n]
  BY BatchIs
<1>3. mishaps' \in 0 .. MaxMishaps BY <1>1, SpendIs DEF EngineInv, EngineTypes
<1>4. owner = "floor" /\ ~stale BY <1>1 DEF EngineInv, WhoDoes
<1>5. /\ Books(Now) /\ Ledger(tx) /\ tx \in Seq(TxRecord) /\ Dated(tx, height) /\ cursor = 0
      /\ utxos \in Seq(Place) /\ fanout \in Nat /\ lost \in SUBSET Place
      /\ Range(utxos) \subseteq Coins(tx)
      /\ funding \in [txid : Nat, known : BOOLEAN]
  <2>1. cursor = 0 BY <1>4 DEF EngineInv, Shapes
  <2> QED BY <2>1, EngineParts
<1>6. /\ round \in RoundRec /\ round.left \in Nat /\ inflight \in Seq(Place) /\ Len(inflight) \in Nat
      /\ round.left + Len(inflight) <= FloorTarget
  <2>1. round \in RoundRec /\ inflight \in Seq(Place) BY DEF EngineInv, EngineTypes
  <2>2. round.left + Len(inflight) <= FloorTarget BY <1>1 DEF EngineInv, Shapes
  <2>3. round.left \in Nat BY <2>1 DEF RoundRec
  <2> QED BY <2>1, <2>2, <2>3
<1>7. /\ IsFiniteSet(able) /\ Cardinality(able) \in Nat /\ able \in SUBSET (DOMAIN utxos)
      /\ able \in SUBSET Nat /\ \A i \in able : Amount(tx, utxos[i]) >= 1
  <2>1. able = Able(Now) BY NowIs DEF Able
  <2>2. IsFiniteSet(able) /\ Cardinality(able) \in Nat BY <1>5, <2>1, UsableIs
  <2>3. able \in SUBSET (DOMAIN utxos) /\ able \in SUBSET Nat BY <1>5
  <2> QED BY <2>2, <2>3
<1> HIDE DEF able
<1>8. n \in Nat /\ n <= round.left /\ n <= Cardinality(able) BY <1>6, <1>7, BatchSizes
<1> HIDE DEF n
<1>9. FirstTaken(taken, able, n) BY <1>7, <1>8, FirstPlaces
<1>10. /\ taken \in Seq(able) /\ Len(taken) = n /\ DOMAIN taken = 1 .. n /\ U \subseteq able
       /\ n = Cardinality(U) /\ \A k \in 1 .. n : taken[k] \in U
  BY <1>9 DEF FirstTaken, Range
<1>11. U \in SUBSET (DOMAIN utxos) BY <1>7, <1>10
<1>12. \A i \in U : \E k \in 1 .. n : taken[k] = i BY <1>10 DEF Range
<1> HIDE DEF U, taken
<1>13. Leaves(a, utxos, U) BY <1>2, <1>5, <1>10, <1>11, LeftOver
<1>14. DOMAIN fills = 1 .. n /\ \A k \in 1 .. n : fills[k] = utxos[taken[k]] OBVIOUS
<1>15. \A k \in 1 .. n : Pays(fills[k])
  <2>1. SUFFICES ASSUME NEW k \in 1 .. n PROVE Pays(fills[k]) OBVIOUS
  <2>2. taken[k] \in able /\ taken[k] \in DOMAIN utxos BY <1>10, <1>11
  <2>3. utxos[taken[k]] \in Range(utxos) BY <2>2 DEF Range
  <2> QED BY <1>7, <1>14, <2>2, <2>3 DEF Pays
<1> HIDE DEF fills, done, a
<1>16. Batched(fills, n, done)
  <2>1. done = SendAll(mode, fills) BY DEF done
  <2> QED BY <1>8, <1>14, <1>15, <2>1, BatchFolds
<1>17. /\ Batching(done) /\ Len(done.inflight) <= Len(inflight) + n
       /\ \A d \in Unspent(done.tx) :
             d \in Range(done.inflight) \cup done.lost
               \/ (d \in Unspent(tx) /\ \A j \in 1 .. n : d # fills[j])
  BY <1>16 DEF Batched
<1>18. /\ done \in BatchRec /\ Ledger(done.tx) /\ Len(done.tx) <= MaxTxs
       /\ \A i \in DOMAIN tx : i \in DOMAIN done.tx /\ done.tx[i] = tx[i]
       /\ \A i \in DOMAIN done.tx : i \notin DOMAIN tx => done.tx[i].state = "mempool"
       /\ Range(inflight) \subseteq Range(done.inflight)
       /\ Range(done.inflight) \subseteq Coins(done.tx)
       /\ lost \subseteq done.lost /\ done.lost \subseteq Coins(done.tx)
  BY <1>17 DEF Batching
<1>19. /\ done.tx \in Seq(TxRecord) /\ done.inflight \in Seq(Place) /\ done.lost \in SUBSET Place
       /\ Len(done.inflight) \in Nat
  BY <1>18, BatchFields
<1>20. Dated(done.tx, height) BY <1>5, <1>18 DEF Dated
<1>21. Coins(tx) \subseteq Coins(done.tx) BY <1>18 DEF Coins
<1>22. a \in Seq(Place) /\ Range(a) \subseteq Range(utxos)
       /\ \A i \in DOMAIN utxos : i \notin U => utxos[i] \in Range(a)
  <2>1. \A i \in DOMAIN utxos \ U : \E k \in DOMAIN a : a[k] = utxos[i] BY <1>13 DEF Leaves
  <2>2. a \in Seq(Place) /\ Range(a) \subseteq Range(utxos) BY <1>13 DEF Leaves
  <2> QED BY <2>1, <2>2 DEF Range
<1>23. Has(Now', done.tx, a, cursor, funding, fanout, done.lost)
  <2>1. cursor \in Nat BY <1>5
  <2>2. utxos' = a /\ cursor' = cursor /\ funding' = funding /\ fanout' = fanout BY <1>1 DEF a
  <2> QED BY <1>2, <1>5, <1>19, <1>22, <2>1, <2>2, NowHas
<1>24. InBooks(Now) /\ Accounted(Now) /\ Alive(Now) /\ Confirmed(Now)
  <2>1. InBooks(Now) BY <1>4 DEF EngineInv, Reconciliation
  <2> QED BY <1>4, <2>1 DEF InBooks
<1>25. \A c \in Range(utxos) : c[1] \in DOMAIN tx BY <1>5, CoinIs
<1>26. Books(Now') /\ Alive(Now') /\ Confirmed(Now') /\ Accounted(Now)'
  <2> DEFINE f == Now'
  <2>1. /\ f \in EngineRec /\ f.tx = done.tx /\ f.utxos = a /\ f.cursor = cursor
        /\ f.funding = funding /\ f.fanout = fanout /\ f.lost = done.lost
    BY <1>23 DEF Has
  <2> HIDE DEF f
  <2>2. Known(f) BY <1>5, <1>18, <1>21, <1>22, <2>1 DEF Known
  <2>3. Pending(f) BY <1>5, <1>18, <2>1, NowIs DEF Books, Pending
  <2>4. Books(f) BY <1>18, <2>1, <2>2, <2>3 DEF Books
  <2>5. Alive(f)
    <3>1. /\ funding # NoFunding => funding.txid \in DOMAIN tx
          /\ fanout # 0 => fanout \in DOMAIN tx
      BY <1>5, PendingIs, NowIs
    <3> QED BY <1>18, <1>24, <2>1, <3>1, NowIs DEF Alive, Live
  <2>6. Confirmed(f) BY <1>18, <1>22, <1>24, <1>25, <2>1, NowIs DEF Confirmed
  <2>7. ASSUME NEW d \in Unspent(done.tx)
        PROVE  d \in Range(a) \cup Range(done.inflight) \cup done.lost
                      \cup {g \in Coins(done.tx) : g[1] \in {funding.txid, fanout}}
    <3>1. CASE d \in Range(done.inflight) \cup done.lost BY <3>1
    <3>2. CASE d \in Unspent(tx) /\ \A j \in 1 .. n : d # fills[j]
      <4>1. d \in Range(utxos) \cup Range(inflight) \cup lost
                 \cup {g \in Coins(tx) : g[1] \in {funding.txid, fanout}}
        BY <1>24, <3>2, NowIs DEF Accounted
      <4>2. ASSUME d \in Range(utxos) PROVE d \in Range(a)
        <5>1. PICK i \in DOMAIN utxos : utxos[i] = d BY <4>2 DEF Range
        <5>2. i \notin U
          <6>1. SUFFICES ASSUME i \in U PROVE FALSE OBVIOUS
          <6>2. PICK k \in 1 .. n : taken[k] = i BY <1>12, <6>1
          <6> QED BY <1>14, <3>2, <5>1, <6>2
        <5> QED BY <1>22, <5>1, <5>2
      <4> QED BY <1>18, <1>21, <4>1, <4>2
    <3> QED BY <1>17, <3>1, <3>2
  <2>8. Accounted(Now)' BY <1>2, <2>1, <2>7 DEF Accounted, f
  <2> QED BY <2>4, <2>5, <2>6, <2>8 DEF f
<1>27. InBooks(Now)' BY <1>26 DEF InBooks
<1>28. round' \in RoundRec /\ (round.sent)' = round.sent /\ (round.left)' = round.left - n
  <2>1. [round EXCEPT !.left = @ - n] \in RoundRec
        /\ [round EXCEPT !.left = @ - n].sent = round.sent
        /\ [round EXCEPT !.left = @ - n].left = round.left - n
    BY <1>6, <1>8, RoundEdits
  <2> QED BY <1>2, <2>1
<1>29. (round.left)' + Len(inflight)' <= FloorTarget /\ Len(inflight)' <= FloorTarget
  <2>1. Len(inflight)' = Len(done.inflight) BY <1>2
  <2> QED BY <1>6, <1>8, <1>17, <1>19, <1>28, <2>1, EngineConstants
<1>30. EngineTypes'
  <2>1. (inflight \in Seq(Place) /\ Range(inflight) \subseteq Coins(tx))' BY <1>2, <1>18, <1>19
  <2> QED BY <1>1, <1>3, <1>28, <1>29, <2>1 DEF EngineInv, EngineTypes
<1>31. SentLater'
  <2>1. (round.sent)' = <<>> BY <1>1, <1>28 DEF EngineInv, SentLater
  <2> QED BY <2>1, NoneSent
<1>32. WhoDoes' BY <1>1, <1>4 DEF WhoDoes
<1>33. Shapes' BY <1>1, <1>4, <1>5, <1>29 DEF Shapes
<1>34. Reconciliation' BY <1>27 DEF Reconciliation
<1>35. Books(Now)' /\ Dated(tx, height)' BY <1>1, <1>2, <1>20, <1>26
<1> QED BY <1>30, <1>31, <1>32, <1>33, <1>34, <1>35 DEF EngineInv

(***************************************************************************)
(* The invariant holds.                                                    *)
(***************************************************************************)
\* The engine starts in the invariant.
LEMMA EngineBegins ==
  ASSUME EngineInit
  PROVE  EngineInv
<1>1. /\ owner \in {"output", "floor", "burst"}
      /\ tx = <<>> /\ height = 1
      /\ utxos = <<>> /\ cursor = 0 /\ funding = NoFunding /\ fanout = 0
      /\ inflight = <<>> /\ seen_height = 0
      /\ doing = "idle" /\ round = Idle /\ stale = TRUE
      /\ mishaps = 0 /\ lost = {}
  BY DEF EngineInit
<1>2. /\ <<>> \in Seq(TxRecord) /\ <<>> \in Seq(Place) /\ Len(<<>>) = 0 /\ DOMAIN <<>> = {}
      /\ NoFunding \in [txid : Nat, known : BOOLEAN]
  BY DEF NoFunding
<1>3. Range(<<>>) = {} BY <1>2 DEF Range
<1>4. Ledger(tx) BY <1>1, <1>2 DEF Ledger, Outs, Spends
<1>5. Dated(tx, height) BY <1>1, <1>2 DEF Dated
<1>6. Now \in EngineRec
  <2> DEFINE g == NoFunding
             t == <<>>
             a == <<>>
             L == {}
  <2>1. g \in [txid : Nat, known : BOOLEAN] /\ t \in Seq(TxRecord) /\ a \in Seq(Place) /\ L \in SUBSET Place
    BY <1>2
  <2>2. Now = [tx |-> t, utxos |-> a, cursor |-> 0, funding |-> g, fanout |-> 0, lost |-> L]
    BY <1>1 DEF Now
  <2> HIDE DEF g, t, a, L
  <2> QED BY <2>1, <2>2 DEF EngineRec
<1>7. Known(Now) /\ Pending(Now) /\ Len(Now.tx) <= MaxTxs
  <2>1. Known(Now) BY <1>1, <1>3, NowIs DEF Known
  <2>2. Pending(Now) BY <1>1, NowIs DEF Pending
  <2>3. Len(Now.tx) = 0 BY <1>1, <1>2, NowIs
  <2> QED BY <2>1, <2>2, <2>3, EngineConstants
<1>8. Books(Now) BY <1>4, <1>6, <1>7, NowIs DEF Books
<1>9. EngineTypes
  <2>1. round \in RoundRec BY <1>1, IdleIs
  <2>2. inflight \in Seq(Place) /\ Range(inflight) \subseteq Coins(tx) /\ Len(inflight) <= FloorTarget
    BY <1>1, <1>2, <1>3, EngineConstants
  <2> QED BY <1>1, <2>1, <2>2, EngineConstants DEF EngineTypes
<1>10. WhoDoes BY <1>1 DEF WhoDoes
<1>11. SentLater
  <2>1. round.sent = <<>> BY <1>1, IdleIs
  <2> QED BY <1>2, <2>1 DEF SentLater
<1>12. Shapes BY <1>1, <1>2 DEF Shapes, OneInput
<1>13. Reconciliation BY <1>1 DEF Reconciliation
<1> QED BY <1>5, <1>8, <1>9, <1>10, <1>11, <1>12, <1>13 DEF EngineInv

\* Nothing happens.
LEMMA EngineRests ==
  ASSUME EngineInv, UNCHANGED engineVars
  PROVE  EngineInv'
<1>1. UNCHANGED <<owner, tx, height, utxos, cursor, funding, fanout, inflight, seen_height,
                  doing, round, stale, mishaps, lost>>
  BY DEF engineVars
<1>2. /\ Books(Now)' /\ Dated(tx, height)' /\ (Range(inflight) \subseteq Coins(tx))'
      /\ InBooks(Now) => InBooks(Now)'
      /\ owner = "floor" => cursor' = 0
      /\ owner # "floor" => OneInput(tx)'
  BY <1>1, SameBooks
<1>3. EngineTypes' BY <1>1, <1>2 DEF EngineInv, EngineTypes
<1>4. SentLater' BY <1>1 DEF EngineInv, SentLater
<1>5. WhoDoes' BY <1>1 DEF EngineInv, WhoDoes
<1>6. Shapes' BY <1>1, <1>2 DEF EngineInv, Shapes
<1>7. Reconciliation' BY <1>1, <1>2 DEF EngineInv, Reconciliation
<1> QED BY <1>2, <1>3, <1>4, <1>5, <1>6, <1>7 DEF EngineInv

\* Every step keeps the invariant.
LEMMA EngineKeeps ==
  ASSUME EngineInv, [EngineNext]_engineVars
  PROVE  EngineInv'
<1>1. ASSUME NEW mode \in Modes, OutputRound(mode) PROVE EngineInv' BY <1>1, OutputRoundInv
<1>2. ASSUME NEW mode \in Modes, SendShape(mode) PROVE EngineInv' BY <1>2, SendShapeInv
<1>3. CASE EndOutputRound BY <1>3, EndOutputRoundInv
<1>4. ASSUME NEW mode \in Modes, Bump(mode) PROVE EngineInv' BY <1>4, BumpInv
<1>5. CASE EndBump BY <1>5, EndBumpInv
<1>6. ASSUME NEW mode \in Modes, HarvestMinedFills(mode) PROVE EngineInv'
  BY <1>6, HarvestMinedFillsInv
<1>7. ASSUME NEW mode \in Modes, FundPool(mode) PROVE EngineInv' BY <1>7, FundPoolInv
<1>8. ASSUME NEW mode \in Modes, SendBatch(mode) PROVE EngineInv' BY <1>8, SendBatchInv
<1>9. CASE EndFloorRound BY <1>9, EndFloorRoundInv
<1>10. ASSUME NEW mode \in Modes, ReconcileScan(mode) PROVE EngineInv' BY <1>10, ReconcileScanInv
<1>11. ASSUME NEW mode \in Modes, ReconcileHeight(mode) PROVE EngineInv'
  BY <1>11, ReconcileHeightInv
<1>12. CASE BeginPrepare BY <1>12, BeginPrepareInv
<1>13. ASSUME NEW mode \in Modes, PrepareBurst(mode) PROVE EngineInv' BY <1>13, PrepareBurstInv
<1>14. ASSUME NEW mode \in Modes, PrepareManualBurst(mode) PROVE EngineInv'
  BY <1>14, PrepareManualBurstInv
<1>15. ASSUME NEW mode \in Modes, SpamBurst(mode) PROVE EngineInv' BY <1>15, SpamBurstInv
<1>16. ASSUME NEW mode \in Modes, EndSpamBurst(mode) PROVE EngineInv' BY <1>16, EndSpamBurstInv
<1>17. CASE Interrupted BY <1>17, InterruptedInv
<1>18. CASE EngineStep
  BY <1>1, <1>2, <1>3, <1>4, <1>5, <1>6, <1>7, <1>8, <1>9, <1>10, <1>11, <1>12, <1>13, <1>14,
     <1>15, <1>16, <1>17, <1>18 DEF EngineStep
<1>19. CASE Mine BY <1>19, MineInv
<1>20. CASE NodeEvicts BY <1>20, NodeEvictsInv
<1>21. CASE ChainMutated BY <1>21, ChainMutatedInv
<1>22. CASE ReconciliationAsked BY <1>22, ReconciliationAskedInv
<1>23. CASE EngineRestarts BY <1>23, RestartInv
<1>24. CASE UNCHANGED engineVars BY <1>24, EngineRests
<1> QED BY <1>18, <1>19, <1>20, <1>21, <1>22, <1>23, <1>24 DEF EngineNext

\* The invariant of the runs follows.
LEMMA EngineInvSays ==
  ASSUME EngineInv
  PROVE  EngineInvariant
<1>1. /\ Now \in EngineRec /\ Books(Now) /\ Ledger(tx) /\ tx \in Seq(TxRecord)
      /\ Len(tx) \in Nat /\ Len(tx) <= MaxTxs
      /\ utxos \in Seq(Place) /\ cursor \in Nat /\ fanout \in Nat
      /\ funding.txid \in Nat /\ Range(utxos) \subseteq Coins(tx) /\ lost \subseteq Coins(tx)
      /\ cursor = 0 \/ cursor < Len(utxos)
  BY EngineParts
<1>2. EngineTypeOK
  <2>1. lost \subseteq Coin
    <3>1. Coins(tx) \subseteq (1 .. Len(tx)) \X (1 .. MaxOuts) BY <1>1, CoinsFinite
    <3>2. 1 .. Len(tx) \subseteq 1 .. MaxTxs BY <1>1, EngineConstants
    <3> QED BY <1>1, <3>1, <3>2 DEF Coin, MaxOuts
  <2>2. funding.txid \in 0 .. Len(tx) /\ fanout \in 0 .. Len(tx)
    <3>1. funding.txid = 0 \/ funding.txid \in DOMAIN tx BY <1>1, PendingIs, NowIs
    <3>2. fanout = 0 \/ fanout \in DOMAIN tx BY <1>1, PendingIs, NowIs
    <3> QED BY <1>1, <3>1, <3>2
  <2> QED BY <1>1, <2>1, <2>2 DEF EngineTypeOK, EngineInv, EngineTypes
<1>3. CoinsAccounted
  <2>1. SUFFICES ASSUME ~stale PROVE Scanned(tx) \subseteq
                  Range(utxos) \cup Range(inflight) \cup lost
                    \cup {c \in Coins(tx) : c[1] \in {funding.txid, fanout}}
    BY DEF CoinsAccounted
  <2>2. Accounted(Now) BY <2>1 DEF EngineInv, Reconciliation, InBooks
  <2>3. Scanned(tx) \subseteq Unspent(tx) BY DEF Scanned, Unspent
  <2> QED BY <2>2, <2>3, NowIs DEF Accounted
<1>4. PendingIsAlive
  <2>1. SUFFICES ASSUME owner # "burst", ~stale
                 PROVE  /\ funding # NoFunding => Live(tx, funding.txid)
                        /\ fanout # 0 => Live(tx, fanout)
    BY DEF PendingIsAlive
  <2>2. Alive(Now) BY <2>1 DEF EngineInv, Reconciliation, InBooks
  <2> QED BY <2>2, NowIs DEF Alive
<1> QED BY <1>2, <1>3, <1>4 DEF EngineInvariant

\* The inductive invariant holds throughout every behaviour.
THEOREM EngineInvHolds == EngineSpec => []EngineInv
<1>1. EngineInit => EngineInv BY EngineBegins
<1>2. EngineInv /\ [EngineNext]_engineVars => EngineInv' BY EngineKeeps
<1> QED BY <1>1, <1>2, PTL DEF EngineSpec

\* No coin falls out of the engine's books and nothing dead is waited for, for every
\* size of rounds, fan-outs and batches and any number of mishaps: whatever the
\* node mines, evicts or reorganises and whichever answers are lost.
THEOREM EngineInvariantHolds == EngineSpec => []EngineInvariant
<1>1. EngineInv => EngineInvariant BY EngineInvSays
<1> QED BY <1>1, EngineInvHolds, PTL

(***************************************************************************)
(* Fills stand alone: no other step adds a fill.                           *)
(***************************************************************************)
\* No fill among the transactions that u adds to t.
NoFill(t, u) == \A i \in DOMAIN u : i \notin DOMAIN t => u[i].kind # "fill"

\* What one more transaction adds.
LEMMA AddsOne ==
  ASSUME NEW t, t \in Seq(TxRecord), NEW sort, sort # "fill", NEW ins, NEW outs, NEW rbf,
         NEW u, u = Accepted(t, sort, ins, outs, rbf)
  PROVE  NoFill(t, u)
<1> DEFINE r == [kind |-> sort, ins |-> ins, outs |-> outs, rbf |-> rbf,
                 state |-> "mempool", at |-> 0]
<1>1. r.kind = sort OBVIOUS
<1>2. u = Append(t, r) BY DEF Accepted
<1> HIDE DEF r
<1>3. \A i \in DOMAIN u : i \notin DOMAIN t => u[i] = r BY <1>2
<1> QED BY <1>1, <1>3 DEF NoFill

\* Keeping the books adds no fill.
LEMMA KeepsAddsNone ==
  ASSUME NEW e, NEW f, Keeps(e, f)
  PROVE  NoFill(e.tx, f.tx)
BY DEF Keeps, Grown, NoFill

\* A change of state adds none.
LEMMA ChangedAddsNone ==
  ASSUME NEW t, NEW u, NEW v, NoFill(t, u), Changed(u, v)
  PROVE  NoFill(t, v)
BY DEF Changed, NoFill

\* Nor does a step that leaves the transactions alone.
LEMMA SameAddsNone ==
  ASSUME NEW t
  PROVE  NoFill(t, t)
BY DEF NoFill

\* The steps that provision add fundings and fan-outs.
LEMMA ProvisioningAddsNone ==
  ASSUME EngineInv, NEW mode,
         \/ OutputRound(mode) \/ FundPool(mode) \/ PrepareBurst(mode) \/ PrepareManualBurst(mode)
         \/ SpamBurst(mode) \/ EndSpamBurst(mode)
  PROVE  NoFill(tx, tx')
<1>1. Books(Now) BY DEF EngineInv
<1>2. ASSUME NEW f, Keeps(Now, f) PROVE NoFill(tx, f.tx) BY <1>2, KeepsAddsNone, NowIs
<1>3. CASE OutputRound(mode)
  <2> DEFINE f == EnsureFunds(Now, MinOf(Share, Fanout), Fanout, mode)
  <2>1. tx' = f.tx BY <1>3 DEF OutputRound, Spend, BeginSending, Becomes
  <2>2. Keeps(Now, f) BY <1>1, Targets, EnsureFundsKeeps
  <2> HIDE DEF f
  <2> QED BY <1>2, <2>1, <2>2
<1>4. CASE FundPool(mode)
  <2> DEFINE f == EnsurePoolFunds(Now, round.left, mode)
  <2>1. doing = "pool" /\ tx' = f.tx BY <1>4 DEF FundPool, Spend, Becomes
  <2>2. Now.cursor = 0 BY <2>1, NowIs DEF EngineInv, WhoDoes, Shapes
  <2>3. Keeps(Now, f) BY <1>1, <2>2, EnsurePoolFundsKeeps
  <2> HIDE DEF f
  <2> QED BY <1>2, <2>1, <2>3
<1>5. CASE PrepareBurst(mode) \/ SpamBurst(mode)
  <2> DEFINE f == EnsureFunds(Now, BurstTxs, BurstTxs, mode)
  <2>1. tx' = f.tx BY <1>5 DEF PrepareBurst, SpamBurst, BeginSending, Spend, Becomes
  <2>2. Keeps(Now, f) BY <1>1, Targets, EnsureFundsKeeps
  <2> HIDE DEF f
  <2> QED BY <1>2, <2>1, <2>2
<1>6. CASE PrepareManualBurst(mode)
  <2> DEFINE f == EnsureFunds(Now, BurstTxs, BurstTxs, mode)
             w == Mined(f.tx, {})
             g == [f EXCEPT !.tx = w]
  <2>1. Becomes(f) \/ Becomes(g) BY <1>6 DEF PrepareManualBurst, Spend
  <2>2. Keeps(Now, f) BY <1>1, Targets, EnsureFundsKeeps
  <2>3. w = Mined(f.tx, {}) OBVIOUS
  <2> HIDE DEF f
  <2>4. NoFill(tx, f.tx) BY <1>2, <2>2
  <2>5. f \in EngineRec BY <2>2 DEF Keeps, Books
  <2>6. f.tx \in Seq(TxRecord) BY <2>5, EngineFields
  <2>7. height \in Nat BY DEF EngineInv, EngineTypes
  <2> HIDE DEF w
  <2>8. Changed(f.tx, w) BY <2>3, <2>6, <2>7, MinedIs
  <2>9. NoFill(tx, w) BY <2>4, <2>8, ChangedAddsNone
  <2>10. w \in Seq(TxRecord) BY <2>8 DEF Changed
  <2>11. g.tx = w
    <3>1. Has(g, w, f.utxos, f.cursor, f.funding, f.fanout, f.lost) BY <2>5, <2>10, EditTx
    <3> QED BY <3>1 DEF Has
  <2> HIDE DEF g
  <2> QED BY <2>1, <2>4, <2>9, <2>11 DEF Becomes
<1>7. CASE EndSpamBurst(mode)
  <2> DEFINE e == Reconciled(Now, "ok")
             f == EnsureFunds(e, MinOf(round.left, BurstTxs), BurstTxs, "ok")
  <2>1. tx' = tx \/ tx' = f.tx BY <1>7 DEF EndSpamBurst, Spend, BeginSending, Becomes
  <2>2. Keeps(Now, e) BY <1>1, ReconciledAll
  <2>3. Books(e) BY <2>2 DEF Keeps
  <2> HIDE DEF e
  <2>4. Keeps(e, f) BY <2>3, Targets, EnsureFundsKeeps
  <2> HIDE DEF f
  <2>5. Keeps(Now, f)
    <3> DEFINE h == Now
    <3>1. Books(h) /\ Keeps(h, e) BY <1>1, <2>2
    <3> HIDE DEF h
    <3>2. Keeps(h, f) BY <2>4, <3>1, KeepsBoth
    <3> QED BY <3>2 DEF h
  <2> QED BY <1>2, <2>1, <2>5, SameAddsNone
<1> QED BY <1>3, <1>4, <1>5, <1>6, <1>7

\* The other steps of the owner add spam, or nothing.
LEMMA SendingAddsNone ==
  ASSUME EngineInv, NEW mode,
         \/ SendShape(mode) \/ Bump(mode) \/ ReconcileScan(mode) \/ ReconcileHeight(mode)
         \/ HarvestMinedFills(mode) \/ EndOutputRound \/ EndBump \/ EndFloorRound
         \/ BeginPrepare \/ Interrupted
  PROVE  NoFill(tx, tx')
<1>1. tx \in Seq(TxRecord) BY EngineParts
<1>2. CASE SendShape(mode)
  <2>1. \/ tx' = tx
        \/ \E c : tx' = Accepted(tx, "spam", {c}, <<Amount(tx, c) - 1>>, Replaceable)
    BY <1>2 DEF SendShape
  <2>2. ASSUME NEW c, tx' = Accepted(tx, "spam", {c}, <<Amount(tx, c) - 1>>, Replaceable)
        PROVE  NoFill(tx, tx')
    <3> DEFINE u == tx'
               k == "spam"
    <3>1. u = Accepted(tx, k, {c}, <<Amount(tx, c) - 1>>, Replaceable) /\ k # "fill" BY <2>2
    <3> HIDE DEF u, k
    <3>2. NoFill(tx, u) BY <1>1, <3>1, AddsOne
    <3> QED BY <3>2 DEF u
  <2> QED BY <2>1, <2>2, SameAddsNone
<1>3. CASE Bump(mode)
  <2>1. \/ tx' = tx
        \/ \E F, ins, x : tx' = Accepted(Gone(tx, F), "spam", ins, <<x>>, TRUE)
    BY <1>3 DEF Bump
  <2>2. ASSUME NEW F, NEW ins, NEW x, tx' = Accepted(Gone(tx, F), "spam", ins, <<x>>, TRUE)
        PROVE  NoFill(tx, tx')
    <3> DEFINE u == tx'
               k == "spam"
               g == Gone(tx, F)
    <3>1. u = Accepted(g, k, ins, <<x>>, TRUE) /\ k # "fill" BY <2>2
    <3>2. Changed(tx, g) BY <1>1, GoneIs
    <3> HIDE DEF u, k, g
    <3>3. g \in Seq(TxRecord) /\ DOMAIN g = DOMAIN tx BY <3>2 DEF Changed
    <3>4. NoFill(g, u) BY <3>1, <3>3, AddsOne
    <3>5. NoFill(tx, u) BY <3>3, <3>4 DEF NoFill
    <3> QED BY <3>5 DEF u
  <2> QED BY <2>1, <2>2, SameAddsNone
<1>4. CASE ReconcileScan(mode)
  <2> DEFINE f == Reconciled(Now, mode)
  <2>1. tx' = tx \/ tx' = f.tx BY <1>4 DEF ReconcileScan, Becomes
  <2>2. f.tx = tx BY ReconciledKeeps, NowIs DEF EngineInv
  <2> QED BY <2>1, <2>2, SameAddsNone
<1>5. CASE \/ ReconcileHeight(mode) \/ HarvestMinedFills(mode) \/ EndOutputRound \/ EndBump
           \/ EndFloorRound \/ BeginPrepare \/ Interrupted
  <2>1. tx' = tx
    BY <1>5 DEF ReconcileHeight, HarvestMinedFills, EndOutputRound, EndBump, EndFloorRound,
                BeginPrepare, Interrupted, node
  <2> QED BY <2>1, SameAddsNone
<1> QED BY <1>2, <1>3, <1>4, <1>5

\* Neither does the rest of the world.
LEMMA WorldAddsNone ==
  ASSUME Mine \/ NodeEvicts \/ ChainMutated \/ ReconciliationAsked \/ EngineRestarts
  PROVE  NoFill(tx, tx')
<1>1. DOMAIN tx' = DOMAIN tx
  BY DEF Mine, Mined, NodeEvicts, Gone, ChainMutated, ReconciliationAsked, EngineRestarts, node
<1> QED BY <1>1 DEF NoFill

\* The action of FillsStandAlone.
FillStands ==
  \A i \in DOMAIN tx' \ DOMAIN tx :
     tx'[i].kind = "fill" => \A c \in tx'[i].ins : tx'[c[1]].state = "mined"

\* A batch spends confirmed coins.
LEMMA BatchStands ==
  ASSUME EngineInv, NEW mode, SendBatch(mode)
  PROVE  FillStands
<1> DEFINE able == {i \in DOMAIN utxos : Amount(tx, utxos[i]) >= 1}
           n == MinOf(MinOf(round.left, BatchSize), Cardinality(able))
           taken == SubSeq(Ascending(able), 1, n)
           fills == [k \in 1 .. n |-> utxos[taken[k]]]
           done == SendAll(mode, fills)
<1>1. doing = "batch" BY DEF SendBatch
<1>2. tx' = done.tx BY BatchIs
<1>3. owner = "floor" /\ ~stale BY <1>1 DEF EngineInv, WhoDoes
<1>4. /\ Books(Now) /\ utxos \in Seq(Place) /\ Range(utxos) \subseteq Coins(tx)
      /\ tx \in Seq(TxRecord)
  BY EngineParts
<1>5. round.left \in Nat BY DEF EngineInv, EngineTypes, RoundRec
<1>6. /\ IsFiniteSet(able) /\ Cardinality(able) \in Nat /\ able \in SUBSET (DOMAIN utxos)
      /\ able \in SUBSET Nat /\ \A i \in able : Amount(tx, utxos[i]) >= 1
  <2>1. able = Able(Now) BY NowIs DEF Able
  <2>2. IsFiniteSet(able) /\ Cardinality(able) \in Nat BY <1>4, <2>1, UsableIs
  <2>3. able \in SUBSET (DOMAIN utxos) /\ able \in SUBSET Nat BY <1>4
  <2> QED BY <2>2, <2>3
<1> HIDE DEF able
<1>7. n \in Nat /\ n <= Cardinality(able) BY <1>5, <1>6, BatchSizes
<1> HIDE DEF n
<1>8. FirstTaken(taken, able, n) BY <1>6, <1>7, FirstPlaces
<1>9. taken \in Seq(able) /\ Len(taken) = n /\ DOMAIN taken = 1 .. n BY <1>8 DEF FirstTaken
<1> HIDE DEF taken
<1>10. DOMAIN fills = 1 .. n /\ \A k \in 1 .. n : fills[k] = utxos[taken[k]] OBVIOUS
<1>11. \A k \in 1 .. n : Pays(fills[k])
  <2>1. SUFFICES ASSUME NEW k \in 1 .. n PROVE Pays(fills[k]) OBVIOUS
  <2>2. taken[k] \in able /\ taken[k] \in DOMAIN utxos BY <1>6, <1>9
  <2>3. utxos[taken[k]] \in Range(utxos) BY <2>2 DEF Range
  <2> QED BY <1>6, <1>10, <2>2, <2>3 DEF Pays
<1> HIDE DEF fills, done
<1>12. Batched(fills, n, done)
  <2>1. done = SendAll(mode, fills) BY DEF done
  <2> QED BY <1>7, <1>10, <1>11, <2>1, BatchFolds
<1>13. Batching(done) BY <1>12 DEF Batched
<1>14. /\ \A i \in DOMAIN tx : done.tx[i] = tx[i]
       /\ \A i \in DOMAIN done.tx : i \notin DOMAIN tx => done.tx[i].ins \subseteq Range(utxos)
  BY <1>13 DEF Batching
<1>15. Confirmed(Now) BY <1>3 DEF EngineInv, Reconciliation, InBooks
<1>16. \A c \in Range(utxos) : c[1] \in DOMAIN tx /\ tx[c[1]].state = "mined"
  <2>1. \A c \in Range(utxos) : c[1] \in DOMAIN tx BY <1>4, CoinIs
  <2> QED BY <1>15, <2>1, NowIs DEF Confirmed
<1>17. ASSUME NEW i \in DOMAIN tx' \ DOMAIN tx, NEW c \in tx'[i].ins PROVE tx'[c[1]].state = "mined"
  <2>1. c \in Range(utxos) BY <1>2, <1>14
  <2> QED BY <1>2, <1>14, <1>16, <2>1
<1> QED BY <1>17 DEF FillStands

\* Every fill stands alone.
LEMMA EveryFillStands ==
  ASSUME EngineInv, [EngineNext]_engineVars
  PROVE  FillStands
<1>1. ASSUME NoFill(tx, tx') PROVE FillStands BY <1>1 DEF NoFill, FillStands
<1>2. ASSUME NEW mode,
             \/ OutputRound(mode) \/ FundPool(mode) \/ PrepareBurst(mode)
             \/ PrepareManualBurst(mode) \/ SpamBurst(mode) \/ EndSpamBurst(mode)
      PROVE  FillStands
  BY <1>1, <1>2, ProvisioningAddsNone
<1>3. ASSUME NEW mode,
             \/ SendShape(mode) \/ Bump(mode) \/ ReconcileScan(mode) \/ ReconcileHeight(mode)
             \/ HarvestMinedFills(mode) \/ EndOutputRound \/ EndBump \/ EndFloorRound
             \/ BeginPrepare \/ Interrupted
      PROVE  FillStands
  BY <1>1, <1>3, SendingAddsNone
<1>4. CASE EngineStep
  <2>1. PICK mode \in Modes :
          \/ OutputRound(mode) \/ SendShape(mode) \/ EndOutputRound
          \/ Bump(mode) \/ EndBump
          \/ HarvestMinedFills(mode) \/ FundPool(mode) \/ SendBatch(mode) \/ EndFloorRound
          \/ ReconcileScan(mode) \/ ReconcileHeight(mode)
          \/ BeginPrepare \/ PrepareBurst(mode) \/ PrepareManualBurst(mode)
          \/ SpamBurst(mode) \/ EndSpamBurst(mode)
          \/ Interrupted
    BY <1>4 DEF EngineStep
  <2> QED BY <1>2, <1>3, <2>1, BatchStands
<1>5. CASE Mine \/ NodeEvicts \/ ChainMutated \/ ReconciliationAsked \/ EngineRestarts
  BY <1>1, <1>5, WorldAddsNone
<1>6. CASE UNCHANGED engineVars
  <2>1. tx' = tx BY <1>6 DEF engineVars
  <2> QED BY <2>1 DEF FillStands
<1> QED BY <1>4, <1>5, <1>6 DEF EngineNext

\* A fill spends confirmed coins only, so that it never hangs on the fate of another
\* transaction of the mempool, whatever happens to the pool.
THEOREM FillsStandAloneHolds == EngineSpec => FillsStandAlone
<1>1. EngineInv /\ [EngineNext]_engineVars => [FillStands]_engineVars BY EveryFillStands
<1>2. [][FillStands]_engineVars => FillsStandAlone BY DEF FillsStandAlone, FillStands
<1> QED BY <1>1, <1>2, EngineInvHolds, PTL DEF EngineSpec

(***************************************************************************)
(* A fan-out keeps the minimum: what each part of the provisioning does to *)
(* the number of usable branches.                                          *)
(***************************************************************************)
\* The transactions of t still have their outputs.
SameOuts(t, u) == \A i \in DOMAIN t : i \in DOMAIN u /\ u[i].outs = t[i].outs

\* The list b begins with the coins of a.
Continues(a, b) == Len(a) <= Len(b) /\ \A i \in DOMAIN a : i \in DOMAIN b /\ b[i] = a[i]

\* A longer list has at least as many usable coins, and more if a new one can pay.
LEMMA MoreUsable ==
  ASSUME NEW e, Books(e), NEW f, Books(f), SameOuts(e.tx, f.tx), Continues(e.utxos, f.utxos)
  PROVE  /\ Usable(f) >= Usable(e)
         /\ \A i \in Able(f) : i \notin DOMAIN e.utxos => Usable(f) >= Usable(e) + 1
<1>1. e.tx \in Seq(TxRecord) BY EngineFields DEF Books
<1>2. /\ Usable(e) = Cardinality(Able(e)) /\ IsFiniteSet(Able(e)) /\ Usable(e) \in Nat
      /\ Able(e) \subseteq DOMAIN e.utxos
      /\ \A i \in DOMAIN e.utxos : e.utxos[i] \in Coins(e.tx)
  BY UsableIs
<1>3. Usable(f) = Cardinality(Able(f)) /\ IsFiniteSet(Able(f)) /\ Usable(f) \in Nat BY UsableIs
<1>4. Able(e) \subseteq Able(f)
  <2>1. \A c \in Coins(e.tx) : c[1] \in DOMAIN e.tx BY <1>1, CoinIs
  <2>2. \A i \in DOMAIN e.utxos : Amount(f.tx, f.utxos[i]) = Amount(e.tx, e.utxos[i])
    BY <1>2, <2>1 DEF Amount, SameOuts, Continues
  <2> QED BY <1>2, <2>2 DEF Able, Continues
<1>5. Cardinality(Able(e)) <= Cardinality(Able(f)) BY <1>3, <1>4, FS_Subset
<1>6. ASSUME NEW i \in Able(f), i \notin DOMAIN e.utxos PROVE Usable(f) >= Usable(e) + 1
  <2> DEFINE A == Able(e) \cup {i}
  <2>1. Cardinality(A) = Cardinality(Able(e)) + 1 BY <1>2, <1>6, FS_AddElement
  <2>2. A \subseteq Able(f) BY <1>4
  <2> HIDE DEF A
  <2>3. Cardinality(A) <= Cardinality(Able(f)) BY <1>3, <2>2, FS_Subset
  <2>4. Cardinality(Able(e)) \in Nat BY <1>2
  <2> QED BY <1>2, <1>3, <2>1, <2>3, <2>4
<1> QED BY <1>2, <1>3, <1>5, <1>6

\* Taking one coin off the list costs one usable coin at most.
LEMMA OneFewer ==
  ASSUME NEW e, Books(e), NEW f, Books(f), SameOuts(e.tx, f.tx), NEW i \in DOMAIN e.utxos,
         f.utxos = RemoveAt(e.utxos, i)
  PROVE  Usable(f) + 1 >= Usable(e)
<1> DEFINE A == Able(e) \ {i}
           g == [k \in A |-> IF k < i THEN k ELSE k - 1]
<1>0. e.tx \in Seq(TxRecord) /\ e.utxos \in Seq(Place) BY EngineFields DEF Books
<1>1. /\ Usable(e) = Cardinality(Able(e)) /\ IsFiniteSet(Able(e)) /\ Usable(e) \in Nat
      /\ Able(e) \subseteq DOMAIN e.utxos /\ DOMAIN e.utxos = 1 .. Len(e.utxos)
      /\ Len(e.utxos) \in Nat
      /\ \A k \in DOMAIN e.utxos : e.utxos[k] \in Coins(e.tx)
  BY UsableIs
<1>2. /\ Usable(f) = Cardinality(Able(f)) /\ IsFiniteSet(Able(f)) /\ Usable(f) \in Nat
      /\ DOMAIN f.utxos = 1 .. Len(f.utxos)
  BY UsableIs
<1>3. /\ Len(f.utxos) = Len(e.utxos) - 1
      /\ \A k \in 1 .. Len(f.utxos) : f.utxos[k] = IF k < i THEN e.utxos[k] ELSE e.utxos[k + 1]
  <2>1. Len(f.utxos) = Len(e.utxos) - 1 /\ IsWithout(f.utxos, e.utxos, i)
    BY <1>0, RemoveAtIs
  <2> QED BY <2>1 DEF IsWithout
<1>4. \A c \in Coins(e.tx) : Amount(f.tx, c) = Amount(e.tx, c)
  <2>1. \A c \in Coins(e.tx) : c[1] \in DOMAIN e.tx BY <1>0, CoinIs
  <2> QED BY <2>1 DEF Amount, SameOuts
<1>5. \A k \in A : k \in 1 .. Len(e.utxos) /\ k # i /\ Amount(e.tx, e.utxos[k]) >= 1
  BY <1>1 DEF Able
<1>6. i \in 1 .. Len(e.utxos) BY <1>1
<1>7. ASSUME NEW k \in A PROVE (IF k < i THEN k ELSE k - 1) \in Able(f)
  <2>1. CASE k < i
    <3>1. k \in 1 .. Len(f.utxos) BY <1>1, <1>3, <1>5, <1>6, <2>1
    <3>2. f.utxos[k] = e.utxos[k] BY <1>3, <2>1, <3>1
    <3> QED BY <1>1, <1>2, <1>4, <1>5, <2>1, <3>1, <3>2 DEF Able
  <2>2. CASE ~(k < i)
    <3>1. k - 1 \in 1 .. Len(f.utxos) /\ ~(k - 1 < i) /\ (k - 1) + 1 = k
      BY <1>1, <1>3, <1>5, <1>6, <2>2
    <3>2. f.utxos[k - 1] = e.utxos[k] BY <1>3, <3>1
    <3> QED BY <1>1, <1>2, <1>4, <1>5, <2>2, <3>1, <3>2 DEF Able
  <2> QED BY <2>1, <2>2
<1>8. \A k \in A : g[k] = IF k < i THEN k ELSE k - 1 OBVIOUS
<1>9. g \in Injection(A, Able(f))
  <2>1. g \in [A -> Able(f)] BY <1>7
  <2>2. ASSUME NEW k \in A, NEW m \in A, g[k] = g[m] PROVE k = m
    <3>1. k \in Int /\ m \in Int /\ i \in Int /\ k # i /\ m # i BY <1>5, <1>6
    <3> HIDE DEF g, A
    <3> QED BY <1>8, <2>2, <3>1
  <2> HIDE DEF g
  <2> QED BY <2>1, <2>2 DEF Injection, IsInjective
<1> HIDE DEF g
<1>10. Cardinality(A) <= Cardinality(Able(f)) BY <1>2, <1>9, FS_Injection
<1>11. Cardinality(A) = Cardinality(Able(e)) - 1 \/ A = Able(e) BY <1>1, FS_RemoveElement
<1> HIDE DEF A
<1> QED BY <1>1, <1>2, <1>10, <1>11

\* What a pull leaves as it is.
LEMMA StartFundingUsable ==
  ASSUME NEW e, Books(e), NEW mode, NEW f, f = StartFunding(e, mode)
  PROVE  Books(f) /\ Grown(e.tx, f.tx) /\ f.fanout = e.fanout /\ Usable(f) >= Usable(e)
<1>1. Books(f) /\ Grown(e.tx, f.tx) BY StartFundingKeeps DEF Keeps
<1>2. SameOuts(e.tx, f.tx) BY <1>1 DEF Grown, SameOuts
<1>3. f.utxos = e.utxos /\ f.fanout = e.fanout
  <2> DEFINE t == Accepted(e.tx, "fund", {}, <<Pull>>, FALSE)
             L == e.lost \cup {<<Len(t), 1>>}
             p == [txid |-> Len(t), known |-> mode # "unknown"]
  <2>1. \/ f = e \/ f = [e EXCEPT !.tx = t, !.lost = L] \/ f = [e EXCEPT !.tx = t, !.funding = p]
    BY DEF StartFunding
  <2>2. e \in EngineRec BY DEF Books
  <2> HIDE DEF t, L, p
  <2> QED BY <2>1, <2>2 DEF EngineRec
<1>4. Continues(e.utxos, f.utxos)
  <2>1. Len(e.utxos) \in Nat BY UsableIs
  <2> QED BY <1>3, <2>1 DEF Continues
<1> QED BY <1>1, <1>2, <1>3, <1>4, MoreUsable

\* A list goes on.
LEMMA ContinuesLonger ==
  ASSUME NEW a \in Seq(Place), NEW b \in Seq(Place)
  PROVE  Continues(a, a \o b) /\ (\A c \in Place : Continues(a, Append(a, c))) /\ Continues(a, a)
<1>1. /\ Len(a) \in Nat /\ Len(b) \in Nat /\ DOMAIN a = 1 .. Len(a)
  OBVIOUS
<1>2. /\ Len(a \o b) = Len(a) + Len(b) /\ DOMAIN (a \o b) = 1 .. Len(a) + Len(b)
      /\ \A i \in 1 .. Len(a) + Len(b) : (a \o b)[i] = IF i <= Len(a) THEN a[i] ELSE b[i - Len(a)]
  <2>1. a \o b \in Seq(Place) OBVIOUS
  <2> QED BY <2>1, ConcatProperties
<1>3. Continues(a, a \o b) BY <1>1, <1>2 DEF Continues
<1>4. ASSUME NEW c \in Place PROVE Continues(a, Append(a, c))
  <2>1. /\ Len(Append(a, c)) = Len(a) + 1 /\ DOMAIN Append(a, c) = 1 .. Len(a) + 1
        /\ \A i \in 1 .. Len(a) : Append(a, c)[i] = a[i]
    OBVIOUS
  <2> QED BY <1>1, <2>1 DEF Continues
<1>5. Continues(a, a) BY <1>1 DEF Continues
<1> QED BY <1>3, <1>4, <1>5

\* The pending fan-out stays pending or is done with, and a funding whose coin is known
\* is found at the end of the coins.
LEMMA ReadyIs ==
  ASSUME NEW e, Books(e), NEW mode, NEW f, f = Ready(e, mode)
  PROVE  /\ f.fanout \in {0, e.fanout}
         /\ \A c \in FundingSeed(e, mode) :
              /\ Continues(Append(e.utxos, c), f.utxos) /\ c \in Place /\ f.tx = e.tx
<1> DEFINE a == AdvanceFunding(e)
           b == AdvanceFanout(a)
           taken == [e EXCEPT !.funding = NoFunding]
           out == <<e.funding.txid, 1>>
<1>0. e \in EngineRec /\ e.utxos \in Seq(Place) BY EngineFields DEF Books
<1>1. Books(a) BY AdvanceFundingKeeps DEF Keeps
<1>2. a \in EngineRec /\ a.utxos \in Seq(Place) /\ a.tx \in Seq(TxRecord)
  <2>1. a \in EngineRec BY <1>1 DEF Books
  <2> HIDE DEF a
  <2> QED BY <2>1, EngineFields
<1>3. /\ a.fanout = e.fanout
      /\ FundingConfirmed(e) /\ e.funding.known =>
           a.utxos = Append(e.utxos, out) /\ a.tx = e.tx /\ out \in Place
  <2>1. CASE ~FundingConfirmed(e) BY <2>1 DEF AdvanceFunding
  <2>2. CASE FundingConfirmed(e)
    <3>1. NoFunding \in [txid : Nat, known : BOOLEAN] BY PendingIs
    <3>2. Has(taken, e.tx, e.utxos, e.cursor, NoFunding, e.fanout, e.lost)
      BY <1>0, <3>1, EditFunding
    <3>3. taken \in EngineRec /\ taken.tx = e.tx /\ taken.utxos = e.utxos /\ taken.fanout = e.fanout
      BY <3>2 DEF Has
    <3> HIDE DEF taken
    <3>4. CASE ~e.funding.known
      <4>1. a = Resync(taken) BY <2>2, <3>4 DEF AdvanceFunding, taken
      <4>2. Ledger(taken.tx) BY <3>3 DEF Books
      <4> HIDE DEF a
      <4>3. a.fanout = taken.fanout BY <3>3, <4>1, <4>2, ResyncIs
      <4> QED BY <3>3, <3>4, <4>3
    <3>5. CASE e.funding.known
      <4> DEFINE s == Append(e.utxos, out)
      <4>1. a = [taken EXCEPT !.utxos = s]
        <5>1. a = [taken EXCEPT !.utxos = Append(@, out)] BY <2>2, <3>5 DEF AdvanceFunding, taken
        <5> HIDE DEF out, a
        <5> QED BY <3>3, <5>1
      <4>2. out \in Place
        <5>1. e.funding.txid \in Nat BY <1>0, EngineFields
        <5> QED BY <5>1 DEF Place
      <4> HIDE DEF out
      <4>3. s \in Seq(Place) BY <1>0, <4>2, OneMoreCoin
      <4> HIDE DEF s, a
      <4>4. Has(a, taken.tx, s, taken.cursor, taken.funding, taken.fanout, taken.lost)
        BY <3>3, <4>1, <4>3, EditCoins
      <4> QED BY <3>3, <4>2, <4>4 DEF Has, s
    <3> QED BY <3>4, <3>5
  <2> QED BY <2>1, <2>2
<1> HIDE DEF a
<1>4. b.fanout \in {0, a.fanout} /\ Continues(a.utxos, b.utxos) /\ b.tx = a.tx
  <2>1. CASE ~FanoutConfirmed(a)
    <3>1. b = a BY <2>1 DEF AdvanceFanout
    <3> QED BY <1>2, <3>1, ContinuesLonger
  <2>2. CASE FanoutConfirmed(a)
    <3> DEFINE x == Outputs(a.fanout, a.tx[a.fanout].outs)
               s == a.utxos \o x
               joined == [a EXCEPT !.fanout = 0, !.utxos = s]
    <3>1. a.fanout \in DOMAIN a.tx
      <4>1. a.fanout # 0 BY <2>2 DEF FanoutConfirmed
      <4> QED BY <1>1, <4>1, PendingIs
    <3>2. x \in Seq(Place) BY <1>2, <3>1, OutputsAre
    <3>3. b = Wrapped(joined) BY <2>2 DEF AdvanceFanout
    <3> HIDE DEF x, b
    <3>4. s \in Seq(Place) /\ Continues(a.utxos, s) BY <1>2, <3>2, ContinuesLonger, MoreCoins
    <3> HIDE DEF s
    <3>5. Has(joined, a.tx, s, a.cursor, a.funding, 0, a.lost) BY <1>2, <3>4, EditFanoutCoins
    <3>6. joined \in EngineRec BY <3>5 DEF Has
    <3> HIDE DEF joined
    <3>7. Has(b, joined.tx, joined.utxos, b.cursor, joined.funding, joined.fanout, joined.lost)
      BY <3>3, <3>6, WrappedIs
    <3> QED BY <3>4, <3>5, <3>7 DEF Has
  <2> QED BY <2>1, <2>2
<1>5. Books(b) BY <1>1, AdvanceFanoutKeeps DEF Keeps
<1> HIDE DEF b
<1>6. \A g : Books(g) => ResyncIfBroke(g).fanout = g.fanout
  <2>1. SUFFICES ASSUME NEW g, Books(g) PROVE ResyncIfBroke(g).fanout = g.fanout OBVIOUS
  <2>2. Resync(g).fanout = g.fanout BY <2>1, ResyncIs DEF Books
  <2> QED BY <2>2 DEF ResyncIfBroke
<1>7. CASE mode = "read"
  <2>1. f = ResyncIfBroke(e) BY <1>7 DEF Ready, AdvanceProvisioning
  <2>2. FundingSeed(e, mode) = {} BY <1>7 DEF FundingSeed
  <2> QED BY <1>6, <2>1, <2>2
<1>8. CASE mode # "read"
  <2>1. f = ResyncIfBroke(b) BY <1>8 DEF Ready, AdvanceProvisioning, a, b
  <2>2. f.fanout \in {0, e.fanout} BY <1>3, <1>4, <1>5, <1>6, <2>1
  <2>3. ASSUME NEW c \in FundingSeed(e, mode)
        PROVE  Continues(Append(e.utxos, c), f.utxos) /\ c \in Place /\ f.tx = e.tx
    <3>1. FundingConfirmed(e) /\ e.funding.known /\ c = out BY <2>3 DEF FundingSeed
    <3>2. a.utxos = Append(e.utxos, c) /\ a.tx = e.tx /\ c \in Place BY <1>3, <3>1
    <3>3. b.utxos # <<>>
      <4>1. Len(a.utxos) = Len(e.utxos) + 1 /\ Len(e.utxos) \in Nat BY <1>0, <3>2, OneMoreCoin
      <4>2. Len(b.utxos) # 0 BY <1>4, <4>1 DEF Continues
      <4> QED BY <4>2
    <3>4. f = b BY <2>1, <3>3 DEF ResyncIfBroke
    <3> QED BY <1>4, <3>2, <3>4
  <2> QED BY <2>2, <2>3
<1> QED BY <1>7, <1>8

\* A fan-out that e did not wait for leaves the minimum, or as many branches as were
\* found.
LeavesMinimum(e, f, need) ==
  f.fanout \notin {0, e.fanout} => Usable(f) >= MinOf(need, Usable(e))

\* A new fan-out leaves the minimum.
LEMMA EnsureFundsLeaves ==
  ASSUME NEW e, Books(e), NEW need \in Nat, NEW target \in Nat, target + 1 <= MaxOuts,
         NEW mode, NEW f, f = EnsureFunds(e, need, target, mode)
  PROVE  LeavesMinimum(e, f, need)
<1> DEFINE seed == FundingSeed(e, mode)
           ready == Ready(e, mode)
           low == Total(ready) < target * BranchMin
           refilled == IF low THEN StartFunding(ready, mode) ELSE ready
           action == BranchProvisioningAction(Usable(ready), need, target,
                                              refilled.fanout # 0, seed # {})
           split == StartFanout(refilled, need, target, seed, mode)
<1>1. Keeps(e, ready) BY ReadyKeeps
<1>2. Books(ready) /\ Grown(e.tx, ready.tx) BY <1>1 DEF Keeps
<1>3. /\ ready.fanout \in {0, e.fanout}
      /\ \A c \in seed : /\ Continues(Append(e.utxos, c), ready.utxos) /\ c \in Place
                         /\ ready.tx = e.tx
  BY ReadyIs
<1>4. f = CASE action = "StartFunding" -> StartFunding(refilled, mode)
            [] action = "StartFanout" ->
                 (IF split.fanout # 0 THEN split ELSE StartFunding(split, mode))
            [] OTHER -> refilled
  BY DEF EnsureFunds, Ready
<1> HIDE DEF ready, low
<1>5. Books(refilled) /\ Grown(ready.tx, refilled.tx) /\ refilled.fanout = ready.fanout
      /\ Usable(refilled) >= Usable(ready)
  <2>1. CASE low
    <3> DEFINE g == StartFunding(ready, mode)
    <3>1. Books(g) /\ Grown(ready.tx, g.tx) /\ g.fanout = ready.fanout /\ Usable(g) >= Usable(ready)
      BY <1>2, StartFundingUsable
    <3> HIDE DEF g
    <3>2. refilled = g BY <2>1 DEF g
    <3> HIDE DEF refilled
    <3> QED BY <3>1, <3>2
  <2>2. CASE ~low
    <3>1. refilled = ready BY <2>2
    <3>2. Usable(ready) \in Nat BY <1>2, UsableIs
    <3>3. Grown(ready.tx, ready.tx) BY <1>2, KeepsSelf DEF Keeps
    <3> HIDE DEF refilled
    <3> QED BY <1>2, <3>1, <3>2, <3>3
  <2> QED BY <2>1, <2>2
<1>6. f = StartFunding(refilled, mode) \/ f = split \/ f = StartFunding(split, mode) \/ f = refilled
  <2> HIDE DEF action, refilled, split
  <2> QED BY <1>4
<1> HIDE DEF refilled, action, seed
<1>7. Keeps(refilled, split) /\ (split = refilled \/ split.fanout = refilled.fanout
                                   \/ TakesOne(refilled, split, need, seed))
  BY <1>5, StartFanoutKeeps
<1>8. Books(split) /\ Grown(refilled.tx, split.tx) BY <1>7 DEF Keeps
<1> HIDE DEF split
<1>9. SUFFICES ASSUME f.fanout \notin {0, e.fanout} PROVE Usable(f) >= MinOf(need, Usable(e))
  BY DEF LeavesMinimum
<1>10. ASSUME NEW g, Books(g), NEW h, h = StartFunding(g, mode)
       PROVE  h.fanout = g.fanout /\ Usable(h) >= Usable(g) /\ Books(h)
  BY <1>10, StartFundingUsable
<1>11. /\ f.fanout = split.fanout /\ Usable(f) >= Usable(split) /\ Usable(f) \in Nat
       /\ TakesOne(refilled, split, need, seed)
  <2>1. Usable(split) \in Nat BY <1>8, UsableIs
  <2>2. f.fanout # refilled.fanout BY <1>3, <1>5, <1>9
  <2>3. f = split \/ f = StartFunding(split, mode) BY <1>5, <1>6, <1>10, <2>2
  <2>4. f.fanout = split.fanout /\ Usable(f) >= Usable(split) /\ Books(f)
    BY <1>8, <1>10, <2>1, <2>3
  <2>5. Usable(f) \in Nat BY <2>4, UsableIs
  <2> QED BY <1>7, <2>2, <2>4, <2>5
<1>12. PICK i \in Able(refilled) : /\ refilled.utxos[i] \in seed \/ Usable(refilled) > need
                                   /\ split.utxos = RemoveAt(refilled.utxos, i)
  BY <1>11 DEF TakesOne
<1>13. Usable(split) + 1 >= Usable(refilled)
  <2>1. SameOuts(refilled.tx, split.tx) BY <1>8 DEF Grown, SameOuts
  <2>2. i \in DOMAIN refilled.utxos BY DEF Able
  <2> QED BY <1>5, <1>8, <1>12, <2>1, <2>2, OneFewer
<1>14. /\ Usable(e) \in Nat /\ Usable(ready) \in Nat /\ Usable(refilled) \in Nat
       /\ Usable(split) \in Nat
  BY <1>2, <1>5, <1>8, UsableIs
<1>15. CASE Usable(refilled) > need
  <2>1. Usable(f) >= need BY <1>11, <1>13, <1>14, <1>15
  <2> QED BY <1>11, <1>14, <2>1 DEF MinOf
<1>16. CASE refilled.utxos[i] \in seed
  <2> DEFINE c == refilled.utxos[i]
             a == Append(e.utxos, c)
             n == Len(e.utxos) + 1
  <2>1. Continues(a, ready.utxos) /\ c \in Place /\ ready.tx = e.tx BY <1>3, <1>16
  <2>2. Amount(refilled.tx, c) >= 1 BY DEF Able
  <2> HIDE DEF c
  <2>3. e.utxos \in Seq(Place) /\ e.tx \in Seq(TxRecord) BY EngineFields DEF Books
  <2>4. /\ Len(e.utxos) \in Nat /\ Len(a) = n /\ DOMAIN a = 1 .. n /\ a[n] = c
        /\ DOMAIN e.utxos = 1 .. Len(e.utxos) /\ \A k \in 1 .. Len(e.utxos) : a[k] = e.utxos[k]
    BY <2>1, <2>3
  <2> HIDE DEF a
  <2>5. Continues(e.utxos, ready.utxos) /\ n \in DOMAIN ready.utxos /\ ready.utxos[n] = c
    <3>1. Len(ready.utxos) \in Nat BY <1>2, UsableIs
    <3> QED BY <2>1, <2>4, <3>1 DEF Continues
  <2>6. Amount(ready.tx, c) >= 1
    <3>1. c \in Coins(ready.tx) BY <1>2, <2>5, UsableIs
    <3>2. ready.tx \in Seq(TxRecord) BY <2>1, <2>3
    <3>3. c[1] \in DOMAIN ready.tx BY <3>1, <3>2, CoinIs
    <3> QED BY <1>5, <2>2, <3>3 DEF Grown, Amount
  <2>7. n \in Able(ready) /\ n \notin DOMAIN e.utxos BY <2>4, <2>5, <2>6 DEF Able
  <2>8. SameOuts(e.tx, ready.tx) BY <1>2 DEF Grown, SameOuts
  <2>9. Usable(ready) >= Usable(e) + 1 BY <1>2, <2>5, <2>7, <2>8, MoreUsable
  <2>10. Usable(f) >= Usable(e) BY <1>5, <1>11, <1>13, <1>14, <2>9
  <2> QED BY <1>11, <1>14, <2>10 DEF MinOf
<1> QED BY <1>12, <1>15, <1>16

\* The action of FanoutKeepsMinimum.
LeavesBranches ==
  fanout' \notin {0, fanout} /\ owner # "floor" =>
    LET found == IF doing = "send" THEN Reconciled(Now, "ok") ELSE Now
        need == IF owner = "output" THEN MinOf(Share, Fanout)
                ELSE IF doing = "send" THEN MinOf(round.left, BurstTxs) ELSE BurstTxs
    IN  Usable(Now)' >= MinOf(need, Usable(found))

\* The minimum of two numbers is one of them.
LEMMA MinOfIs ==
  ASSUME NEW m \in Nat, NEW n \in Nat
  PROVE  MinOf(m, n) \in Nat
BY DEF MinOf

\* A provisioning call that becomes the next state leaves the minimum.
LEMMA LeavingStep ==
  ASSUME NEW e, Books(e), NEW need \in Nat, NEW target \in Nat, target + 1 <= MaxOuts, NEW mode,
         Becomes(EnsureFunds(e, need, target, mode)), fanout' \notin {0, e.fanout}
  PROVE  Usable(Now)' >= MinOf(need, Usable(e))
<1> DEFINE f == EnsureFunds(e, need, target, mode)
<1>1. LeavesMinimum(e, f, need) BY EnsureFundsLeaves
<1>2. Books(f) BY EnsureFundsKeeps DEF Keeps
<1> HIDE DEF f
<1>3. f \in EngineRec BY <1>2 DEF Books
<1>4. Becomes(f) BY DEF f
<1>5. Now' = f /\ fanout' = f.fanout BY <1>3, <1>4, BecomesIs DEF Becomes
<1>6. Usable(f) >= MinOf(need, Usable(e)) BY <1>1, <1>5 DEF LeavesMinimum
<1>7. Usable(Now)' = Usable(f) BY <1>5 DEF Usable
<1> QED BY <1>6, <1>7

\* The rounds that begin, and a preparation.
LEMMA ProvisioningLeaves ==
  ASSUME EngineInv, NEW mode,
         \/ OutputRound(mode) \/ PrepareBurst(mode) \/ SpamBurst(mode) \/ EndSpamBurst(mode)
  PROVE  LeavesBranches
<1>1. Books(Now) /\ Now.fanout = fanout BY NowIs DEF EngineInv
<1>2. Share \in Nat /\ Fanout \in Nat /\ BurstTxs \in Nat BY EngineConstants
<1>3. SUFFICES ASSUME fanout' \notin {0, fanout}
               PROVE  LET found == IF doing = "send" THEN Reconciled(Now, "ok") ELSE Now
                          need == IF owner = "output" THEN MinOf(Share, Fanout)
                                  ELSE IF doing = "send" THEN MinOf(round.left, BurstTxs)
                                  ELSE BurstTxs
                      IN  Usable(Now)' >= MinOf(need, Usable(found))
  BY DEF LeavesBranches
<1>4. CASE OutputRound(mode)
  <2>1. /\ owner = "output" /\ doing = "idle"
        /\ Becomes(EnsureFunds(Now, MinOf(Share, Fanout), Fanout, mode))
    BY <1>4 DEF OutputRound, Spend, BeginSending
  <2>2. MinOf(Share, Fanout) \in Nat BY <1>2, MinOfIs
  <2>3. Usable(Now)' >= MinOf(MinOf(Share, Fanout), Usable(Now))
    BY <1>1, <1>3, <2>1, <2>2, Targets, LeavingStep
  <2> QED BY <2>1, <2>3
<1>5. CASE PrepareBurst(mode) \/ SpamBurst(mode)
  <2>1. /\ owner = "burst" /\ doing # "send"
        /\ Becomes(EnsureFunds(Now, BurstTxs, BurstTxs, mode))
    BY <1>5 DEF PrepareBurst, SpamBurst, Spend, BeginSending, EngineInv, WhoDoes
  <2>3. Usable(Now)' >= MinOf(BurstTxs, Usable(Now))
    BY <1>1, <1>2, <1>3, <2>1, Targets, LeavingStep
  <2> QED BY <2>1, <2>3
<1>6. CASE EndSpamBurst(mode)
  <2> DEFINE e == Reconciled(Now, "ok")
             need == MinOf(round.left, BurstTxs)
  <2>1. /\ owner = "burst" /\ doing = "send"
        /\ fanout' = fanout \/ Becomes(EnsureFunds(e, need, BurstTxs, "ok"))
    BY <1>6 DEF EndSpamBurst, SendingEnds, Spend, BeginSending
  <2>2. Books(e) /\ e.fanout \in {0, Now.fanout} BY <1>1, ReconciledKeeps
  <2>3. need \in Nat
    <3>1. round.left \in Nat BY DEF EngineInv, EngineTypes, RoundRec
    <3> QED BY <1>2, <3>1, MinOfIs
  <2> HIDE DEF e, need
  <2>4. fanout' \notin {0, e.fanout} BY <1>1, <1>3, <2>2
  <2>5. Usable(Now)' >= MinOf(need, Usable(e))
    BY <1>3, <2>1, <2>2, <2>3, <2>4, Targets, LeavingStep
  <2> QED BY <2>1, <2>5 DEF e, need
<1> QED BY <1>4, <1>5, <1>6

\* A preparation on demand, whose block moves no coin.
LEMMA PrepareManualLeaves ==
  ASSUME EngineInv, NEW mode, PrepareManualBurst(mode)
  PROVE  LeavesBranches
<1> DEFINE f == EnsureFunds(Now, BurstTxs, BurstTxs, mode)
           w == Mined(f.tx, {})
           g == [f EXCEPT !.tx = w]
<1>1. Books(Now) /\ Now.fanout = fanout BY NowIs DEF EngineInv
<1>2. BurstTxs \in Nat BY EngineConstants
<1>3. owner = "burst" /\ doing # "send" /\ (Becomes(f) \/ Becomes(g))
  BY DEF PrepareManualBurst, Spend, EngineInv, WhoDoes
<1>4. SUFFICES ASSUME fanout' \notin {0, fanout}
               PROVE  Usable(Now)' >= MinOf(BurstTxs, Usable(Now))
  BY <1>3 DEF LeavesBranches
<1>5. CASE Becomes(f) BY <1>1, <1>2, <1>4, <1>5, Targets, LeavingStep
<1>6. CASE Becomes(g)
  <2>1. LeavesMinimum(Now, f, BurstTxs) BY <1>1, <1>2, Targets, EnsureFundsLeaves
  <2>2. Books(f) BY <1>1, <1>2, Targets, EnsureFundsKeeps DEF Keeps
  <2>3. w = Mined(f.tx, {}) OBVIOUS
  <2> HIDE DEF f
  <2>4. f \in EngineRec BY <2>2 DEF Books
  <2>5. f.tx \in Seq(TxRecord) BY <2>4, EngineFields
  <2>6. height \in Nat BY DEF EngineInv, EngineTypes
  <2> HIDE DEF w
  <2>7. Changed(f.tx, w) BY <2>3, <2>5, <2>6, MinedIs
  <2>8. w \in Seq(TxRecord) BY <2>7 DEF Changed
  <2>9. Has(g, w, f.utxos, f.cursor, f.funding, f.fanout, f.lost) BY <2>4, <2>8, EditTx
  <2>10. g \in EngineRec /\ g.tx = w /\ g.utxos = f.utxos /\ g.fanout = f.fanout
    BY <2>9 DEF Has
  <2> HIDE DEF g
  <2>11. Now' = g /\ fanout' = g.fanout BY <1>6, <2>10, BecomesIs DEF Becomes
  <2>12. Books(g)
    <3>1. EngineInv' BY PrepareManualBurstInv
    <3>2. Books(Now)' BY <3>1 DEF EngineInv
    <3> QED BY <2>11, <3>2
  <2>13. Usable(f) >= MinOf(BurstTxs, Usable(Now)) /\ MinOf(BurstTxs, Usable(Now)) \in Nat
    <3>1. Usable(Now) \in Nat BY <1>1, UsableIs
    <3>2. MinOf(BurstTxs, Usable(Now)) \in Nat BY <1>2, <3>1, MinOfIs
    <3> QED BY <1>1, <1>4, <2>1, <2>10, <2>11, <3>2 DEF LeavesMinimum
  <2>14. Usable(g) >= Usable(f) /\ Usable(g) \in Nat /\ Usable(f) \in Nat
    <3>1. SameOuts(f.tx, g.tx) BY <2>7, <2>10 DEF Changed, SameOuts
    <3>2. Len(f.utxos) \in Nat BY <2>2, UsableIs
    <3>3. Continues(f.utxos, g.utxos) BY <2>10, <3>2 DEF Continues
    <3> QED BY <2>2, <2>12, <3>1, <3>3, MoreUsable, UsableIs
  <2>15. Usable(Now)' = Usable(g) BY <2>11 DEF Usable
  <2> QED BY <2>13, <2>14, <2>15
<1> QED BY <1>3, <1>5, <1>6

\* No other step starts a fan-out for a round.
LEMMA NoOtherFanout ==
  ASSUME EngineInv, NEW mode,
         \/ SendShape(mode) \/ Bump(mode) \/ ReconcileScan(mode) \/ ReconcileHeight(mode)
         \/ HarvestMinedFills(mode) \/ SendBatch(mode) \/ EndOutputRound \/ EndBump
         \/ EndFloorRound \/ BeginPrepare \/ Interrupted \/ FundPool(mode)
         \/ Mine \/ NodeEvicts \/ ChainMutated \/ ReconciliationAsked \/ EngineRestarts
         \/ UNCHANGED engineVars
  PROVE  LeavesBranches
<1>1. CASE ReconcileScan(mode)
  <2>1. fanout' = fanout \/ fanout' = Reconciled(Now, mode).fanout
    BY <1>1 DEF ReconcileScan, Becomes, engine
  <2>2. Reconciled(Now, mode).fanout \in {0, Now.fanout} BY ReconciledKeeps DEF EngineInv
  <2> QED BY <2>1, <2>2, NowIs DEF LeavesBranches
<1>2. CASE FundPool(mode)
  <2>1. owner = "floor" BY <1>2 DEF FundPool, EngineInv, WhoDoes
  <2> QED BY <2>1 DEF LeavesBranches
<1>3. CASE \/ SendShape(mode) \/ Bump(mode) \/ ReconcileHeight(mode)
           \/ HarvestMinedFills(mode) \/ SendBatch(mode) \/ EndOutputRound \/ EndBump
           \/ EndFloorRound \/ BeginPrepare \/ Interrupted
  <2>1. fanout' = fanout
    BY <1>3 DEF SendShape, Bump, ReconcileHeight, HarvestMinedFills, SendBatch, EndOutputRound,
                EndBump, EndFloorRound, BeginPrepare, Interrupted, engine
  <2> QED BY <2>1 DEF LeavesBranches
<1>4. CASE \/ Mine \/ NodeEvicts \/ ChainMutated \/ ReconciliationAsked \/ EngineRestarts
           \/ UNCHANGED engineVars
  <2>1. fanout' \in {0, fanout}
    BY <1>4 DEF Mine, NodeEvicts, ChainMutated, ReconciliationAsked, EngineRestarts, engine,
                engineVars
  <2> QED BY <2>1 DEF LeavesBranches
<1> QED BY <1>1, <1>2, <1>3, <1>4

\* Every step leaves the minimum.
LEMMA EveryFanoutLeaves ==
  ASSUME EngineInv, [EngineNext]_engineVars
  PROVE  LeavesBranches
<1>1. CASE EngineStep
  <2>1. PICK mode \in Modes :
          \/ OutputRound(mode) \/ SendShape(mode) \/ EndOutputRound
          \/ Bump(mode) \/ EndBump
          \/ HarvestMinedFills(mode) \/ FundPool(mode) \/ SendBatch(mode) \/ EndFloorRound
          \/ ReconcileScan(mode) \/ ReconcileHeight(mode)
          \/ BeginPrepare \/ PrepareBurst(mode) \/ PrepareManualBurst(mode)
          \/ SpamBurst(mode) \/ EndSpamBurst(mode)
          \/ Interrupted
    BY <1>1 DEF EngineStep
  <2> QED BY <2>1, ProvisioningLeaves, PrepareManualLeaves, NoOtherFanout
<1>2. CASE \/ Mine \/ NodeEvicts \/ ChainMutated \/ ReconciliationAsked \/ EngineRestarts
           \/ UNCHANGED engineVars
  BY <1>2, NoOtherFanout
<1> QED BY <1>1, <1>2 DEF EngineNext

\* A fan-out toward the preferred number of branches leaves a round its minimum.
THEOREM FanoutKeepsMinimumHolds == EngineSpec => FanoutKeepsMinimum
<1>1. EngineInv /\ [EngineNext]_engineVars => [LeavesBranches]_engineVars BY EveryFanoutLeaves
<1>2. [][LeavesBranches]_engineVars => FanoutKeepsMinimum
  BY DEF FanoutKeepsMinimum, LeavesBranches
<1> QED BY <1>1, <1>2, EngineInvHolds, PTL DEF EngineSpec

(***************************************************************************)
(* A fee bump orphans nothing: what chained off the change of a            *)
(* transaction the round has sent, as long as that change is still listed, *)
(* is one transaction whose answer was lost.                               *)
(***************************************************************************)
\* The change of j was hidden from the engine, and nothing is known to spend from j.
Childless(t, s, L, j) ==
  /\ <<j, 1>> \in L /\ \A c \in Range(s) : c[1] # j
  /\ \A i \in DOMAIN t : \A c \in t[i].ins : c[1] # j

\* The list s holds the coin o once at most.
Once(s, o) == \A p, q \in DOMAIN s : s[p] = o /\ s[q] = o => p = q

\* What spends the change of a, if it is still listed, is childless.
Tip(t, s, L, a) ==
  /\ Once(s, <<a, 1>>)
  /\ <<a, 1>> \in Range(s) => \A j \in DOMAIN t : <<a, 1>> \in t[j].ins => Childless(t, s, L, j)

\* So it is for all that the round has sent.
Tips == \A x \in DOMAIN round.sent : Tip(tx, utxos, lost, round.sent[x])

\* The inductive invariant with it.
BranchInv == EngineInv /\ Tips

\* Where nothing was sent there is nothing to show.
LEMMA NoTips ==
  ASSUME (round.sent)' = <<>>
  PROVE  Tips'
<1>1. DOMAIN <<>> = {} OBVIOUS
<1> QED BY <1>1 DEF Tips

\* A round that sends nothing has sent nothing.
LEMMA NothingSent ==
  ASSUME EngineInv', doing' \notin {"send", "bump"}
  PROVE  Tips'
<1>1. (round.sent)' = <<>> BY DEF EngineInv, SentLater
<1> QED BY <1>1, NoTips

\* The transactions spend what they spent.
SameIns(t, u) == DOMAIN u = DOMAIN t /\ \A i \in DOMAIN t : u[i].ins = t[i].ins

\* A tip of the same coins and transactions, where more may be hidden.
LEMMA TipStays ==
  ASSUME NEW t, NEW u, SameIns(t, u), NEW s, NEW r, Range(r) \subseteq Range(s),
         NEW L, NEW M, L \subseteq M, NEW a, Tip(t, s, L, a), Once(r, <<a, 1>>)
  PROVE  Tip(u, r, M, a)
<1> DEFINE o == <<a, 1>>
<1>1. \A j \in DOMAIN t : Childless(t, s, L, j) => Childless(u, r, M, j)
  BY DEF Childless, SameIns
<1>2. o \in Range(s) => \A j \in DOMAIN t : o \in t[j].ins => Childless(t, s, L, j) BY DEF Tip
<1> HIDE DEF o
<1>3. o \in Range(r) => \A j \in DOMAIN u : o \in u[j].ins => Childless(u, r, M, j)
  BY <1>1, <1>2 DEF SameIns
<1> QED BY <1>3 DEF Tip, o

\* The coin is still listed once at most when another one is dropped.
LEMMA OnceWithout ==
  ASSUME NEW s \in Seq(Place), NEW i \in DOMAIN s, NEW r, r = RemoveAt(s, i), NEW o, Once(s, o)
  PROVE  Once(r, o)
<1>1. /\ r \in Seq(Place) /\ Len(r) = Len(s) - 1 /\ Len(s) \in Nat /\ Len(r) \in Nat
      /\ IsWithout(r, s, i)
  BY RemoveAtIs
<1>2. DOMAIN r = 1 .. Len(r) /\ DOMAIN s = 1 .. Len(s) /\ i \in 1 .. Len(s) BY <1>1
<1>3. ASSUME NEW p \in DOMAIN r, NEW q \in DOMAIN r, r[p] = o, r[q] = o PROVE p = q
  <2> DEFINE up(k) == IF k < i THEN k ELSE k + 1
  <2>1. \A k \in DOMAIN r : up(k) \in DOMAIN s BY <1>1, <1>2
  <2>2. \A k \in DOMAIN r : r[k] = s[up(k)] BY <1>2, <1>1 DEF IsWithout
  <2>3. up(p) = up(q)
    <3> HIDE DEF up
    <3> QED BY <1>3, <2>1, <2>2 DEF Once
  <2> QED BY <1>1, <1>2, <2>3
<1> QED BY <1>3 DEF Once

\* u is t with one more transaction, n, that spends ins; nothing spends from n.
OneMore(t, u, n, ins) ==
  /\ n \notin DOMAIN t /\ u[n].ins = ins
  /\ \A i \in DOMAIN t : i \in DOMAIN u /\ u[i].ins = t[i].ins
  /\ \A i \in DOMAIN u : (i = n \/ i \in DOMAIN t) /\ \A c \in u[i].ins : c[1] # n

\* A transaction that spends ins spends from nothing childless.
SpendsListed(t, s, L, ins) == \A j \in DOMAIN t : Childless(t, s, L, j) => \A c \in ins : c[1] # j

\* The spender of a listed tip is hidden.
SpendsHidden(r, M, n, ins, o) ==
  o \in Range(r) /\ o \in ins => <<n, 1>> \in M /\ \A c \in Range(r) : c[1] # n

\* A tip survives another transaction.
LEMMA TipSurvives ==
  ASSUME NEW t, NEW u, NEW n, NEW ins, OneMore(t, u, n, ins), NEW s, NEW r,
         Range(r) \subseteq Range(s) \cup {<<n, 1>>}, NEW L, NEW M, L \subseteq M,
         NEW a, a \in DOMAIN t, Tip(t, s, L, a), Once(r, <<a, 1>>),
         SpendsListed(t, s, L, ins), SpendsHidden(r, M, n, ins, <<a, 1>>)
  PROVE  Tip(u, r, M, a)
<1> DEFINE o == <<a, 1>>
           w == <<n, 1>>
<1>1. w[1] = n /\ o # w /\ n \notin DOMAIN t BY DEF OneMore
<1>2. o \in Range(s) => \A j \in DOMAIN t : o \in t[j].ins => Childless(t, s, L, j) BY DEF Tip
<1>3. o \in Range(r) /\ o \in ins => w \in M /\ \A c \in Range(r) : c[1] # n BY DEF SpendsHidden
<1>4. Range(r) \subseteq Range(s) \cup {w} OBVIOUS
<1> HIDE DEF o, w
<1>5. ASSUME NEW j \in DOMAIN t, Childless(t, s, L, j) PROVE Childless(u, r, M, j)
  <2>1. <<j, 1>> \in M BY <1>5 DEF Childless
  <2>2. \A c \in Range(r) : c[1] # j
    <3>1. \A c \in Range(s) : c[1] # j BY <1>5 DEF Childless
    <3> QED BY <1>1, <1>4, <3>1
  <2>3. \A i \in DOMAIN u : \A c \in u[i].ins : c[1] # j
    <3>1. \A c \in ins : c[1] # j BY <1>5 DEF SpendsListed
    <3>2. \A i \in DOMAIN t : \A c \in t[i].ins : c[1] # j BY <1>5 DEF Childless
    <3> QED BY <3>1, <3>2 DEF OneMore
  <2> QED BY <2>1, <2>2, <2>3 DEF Childless
<1>6. ASSUME o \in Range(r), o \in ins PROVE Childless(u, r, M, n)
  BY <1>3, <1>6 DEF Childless, OneMore, w
<1>7. ASSUME o \in Range(r), NEW j \in DOMAIN u, o \in u[j].ins PROVE Childless(u, r, M, j)
  <2>1. o \in Range(s) BY <1>1, <1>4, <1>7
  <2>2. CASE j = n BY <1>6, <1>7, <2>2 DEF OneMore
  <2>3. CASE j \in DOMAIN t
    <3>1. o \in t[j].ins BY <1>7, <2>3 DEF OneMore
    <3> QED BY <1>2, <1>5, <2>1, <2>3, <3>1
  <2> QED BY <1>7, <2>2, <2>3 DEF OneMore
<1> QED BY <1>7 DEF Tip, o

\* The change of the new transaction is a tip.
LEMMA TipBegins ==
  ASSUME NEW t, NEW u, NEW n, NEW ins, OneMore(t, u, n, ins), NEW r, NEW M, Once(r, <<n, 1>>)
  PROVE  Tip(u, r, M, n)
<1>1. <<n, 1>>[1] = n OBVIOUS
<1> QED BY <1>1 DEF Tip, OneMore

\* r lists what s does, with the change of n in the place i.
HandedOn(s, r, i, n) ==
  /\ Range(r) \subseteq Range(s) \cup {<<n, 1>>}
  /\ \A o : o # <<n, 1>> /\ Once(s, o) => Once(r, o)
  /\ \A o : o # <<n, 1>> /\ o = s[i] /\ Once(s, o) => o \notin Range(r)
  /\ (\A c \in Range(s) : c[1] # n) => Once(r, <<n, 1>>)

\* A coin exchanged for the change of the new transaction.
LEMMA OnceExchanged ==
  ASSUME NEW s \in Seq(Place), NEW i \in DOMAIN s, NEW n \in Nat,
         NEW r, r = [s EXCEPT ![i] = <<n, 1>>]
  PROVE  HandedOn(s, r, i, n)
<1> DEFINE w == <<n, 1>>
<1>0. w \in Place /\ w[1] = n BY DEF Place
<1> HIDE DEF w
<1>1. Exchanged(r, s, i, w) BY <1>0, ExchangedCoin DEF w
<1>2. /\ DOMAIN r = DOMAIN s /\ Range(r) \subseteq Range(s) \cup {w}
      /\ r[i] = w /\ \A k \in DOMAIN s : k # i => r[k] = s[k]
  BY <1>1 DEF Exchanged
<1>3. ASSUME NEW o, o # w, Once(s, o) PROVE Once(r, o) BY <1>2, <1>3 DEF Once
<1>4. ASSUME NEW o, o # w, o = s[i], Once(s, o) PROVE o \notin Range(r)
  <2>1. SUFFICES ASSUME NEW k \in DOMAIN r, r[k] = o PROVE FALSE BY DEF Range
  <2>2. k # i BY <1>2, <1>4, <2>1
  <2>3. s[k] = o /\ k \in DOMAIN s BY <1>2, <2>1, <2>2
  <2> QED BY <1>4, <2>2, <2>3 DEF Once
<1>5. ASSUME \A c \in Range(s) : c[1] # n PROVE Once(r, w)
  <2>1. \A k \in DOMAIN s : s[k] # w BY <1>0, <1>5 DEF Range
  <2> QED BY <1>2, <2>1 DEF Once
<1> QED BY <1>2, <1>3, <1>4, <1>5 DEF w, HandedOn

\* A submission to the ledger is one more transaction.
LEMMA SubmittedOne ==
  ASSUME NEW t, Ledger(t), NEW u, NEW sort, NEW ins, NEW outs, Submitted(t, u, sort, ins, outs),
         ins \subseteq Coins(t)
  PROVE  OneMore(t, u, Len(t) + 1, ins)
<1>1. t \in Seq(TxRecord) BY DEF Ledger
<1>2. \A c \in Coins(t) : c[1] \in DOMAIN t BY <1>1, CoinIs
<1>3. /\ Len(u) = Len(t) + 1 /\ u[Len(u)].ins = ins
      /\ \A i \in DOMAIN t : i \in DOMAIN u /\ u[i] = t[i] /\ i # Len(u)
      /\ \A i \in DOMAIN u : i = Len(u) \/ i \in DOMAIN t
  BY DEF Submitted
<1>4. \A i \in DOMAIN t : \A c \in t[i].ins : c \in Coins(t) BY DEF Ledger, Spends
<1> QED BY <1>2, <1>3, <1>4 DEF OneMore

(***************************************************************************)
(* Every step keeps the tips.                                              *)
(***************************************************************************)
\* What was listed once is still listed once at most.
OnceStill(s, r) == \A o : Once(s, o) => Once(r, o)

\* The transactions of q are transactions of p.
StillSent(p, q) == \A k \in DOMAIN q : \E j \in DOMAIN p : q[k] = p[j]

\* The tips stay tips where no transaction comes.
LEMMA TipsStay ==
  ASSUME Tips, SameIns(tx, tx'), Range(utxos') \subseteq Range(utxos), lost \subseteq lost',
         OnceStill(utxos, utxos'), StillSent(round.sent, (round.sent)')
  PROVE  Tips'
<1> DEFINE p == round.sent
           q == (round.sent)'
           r == utxos'
           u == tx'
           M == lost'
<1>1. ASSUME NEW k \in DOMAIN q PROVE Tip(u, r, M, q[k])
  <2>1. PICK j \in DOMAIN p : q[k] = p[j] BY <1>1 DEF StillSent
  <2> DEFINE a == p[j]
  <2>2. Tip(tx, utxos, lost, a) BY DEF Tips
  <2> HIDE DEF a, q, p, r, u, M
  <2>3. Once(utxos, <<a, 1>>) BY <2>2 DEF Tip
  <2>4. Once(r, <<a, 1>>) BY <2>3 DEF OnceStill, r
  <2>5. SameIns(tx, u) /\ Range(r) \subseteq Range(utxos) /\ lost \subseteq M BY DEF r, u, M
  <2>6. Tip(u, r, M, a) BY <2>2, <2>4, <2>5, TipStays
  <2> QED BY <2>1, <2>6 DEF a
<1> HIDE DEF p
<1> QED BY <1>1 DEF Tips

\* Nothing changes for them.
LEMMA SameTips ==
  /\ \A s : OnceStill(s, s)
  /\ \A p : StillSent(p, p)
  /\ \A t : SameIns(t, t)
BY DEF OnceStill, StillSent, SameIns

\* What the engine knows of its coins and of what it sent.
LEMMA TipParts ==
  ASSUME EngineInv
  PROVE  /\ \A c \in Range(utxos) : c[1] \in DOMAIN tx
         /\ \A x \in DOMAIN round.sent : round.sent[x] \in DOMAIN tx
         /\ Len(tx) + 1 \notin DOMAIN tx /\ Len(tx) + 1 \in Nat
<1>1. /\ tx \in Seq(TxRecord) /\ Len(tx) \in Nat /\ Range(utxos) \subseteq Coins(tx) BY EngineParts
<1>2. \A c \in Range(utxos) : c[1] \in DOMAIN tx BY <1>1, CoinIs
<1>3. \A x \in DOMAIN round.sent : round.sent[x] \in DOMAIN tx BY DEF EngineInv, SentLater, IsSent
<1> QED BY <1>1, <1>2, <1>3

\* A shape the node took leaves the tips, and its change is one.
LEMMA TakenTips ==
  ASSUME EngineInv, Tips, NEW i \in DOMAIN utxos, NEW n, n = Len(tx) + 1,
         OneMore(tx, tx', n, {utxos[i]}),
         \/ /\ utxos' = [utxos EXCEPT ![i] = <<n, 1>>] /\ lost' = lost
            /\ (round.sent)' = Append(round.sent, n)
         \/ /\ utxos' = utxos /\ lost' = lost \cup {<<n, 1>>}
            /\ (round.sent)' = round.sent
  PROVE  Tips'
<1> DEFINE p == round.sent
           r == utxos'
           u == tx'
           M == lost'
           coin == utxos[i]
           ins == {coin}
<1>0. /\ \A c \in Range(utxos) : c[1] \in DOMAIN tx
      /\ \A x \in DOMAIN p : p[x] \in DOMAIN tx
      /\ n \notin DOMAIN tx /\ n \in Nat /\ utxos \in Seq(Place) /\ p \in Seq(Nat)
  BY TipParts, EngineParts DEF EngineInv, EngineTypes, RoundRec
<1>1. coin \in Range(utxos) BY DEF Range
<1>2. \A x \in DOMAIN p : Tip(tx, utxos, lost, p[x]) BY DEF Tips
<1>3. SpendsListed(tx, utxos, lost, ins) BY <1>1 DEF SpendsListed, Childless
<1>4. OneMore(tx, u, n, ins) OBVIOUS
<1>5. ASSUME NEW a \in DOMAIN tx
      PROVE  <<a, 1>> # <<n, 1>>
  <2>1. a # n BY <1>0
  <2> QED BY <2>1
<1>6. CASE r = [utxos EXCEPT ![i] = <<n, 1>>] /\ M = lost /\ (round.sent)' = Append(p, n)
  <2> DEFINE q == (round.sent)'
  <2>1. /\ Range(r) \subseteq Range(utxos) \cup {<<n, 1>>}
        /\ \A o : o # <<n, 1>> /\ Once(utxos, o) => Once(r, o)
        /\ \A o : o # <<n, 1>> /\ o = utxos[i] /\ Once(utxos, o) => o \notin Range(r)
        /\ (\A c \in Range(utxos) : c[1] # n) => Once(r, <<n, 1>>)
    <3> HIDE DEF r
    <3>1. HandedOn(utxos, r, i, n) BY <1>0, <1>6, OnceExchanged
    <3> QED BY <3>1 DEF HandedOn
  <2> HIDE DEF r, u, M
  <2>2. ASSUME NEW a \in DOMAIN tx, Tip(tx, utxos, lost, a) PROVE Tip(u, r, M, a)
    <3>1. Once(utxos, <<a, 1>>) BY <2>2 DEF Tip
    <3>2. Once(r, <<a, 1>>) BY <1>5, <2>1, <3>1
    <3>3. SpendsHidden(r, M, n, ins, <<a, 1>>)
      <4> DEFINE o == <<a, 1>>
      <4>1. o # <<n, 1>> /\ Once(utxos, o) BY <1>5, <3>1
      <4> HIDE DEF o
      <4>2. o \in Range(r) => o \notin ins BY <2>1, <4>1
      <4> QED BY <4>2 DEF SpendsHidden, o
    <3>4. lost \subseteq M BY <1>6
    <3> HIDE DEF ins
    <3> QED BY <1>3, <1>4, <2>1, <2>2, <3>2, <3>3, <3>4, TipSurvives
  <2>3. Tip(u, r, M, n)
    <3>1. Once(r, <<n, 1>>) BY <1>0, <2>1
    <3> HIDE DEF ins
    <3> QED BY <1>4, <3>1, TipBegins
  <2>4. ASSUME NEW k \in DOMAIN q PROVE Tip(u, r, M, q[k])
    <3>1. q = Append(p, n) BY <1>6
    <3> HIDE DEF q, p
    <3>2. q[k] = n \/ (k \in DOMAIN p /\ q[k] = p[k]) BY <1>0, <2>4, <3>1
    <3>3. CASE q[k] = n BY <2>3, <3>3
    <3>4. CASE k \in DOMAIN p /\ q[k] = p[k] BY <1>0, <1>2, <2>2, <3>4
    <3> QED BY <3>2, <3>3, <3>4
  <2> QED BY <2>4 DEF Tips, r, u, M
<1>7. CASE r = utxos /\ M = lost \cup {<<n, 1>>} /\ (round.sent)' = p
  <2>1. Range(r) \subseteq Range(utxos) \cup {<<n, 1>>} /\ lost \subseteq M BY <1>7
  <2>2. <<n, 1>> \in M /\ \A c \in Range(r) : c[1] # n BY <1>0, <1>7
  <2>3. r = utxos BY <1>7
  <2> HIDE DEF r, u, M
  <2>4. ASSUME NEW a \in DOMAIN tx, Tip(tx, utxos, lost, a) PROVE Tip(u, r, M, a)
    <3>1. Once(r, <<a, 1>>) BY <2>3, <2>4 DEF Tip
    <3>2. SpendsHidden(r, M, n, ins, <<a, 1>>) BY <2>2 DEF SpendsHidden
    <3> HIDE DEF ins
    <3> QED BY <1>3, <1>4, <2>1, <2>4, <3>1, <3>2, TipSurvives
  <2>5. \A x \in DOMAIN p : Tip(u, r, M, p[x]) BY <1>0, <1>2, <2>4
  <2> QED BY <1>7, <2>5 DEF Tips, r, u, M
<1> QED BY <1>6, <1>7

\* SendShape keeps the tips.
LEMMA SendShapeTips ==
  ASSUME EngineInv, Tips, NEW mode, SendShape(mode)
  PROVE  Tips'
<1> DEFINE failed == [round EXCEPT !.fails = @ + 1]
           sent == [round EXCEPT !.left = @ - 1, !.fails = 0, !.sent = Append(@, Len(tx) + 1)]
           n == Len(tx) + 1
<1>1. /\ round \in RoundRec /\ tx \in Seq(TxRecord) /\ Ledger(tx) /\ utxos \in Seq(Place)
      /\ Range(utxos) \subseteq Coins(tx) /\ Len(tx) \in Nat
  BY EngineParts DEF EngineTypes
<1>2. round.left > 0 BY DEF SendShape
<1>3. failed.sent = round.sent BY <1>1, RoundEdits
<1>4. sent \in RoundRec /\ sent.sent = Append(round.sent, n)
  <2>1. Len(tx) + 1 \in Nat BY <1>1
  <2> QED BY <1>1, <1>2, <2>1, RoundEdits
<1>5. CASE NextBranch = {}
  <2>1. round' = failed /\ UNCHANGED <<tx, utxos, lost>> BY <1>5 DEF SendShape
  <2> HIDE DEF failed, sent
  <2>2. (round.sent)' = round.sent BY <1>3, <2>1
  <2> QED BY <2>1, <2>2, SameTips, TipsStay
<1>6. CASE NextBranch # {}
  <2>1. PICK idx \in NextBranch :
          LET coin == utxos[idx]
              change == <<Len(tx) + 1, 1>>
              spent == Accepted(tx, "spam", {coin}, <<Amount(tx, coin) - 1>>, Replaceable)
          IN  \/ /\ Accepts(tx, {coin}) /\ tx' = spent /\ round' = sent
                 /\ utxos' = [utxos EXCEPT ![idx] = change] /\ lost' = lost
              \/ /\ Accepts(tx, {coin}) /\ tx' = spent /\ round' = failed
                 /\ utxos' = utxos /\ lost' = lost \cup {change}
              \/ /\ utxos' = RemoveAt(utxos, idx) /\ round' = failed /\ UNCHANGED <<tx, lost>>
              \/ /\ round' = failed /\ UNCHANGED <<tx, utxos, lost>>
    BY <1>6 DEF SendShape
  <2>2. idx \in DOMAIN utxos /\ Amount(tx, utxos[idx]) >= 1 BY NextBranchIs
  <2> DEFINE coin == utxos[idx]
             spent == Accepted(tx, "spam", {coin}, <<Amount(tx, coin) - 1>>, Replaceable)
  <2>3. CASE /\ Accepts(tx, {coin}) /\ tx' = spent
             /\ \/ utxos' = [utxos EXCEPT ![idx] = <<n, 1>>] /\ lost' = lost /\ round' = sent
                \/ utxos' = utxos /\ lost' = lost \cup {<<n, 1>>} /\ round' = failed
    <3>1. OneMore(tx, tx', n, {coin})
      <4>1. coin \in Range(utxos) /\ coin \in Coins(tx) BY <1>1, <2>2 DEF Range
      <4>2. Replaceable \in BOOLEAN BY DEF Replaceable
      <4>3. Submitted(tx, tx', "spam", {coin}, <<Amount(tx, coin) - 1>>)
        BY <2>2, <2>3, <4>1, <4>2, BranchSpent
      <4> DEFINE ins == {coin}
                 outs == <<Amount(tx, coin) - 1>>
                 u == tx'
      <4>4. ins \subseteq Coins(tx) BY <4>1
      <4>5. Submitted(tx, u, "spam", ins, outs) BY <4>3
      <4> HIDE DEF ins, outs, u
      <4>6. OneMore(tx, u, Len(tx) + 1, ins) BY <1>1, <4>4, <4>5, SubmittedOne
      <4> QED BY <4>6 DEF ins, u
    <3>2. \/ /\ utxos' = [utxos EXCEPT ![idx] = <<n, 1>>] /\ lost' = lost
             /\ (round.sent)' = Append(round.sent, n)
          \/ /\ utxos' = utxos /\ lost' = lost \cup {<<n, 1>>}
             /\ (round.sent)' = round.sent
      <4> HIDE DEF sent, failed
      <4> QED BY <1>3, <1>4, <2>3
    <3>3. n = Len(tx) + 1 OBVIOUS
    <3> HIDE DEF sent, failed, n, spent
    <3> QED BY <2>2, <3>1, <3>2, <3>3, TakenTips
  <2>4. CASE round' = failed /\ UNCHANGED <<tx, lost>>
             /\ (utxos' = RemoveAt(utxos, idx) \/ utxos' = utxos)
    <3> DEFINE r == utxos'
    <3>1. (round.sent)' = round.sent
      <4> HIDE DEF failed
      <4> QED BY <1>3, <2>4
    <3>2. Range(r) \subseteq Range(utxos) /\ OnceStill(utxos, r)
      <4>1. CASE r = utxos BY <4>1, SameTips
      <4>2. CASE r = RemoveAt(utxos, idx)
        <5> HIDE DEF r
        <5>1. Range(r) \subseteq Range(utxos) BY <1>1, <2>2, <4>2, RemoveAtIs
        <5>2. ASSUME NEW o, Once(utxos, o) PROVE Once(r, o)
          BY <1>1, <2>2, <4>2, <5>2, OnceWithout
        <5> QED BY <5>1, <5>2 DEF OnceStill
      <4> QED BY <2>4, <4>1, <4>2
    <3>3. lost \subseteq lost' /\ SameIns(tx, tx') BY <2>4, SameTips
    <3>4. StillSent(round.sent, (round.sent)') BY <3>1, SameTips
    <3> QED BY <3>2, <3>3, <3>4, TipsStay
  <2> HIDE DEF sent, failed
  <2> QED BY <2>1, <2>3, <2>4
<1> QED BY <1>5, <1>6

\* A replacement is one more transaction of the same coins.
LEMMA ReplacementOne ==
  ASSUME NEW t, Ledger(t), NEW old, IsSent(old, t), NEW F, NEW u, Supersedes(t, u, old, F)
  PROVE  OneMore(t, u, Len(t) + 1, t[old].ins)
<1> DEFINE ins == t[old].ins
           n == Len(t) + 1
<1>1. t \in Seq(TxRecord) /\ Len(t) \in Nat /\ old \in DOMAIN t BY DEF Ledger, IsSent
<1>2. PICK g, amount : /\ g = Gone(t, F) /\ amount \in Nat
                       /\ u = Accepted(g, "spam", ins, <<amount>>, TRUE)
  BY DEF Supersedes
<1>3. Changed(t, g) BY <1>1, <1>2, GoneIs
<1>4. g \in Seq(TxRecord) /\ Len(g) = Len(t) /\ DOMAIN g = DOMAIN t
      /\ \A i \in DOMAIN t : g[i].ins = t[i].ins
  BY <1>3 DEF Changed
<1>5. \A i \in DOMAIN t : \A c \in t[i].ins : c \in Coins(t) /\ c[1] \in DOMAIN t /\ c \in Place
  BY <1>1, CoinIs DEF Ledger, Spends
<1>6. ins \in SUBSET Place BY <1>1, <1>5
<1>7. /\ Grows(g, u, u[Len(u)]) /\ u[Len(u)].ins = ins
  <2> DEFINE outs == <<amount>>
             sort == "spam"
             rbf == TRUE
  <2>1. outs \in Seq(Nat) BY <1>2, OneOutput
  <2>2. sort \in Kinds /\ rbf \in BOOLEAN BY DEF Kinds
  <2>3. u = Accepted(g, sort, ins, outs, rbf) BY <1>2
  <2> HIDE DEF outs, sort, rbf, ins
  <2> QED BY <1>4, <1>6, <2>1, <2>2, <2>3, AcceptedGrows
<1>8. /\ Len(u) = n /\ u[n].ins = ins
      /\ \A i \in DOMAIN t : i \in DOMAIN u /\ u[i] = g[i]
      /\ \A i \in DOMAIN u : i = n \/ i \in DOMAIN t
  BY <1>4, <1>7 DEF Grows
<1>9. n \notin DOMAIN t BY <1>1
<1>10. ASSUME NEW i \in DOMAIN u, NEW c \in u[i].ins PROVE c[1] # n
  <2>1. CASE i = n BY <1>1, <1>5, <1>8, <1>9, <1>10, <2>1
  <2>2. CASE i \in DOMAIN t
    <3>1. c \in t[i].ins BY <1>4, <1>8, <1>10, <2>2
    <3> QED BY <1>5, <1>9, <2>2, <3>1
  <2> QED BY <1>8, <2>1, <2>2
<1>11. \A i \in DOMAIN t : i \in DOMAIN u /\ u[i].ins = t[i].ins BY <1>4, <1>8
<1> HIDE DEF n, ins
<1>12. OneMore(t, u, n, ins) BY <1>8, <1>9, <1>10, <1>11 DEF OneMore
<1> QED BY <1>12 DEF n, ins

\* The rest of what was sent keeps its tips when the last is replaced.
LEMMA ReplacedTips ==
  ASSUME EngineInv, Tips, NEW i \in DOMAIN utxos, NEW n, n = Len(tx) + 1,
         NEW old \in DOMAIN tx, utxos[i] = <<old, 1>>, OneMore(tx, tx', n, tx[old].ins),
         utxos' = [utxos EXCEPT ![i] = <<n, 1>>], lost' = lost,
         StillSent(round.sent, (round.sent)')
  PROVE  Tips'
<1> DEFINE p == round.sent
           q == (round.sent)'
           r == utxos'
           u == tx'
           M == lost'
           ins == tx[old].ins
<1>1. /\ \A c \in Range(utxos) : c[1] \in DOMAIN tx
      /\ \A x \in DOMAIN p : p[x] \in DOMAIN tx
      /\ n \notin DOMAIN tx /\ n \in Nat /\ utxos \in Seq(Place) /\ p \in Seq(Nat)
  BY TipParts, EngineParts DEF EngineInv, EngineTypes, RoundRec
<1>2. \A x \in DOMAIN p : Tip(tx, utxos, lost, p[x]) BY DEF Tips
<1>3. SpendsListed(tx, utxos, lost, ins) BY DEF SpendsListed, Childless
<1>4. OneMore(tx, u, n, ins) OBVIOUS
<1>5. HandedOn(utxos, r, i, n)
  <2>1. r = [utxos EXCEPT ![i] = <<n, 1>>] OBVIOUS
  <2> HIDE DEF r
  <2> QED BY <1>1, <2>1, OnceExchanged
<1>6. /\ Range(r) \subseteq Range(utxos) \cup {<<n, 1>>}
      /\ \A o : o # <<n, 1>> /\ Once(utxos, o) => Once(r, o)
      /\ \A o : o # <<n, 1>> /\ o = utxos[i] /\ Once(utxos, o) => o \notin Range(r)
  BY <1>5 DEF HandedOn
<1>7. <<old, 1>> \in Range(utxos) /\ <<old, 1>>[1] = old BY DEF Range
<1>8. M = lost OBVIOUS
<1>9. utxos[i] = <<old, 1>> OBVIOUS
<1> HIDE DEF r, u, M
<1>10. ASSUME NEW a \in DOMAIN tx, Tip(tx, utxos, lost, a) PROVE Tip(u, r, M, a)
  <2> DEFINE o == <<a, 1>>
  <2>1. a # n BY <1>1
  <2>2. o # <<n, 1>> BY <2>1
  <2>3. Once(utxos, o) BY <1>10 DEF Tip
  <2>4. o \in Range(utxos) => \A j \in DOMAIN tx : o \in tx[j].ins => Childless(tx, utxos, lost, j)
    BY <1>10 DEF Tip
  <2> HIDE DEF o
  <2>5. Once(r, o) BY <1>6, <2>2, <2>3
  <2>6. ~(o \in Range(r) /\ o \in ins)
    <3>1. SUFFICES ASSUME o \in Range(r), o \in tx[old].ins PROVE FALSE OBVIOUS
    <3>2. o \in Range(utxos) BY <1>6, <2>2, <3>1
    <3>3. Childless(tx, utxos, lost, old) BY <2>4, <3>1, <3>2
    <3> QED BY <1>7, <3>3 DEF Childless
  <2>7. SpendsHidden(r, M, n, ins, o) BY <2>6 DEF SpendsHidden
  <2>8. lost \subseteq M BY <1>8
  <2> HIDE DEF ins
  <2> QED BY <1>3, <1>4, <1>6, <1>10, <2>5, <2>7, <2>8, TipSurvives DEF o
<1>11. ASSUME NEW k \in DOMAIN q PROVE Tip(u, r, M, q[k])
  <2>1. PICK j \in DOMAIN p : q[k] = p[j] BY <1>11 DEF StillSent
  <2> HIDE DEF q, p
  <2> QED BY <1>1, <1>2, <1>10, <2>1
<1> QED BY <1>11 DEF Tips, r, u, M

\* What is left after the last transaction was sent.
LEMMA FrontStill ==
  ASSUME EngineInv, round.sent # <<>>
  PROVE  StillSent(round.sent, Front(round.sent))
BY LastSent DEF StillSent

\* A bump keeps the tips.
LEMMA BumpTips ==
  ASSUME EngineInv, Tips, NEW mode, Bump(mode)
  PROVE  Tips'
<1> DEFINE old == Last(round.sent)
           slot == TipOf(old)
           F == FamilyOf(tx, {old})
           x == tx[old].outs[1] - 1
           n == Len(tx) + 1
<1>1. round.sent # <<>> /\ round.left > 0 /\ lost' = lost BY DEF Bump
<1>2. \/ /\ slot # {} /\ tx[old].outs[1] >= 1
         /\ \A c \in tx[old].ins : Live(tx, c[1])
         /\ tx' = Accepted(Gone(tx, F), "spam", tx[old].ins, <<x>>, TRUE)
         /\ utxos' = [utxos EXCEPT ![Min(slot)] = <<n, 1>>]
         /\ round' = [round EXCEPT !.sent = Front(@), !.left = @ - 1]
      \/ /\ round' = [round EXCEPT !.sent = Front(@)]
         /\ UNCHANGED <<tx, utxos>>
  BY DEF Bump
<1>3. /\ round \in RoundRec /\ tx \in Seq(TxRecord) /\ Ledger(tx) /\ utxos \in Seq(Place)
  BY EngineParts DEF EngineTypes
<1>4. (round.sent)' = Front(round.sent) BY <1>1, <1>2, <1>3, RoundEdits
<1>5. StillSent(round.sent, (round.sent)') BY <1>1, <1>4, FrontStill
<1>6. IsSent(old, tx) /\ old \in DOMAIN tx /\ old \in Nat BY <1>1, LastSent DEF IsSent
<1> HIDE DEF old
<1>7. CASE UNCHANGED <<tx, utxos>>
  <2>1. Range(utxos') \subseteq Range(utxos) /\ OnceStill(utxos, utxos') /\ lost \subseteq lost'
        /\ SameIns(tx, tx')
    BY <1>1, <1>7, SameTips
  <2> QED BY <1>5, <2>1, TipsStay
<1>8. CASE /\ slot # {} /\ tx[old].outs[1] >= 1
           /\ \A c \in tx[old].ins : Live(tx, c[1])
           /\ tx' = Accepted(Gone(tx, F), "spam", tx[old].ins, <<x>>, TRUE)
           /\ utxos' = [utxos EXCEPT ![Min(slot)] = <<n, 1>>]
  <2> DEFINE i == Min(slot)
             u == tx'
  <2>1. i \in DOMAIN utxos /\ utxos[i] = <<old, 1>>
    <3>1. slot \in SUBSET Nat BY <1>3 DEF TipOf
    <3>2. i \in slot BY <1>8, <3>1, LeastOf
    <3> QED BY <3>2 DEF TipOf
  <2>2. x \in Nat
    <3>1. tx[old] \in TxRecord /\ Len(tx[old].outs) \in 1 .. MaxOuts BY <1>3, <1>6 DEF Ledger, Outs
    <3>2. tx[old].outs \in Seq(Nat) BY <3>1 DEF TxRecord
    <3>3. tx[old].outs[1] \in Nat BY <3>1, <3>2
    <3> QED BY <1>8, <3>3
  <2>3. Supersedes(tx, u, old, F)
    <3>1. IsFamily(F, tx, {old}) BY <1>3, FamilyFacts
    <3>2. u = Accepted(Gone(tx, F), "spam", tx[old].ins, <<x>>, TRUE) BY <1>8
    <3> HIDE DEF u, F, x
    <3> QED BY <1>8, <2>2, <3>1, <3>2 DEF Supersedes
  <2>4. OneMore(tx, u, n, tx[old].ins)
    <3> HIDE DEF u, F
    <3> QED BY <1>3, <1>6, <2>3, ReplacementOne
  <2>5. utxos' = [utxos EXCEPT ![i] = <<n, 1>>] /\ n = Len(tx) + 1 BY <1>8
  <2> HIDE DEF i, n, F, x, slot
  <2> QED BY <1>1, <1>5, <1>6, <2>1, <2>4, <2>5, ReplacedTips
<1> QED BY <1>2, <1>7, <1>8

\* A round that begins has sent nothing.
LEMMA BeginningTips ==
  ASSUME NEW e, NEW need, NEW target, NEW txs \in Nat, NEW again \in BOOLEAN, NEW mode,
         BeginSending(e, need, target, txs, again, mode)
  PROVE  Tips'
<1> DEFINE r == [Idle EXCEPT !.left = txs, !.again = again]
<1>1. r \in RoundRec /\ r.sent = <<>> BY IdleIs
<1>2. round' = r \/ round' = Idle BY DEF BeginSending
<1> HIDE DEF r
<1>3. (round.sent)' = <<>> BY <1>1, <1>2, IdleIs
<1> QED BY <1>3, NoTips

\* Changed transactions spend what they spent.
LEMMA ChangedIns ==
  ASSUME NEW t, NEW u, Changed(t, u)
  PROVE  SameIns(t, u)
BY DEF Changed, SameIns

\* The node takes nothing from what the round knows of its tips.
LEMMA WorldTips ==
  ASSUME EngineInv, Tips, SameIns(tx, tx'), utxos' = utxos, lost \subseteq lost',
         (round.sent)' = round.sent
  PROVE  Tips'
<1>1. Range(utxos') \subseteq Range(utxos) /\ OnceStill(utxos, utxos')
      /\ StillSent(round.sent, (round.sent)')
  BY SameTips
<1> QED BY <1>1, TipsStay

\* EndOutputRound keeps the tips.
LEMMA EndOutputRoundTips ==
  ASSUME EngineInv, Tips, EndOutputRound
  PROVE  Tips'
<1>1. UNCHANGED <<tx, utxos, lost>> BY DEF EndOutputRound, node, engine
<1>2. CASE ~Replaceable
  <2>1. (round.sent)' = <<>> BY <1>2, IdleIs DEF EndOutputRound
  <2> QED BY <2>1, NoTips
<1>3. CASE Replaceable
  <2>1. round' = [round EXCEPT !.left = Replaces] BY <1>3 DEF EndOutputRound
  <2>2. (round.sent)' = round.sent BY <2>1 DEF EngineInv, EngineTypes, RoundRec
  <2> QED BY <1>1, <2>2, SameTips, WorldTips
<1> QED BY <1>2, <1>3

\* Every step keeps the tips.
LEMMA TipsKept ==
  ASSUME EngineInv, Tips, [EngineNext]_engineVars
  PROVE  Tips'
<1>0. EngineInv' BY EngineKeeps
<1>1. ASSUME NEW mode \in Modes, OutputRound(mode) PROVE Tips'
  <2>1. BeginSending(Now, MinOf(Share, Fanout), Fanout, Share, FALSE, mode)
    BY <1>1 DEF OutputRound, Spend
  <2>2. Share \in Nat /\ FALSE \in BOOLEAN BY EngineConstants
  <2> QED BY <2>1, <2>2, BeginningTips
<1>2. ASSUME NEW mode \in Modes, SpamBurst(mode) PROVE Tips'
  <2>1. BeginSending(Now, BurstTxs, BurstTxs, BurstTxs, FALSE, mode)
    BY <1>2 DEF SpamBurst, Spend
  <2>2. BurstTxs \in Nat /\ FALSE \in BOOLEAN BY EngineConstants
  <2> QED BY <2>1, <2>2, BeginningTips
<1>3. ASSUME NEW mode \in Modes, EndSpamBurst(mode) PROVE Tips'
  <2>1. CASE round.left = 0 \/ round.again \/ mode = "read"
    <3>1. round' = Idle BY <1>3, <2>1 DEF EndSpamBurst, Spend
    <3>2. (round.sent)' = <<>> BY <3>1, IdleIs
    <3> QED BY <3>2, NoTips
  <2>2. CASE ~(round.left = 0 \/ round.again \/ mode = "read")
    <3> DEFINE e == Reconciled(Now, "ok")
    <3>1. BeginSending(e, MinOf(round.left, BurstTxs), BurstTxs, round.left, TRUE, "ok")
      BY <1>3, <2>2 DEF EndSpamBurst, Spend
    <3>2. round.left \in Nat /\ TRUE \in BOOLEAN BY DEF EngineInv, EngineTypes, RoundRec
    <3> HIDE DEF e
    <3> QED BY <3>1, <3>2, BeginningTips
  <2> QED BY <2>1, <2>2
<1>4. ASSUME NEW mode \in Modes, SendShape(mode) PROVE Tips' BY <1>4, SendShapeTips
<1>5. CASE EndOutputRound BY <1>5, EndOutputRoundTips
<1>6. ASSUME NEW mode \in Modes, Bump(mode) PROVE Tips' BY <1>6, BumpTips
<1>7. ASSUME NEW mode \in Modes,
             \/ EndBump \/ HarvestMinedFills(mode) \/ FundPool(mode) \/ SendBatch(mode)
             \/ EndFloorRound \/ ReconcileScan(mode) \/ ReconcileHeight(mode)
             \/ BeginPrepare \/ PrepareBurst(mode) \/ PrepareManualBurst(mode) \/ Interrupted
      PROVE  Tips'
  <2>1. doing' \notin {"send", "bump"}
    BY <1>7, Zenon DEF EndBump, HarvestMinedFills, FundPool, SendBatch, EndFloorRound, ReconcileScan,
                       ReconcileHeight, BeginPrepare, PrepareBurst, PrepareManualBurst,
                       Interrupted
  <2> QED BY <1>0, <2>1, NothingSent
<1>8. CASE EngineStep
  BY <1>1, <1>2, <1>3, <1>4, <1>5, <1>6, <1>7, <1>8 DEF EngineStep
<1>9. CASE Mine
  <2>1. UNCHANGED <<utxos, round, lost>> BY <1>9 DEF Mine, engine
  <2>2. PICK X : tx' = Mined(tx, X) BY <1>9 DEF Mine
  <2>3. tx \in Seq(TxRecord) /\ height \in Nat BY EngineParts DEF EngineTypes
  <2>4. Changed(tx, tx') BY <2>2, <2>3, MinedIs
  <2>5. SameIns(tx, tx') BY <2>4, ChangedIns
  <2> QED BY <2>1, <2>5, WorldTips
<1>10. CASE NodeEvicts
  <2>1. UNCHANGED <<utxos, round>> /\ lost \subseteq lost' BY <1>10 DEF NodeEvicts, engine
  <2>2. PICK S : tx' = Gone(tx, S) BY <1>10 DEF NodeEvicts
  <2>3. tx \in Seq(TxRecord) BY EngineParts
  <2>4. Changed(tx, tx') BY <2>2, <2>3, GoneIs
  <2>5. SameIns(tx, tx') BY <2>4, ChangedIns
  <2> QED BY <2>1, <2>5, WorldTips
<1>11. CASE ChainMutated \/ ReconciliationAsked \/ EngineRestarts
  <2>1. doing' = "idle" BY <1>11 DEF ChainMutated, ReconciliationAsked, EngineRestarts
  <2> QED BY <1>0, <2>1, NothingSent
<1>12. CASE UNCHANGED engineVars
  <2>1. UNCHANGED <<tx, utxos, round, lost>> BY <1>12 DEF engineVars
  <2> QED BY <2>1, SameTips, WorldTips
<1> QED BY <1>8, <1>9, <1>10, <1>11, <1>12 DEF EngineNext

\* The inductive invariant holds throughout every behaviour.
THEOREM BranchInvHolds == EngineSpec => []BranchInv
<1>1. EngineInit => BranchInv
  <2>1. EngineInit => EngineInv BY EngineBegins
  <2>2. ASSUME EngineInit PROVE Tips
    <3>1. round.sent = <<>> BY <2>2, IdleIs DEF EngineInit
    <3>2. DOMAIN <<>> = {} OBVIOUS
    <3> QED BY <3>1, <3>2 DEF Tips
  <2> QED BY <2>1, <2>2 DEF BranchInv
<1>2. BranchInv /\ [EngineNext]_engineVars => BranchInv'
  BY EngineKeeps, TipsKept DEF BranchInv
<1> QED BY <1>1, <1>2, PTL DEF EngineSpec

(***************************************************************************)
(* What a replacement throws out.                                          *)
(***************************************************************************)
\* The family of a listed tip is the tip and what spends its change.
LEMMA FamilyOfTip ==
  ASSUME NEW t, Ledger(t), NEW s, NEW L, NEW old, IsSent(old, t), Tip(t, s, L, old),
         <<old, 1>> \in Range(s), NEW F, IsFamily(F, t, {old})
  PROVE  \A i \in F : i = old \/ <<old, 1>> \in t[i].ins
<1> DEFINE o == <<old, 1>>
           M == {i \in F : i # old /\ o \notin t[i].ins}
<1>0. t \in Seq(TxRecord) /\ old \in DOMAIN t /\ F \subseteq DOMAIN t
  BY DEF Ledger, IsSent, IsFamily
<1>1. M \in SUBSET Nat BY <1>0
<1>2. SUFFICES ASSUME M # {} PROVE FALSE OBVIOUS
<1>3. PICK x \in M : \A y \in M : x <= y BY <1>1, <1>2, Smallest
<1>4. x \in F /\ x # old /\ o \notin t[x].ins /\ x \in DOMAIN t /\ x \in Nat BY <1>0, <1>1
<1>5. PICK c \in t[x].ins : c[1] \in F BY <1>4 DEF IsFamily
<1>6. c \in Coins(t) /\ c[1] < x BY <1>4, <1>5 DEF Ledger, Spends
<1>7. c = <<c[1], c[2]>> /\ c[1] \in DOMAIN t /\ c[2] \in 1 .. Len(t[c[1]].outs) /\ c[1] \in Nat
  BY <1>0, <1>6, CoinIs
<1>8. c[1] \notin M BY <1>1, <1>3, <1>4, <1>6, <1>7
<1>9. CASE c[1] = old
  <2>1. Len(t[old].outs) = 1 BY <1>0 DEF Ledger, Outs, IsSent
  <2>2. c[2] = 1 BY <1>7, <1>9, <2>1
  <2>3. c = o BY <1>7, <1>9, <2>2
  <2> QED BY <1>4, <1>5, <2>3
<1>10. CASE o \in t[c[1]].ins
  <2>1. Childless(t, s, L, c[1]) BY <1>7, <1>10 DEF Tip
  <2> QED BY <1>4, <1>5, <2>1 DEF Childless
<1> QED BY <1>5, <1>8, <1>9, <1>10

\* What the node dropped of t, nothing the engine knows of spent.
OrphansNone(t, u, L) ==
  \A i \in DOMAIN t : t[i].state # "gone" /\ u[i].state = "gone" =>
     \A k \in DOMAIN t[i].outs : \A j \in Spenders(t, <<i, k>>) : <<j, 1>> \in L

\* A replacement of a listed tip orphans nothing.
LEMMA ReplacementOrphansNone ==
  ASSUME NEW t, Ledger(t), NEW s, NEW L, NEW old, IsSent(old, t), Tip(t, s, L, old),
         <<old, 1>> \in Range(s), NEW F, NEW u, Supersedes(t, u, old, F)
  PROVE  OrphansNone(t, u, L)
<1> DEFINE o == <<old, 1>>
<1>0. t \in Seq(TxRecord) /\ Len(t) \in Nat /\ old \in DOMAIN t BY DEF Ledger, IsSent
<1>1. IsFamily(F, t, {old}) BY DEF Supersedes
<1>2. \A i \in F : i = old \/ o \in t[i].ins BY <1>1, FamilyOfTip
<1>3. \A j \in DOMAIN t : o \in t[j].ins => Childless(t, s, L, j) BY DEF Tip
<1>4. PICK g, amount : g = Gone(t, F) /\ u = Accepted(g, "spam", t[old].ins, <<amount>>, TRUE)
  BY DEF Supersedes
<1>5. Changed(t, g) /\ \A i \in DOMAIN t : i \notin F => g[i] = t[i] BY <1>0, <1>4, GoneIs
<1>6. ASSUME NEW i \in DOMAIN t PROVE u[i] = g[i]
  <2> DEFINE r == [kind |-> "spam", ins |-> t[old].ins, outs |-> <<amount>>, rbf |-> TRUE,
                   state |-> "mempool", at |-> 0]
  <2>1. u = Append(g, r) BY <1>4 DEF Accepted
  <2>2. g \in Seq(TxRecord) /\ i \in DOMAIN g BY <1>5 DEF Changed
  <2> HIDE DEF r
  <2>3. i \in 1 .. Len(g) /\ Len(g) \in Nat BY <2>2
  <2> QED BY <2>1, <2>2, <2>3
<1>7. SUFFICES ASSUME NEW i \in DOMAIN t, t[i].state # "gone", u[i].state = "gone",
                      NEW k \in DOMAIN t[i].outs, NEW j \in Spenders(t, <<i, k>>)
               PROVE  <<j, 1>> \in L
  BY DEF OrphansNone
<1>8. i \in F BY <1>5, <1>6, <1>7
<1>9. j \in DOMAIN t /\ <<i, k>> \in t[j].ins BY <1>7 DEF Spenders
<1>10. CASE i = old
  <2>1. Len(t[old].outs) = 1 /\ t[old] \in TxRecord BY <1>0 DEF Ledger, Outs, IsSent
  <2>2. t[old].outs \in Seq(Nat) BY <2>1 DEF TxRecord
  <2>3. DOMAIN t[old].outs = 1 .. Len(t[old].outs) BY <2>2
  <2>4. k = 1 BY <1>7, <1>10, <2>1, <2>3
  <2>5. Childless(t, s, L, j) BY <1>3, <1>9, <1>10, <2>4
  <2> QED BY <2>5 DEF Childless
<1>11. CASE o \in t[i].ins
  <2>1. Childless(t, s, L, i) BY <1>3, <1>11
  <2>2. <<i, k>>[1] = i OBVIOUS
  <2> QED BY <1>9, <2>1, <2>2 DEF Childless
<1> QED BY <1>2, <1>8, <1>10, <1>11

\* A bump orphans nothing.
LEMMA BumpOrphansNone ==
  ASSUME EngineInv, Tips, NEW mode, Bump(mode)
  PROVE  Len(tx') > Len(tx) => OrphansNone(tx, tx', lost)
<1> DEFINE old == Last(round.sent)
           F == FamilyOf(tx, {old})
           x == tx[old].outs[1] - 1
           u == tx'
<1>1. round.sent # <<>> BY DEF Bump
<1>2. /\ tx \in Seq(TxRecord) /\ Ledger(tx) /\ Len(tx) \in Nat /\ round.sent \in Seq(Nat)
  BY EngineParts DEF EngineTypes, RoundRec
<1>3. SUFFICES ASSUME Len(u) > Len(tx) PROVE OrphansNone(tx, u, lost) OBVIOUS
<1>4. u # tx BY <1>2, <1>3
<1>5. /\ TipOf(old) # {} /\ tx[old].outs[1] >= 1
      /\ \A c \in tx[old].ins : Live(tx, c[1])
      /\ u = Accepted(Gone(tx, F), "spam", tx[old].ins, <<x>>, TRUE)
  BY <1>4 DEF Bump
<1>6. IsSent(old, tx) /\ old \in DOMAIN tx BY <1>1, LastSent DEF IsSent
<1>7. Tip(tx, utxos, lost, old)
  <2>1. Len(round.sent) \in DOMAIN round.sent /\ old = round.sent[Len(round.sent)]
    BY <1>1, <1>2 DEF Last
  <2> QED BY <2>1 DEF Tips
<1>8. <<old, 1>> \in Range(utxos) BY <1>5 DEF TipOf, Range
<1>9. Supersedes(tx, u, old, F)
  <2>1. IsFamily(F, tx, {old}) BY <1>2, FamilyFacts
  <2>2. x \in Nat
    <3>1. tx[old] \in TxRecord /\ Len(tx[old].outs) \in 1 .. MaxOuts BY <1>2, <1>6 DEF Ledger, Outs
    <3>2. tx[old].outs \in Seq(Nat) BY <3>1 DEF TxRecord
    <3>3. tx[old].outs[1] \in Nat BY <3>1, <3>2
    <3> QED BY <1>5, <3>3
  <2> HIDE DEF u, F, x, old
  <2> QED BY <1>5, <2>1, <2>2 DEF Supersedes
<1> HIDE DEF u, F, x, old
<1> QED BY <1>2, <1>6, <1>7, <1>8, <1>9, ReplacementOrphansNone

\* A round that bumps submits nothing but replacements.
LEMMA OnlyBumpSubmits ==
  ASSUME EngineInv, doing = "bump", [EngineNext]_engineVars
  PROVE  (\E mode \in Modes : Bump(mode)) \/ Len(tx') = Len(tx)
<1>1. ASSUME NEW mode \in Modes,
             \/ OutputRound(mode) \/ SendShape(mode) \/ EndOutputRound
             \/ EndBump
             \/ HarvestMinedFills(mode) \/ FundPool(mode) \/ SendBatch(mode) \/ EndFloorRound
             \/ ReconcileScan(mode) \/ ReconcileHeight(mode)
             \/ BeginPrepare \/ PrepareBurst(mode) \/ PrepareManualBurst(mode)
             \/ SpamBurst(mode) \/ EndSpamBurst(mode)
             \/ Interrupted
      PROVE  tx' = tx
  BY <1>1, Zenon DEF OutputRound, SendShape, EndOutputRound, EndBump, HarvestMinedFills, FundPool,
              SendBatch, EndFloorRound, ReconcileScan, ReconcileHeight, BeginPrepare, PrepareBurst,
              PrepareManualBurst, SpamBurst, EndSpamBurst, Interrupted, SendingEnds, node
<1>2. CASE EngineStep BY <1>1, <1>2 DEF EngineStep
<1>3. tx \in Seq(TxRecord) /\ height \in Nat BY EngineParts DEF EngineTypes
<1>4. CASE Mine
  <2>1. PICK X : tx' = Mined(tx, X) BY <1>4 DEF Mine
  <2>2. Changed(tx, tx') BY <1>3, <2>1, MinedIs
  <2> QED BY <2>2 DEF Changed
<1>5. CASE NodeEvicts
  <2>1. PICK S : tx' = Gone(tx, S) BY <1>5 DEF NodeEvicts
  <2>2. Changed(tx, tx') BY <1>3, <2>1, GoneIs
  <2> QED BY <2>2 DEF Changed
<1>6. CASE ChainMutated \/ ReconciliationAsked \/ EngineRestarts
  BY <1>6 DEF ChainMutated, ReconciliationAsked, EngineRestarts, node
<1>7. CASE UNCHANGED engineVars BY <1>7 DEF engineVars
<1> QED BY <1>2, <1>4, <1>5, <1>6, <1>7 DEF EngineNext

\* A fee bump never takes with it what the engine knows to have chained off
\* the transaction it replaces.
THEOREM BumpOrphansNothingHolds == EngineSpec => BumpOrphansNothing
<1> DEFINE A == doing = "bump" /\ Len(tx') > Len(tx) => OrphansNone(tx, tx', lost)
<1>1. BranchInv /\ [EngineNext]_engineVars => [A]_engineVars
  <2>1. ASSUME EngineInv, Tips, [EngineNext]_engineVars, doing = "bump", Len(tx') > Len(tx)
        PROVE  OrphansNone(tx, tx', lost)
    <3>1. Len(tx) \in Nat BY EngineParts
    <3>2. PICK mode \in Modes : Bump(mode) BY <2>1, <3>1, OnlyBumpSubmits
    <3> QED BY <2>1, <3>2, BumpOrphansNone
  <2> QED BY <2>1 DEF BranchInv
<1>2. [][A]_engineVars => BumpOrphansNothing BY DEF BumpOrphansNothing, OrphansNone
<1> HIDE DEF A
<1> QED BY <1>1, <1>2, BranchInvHolds, PTL DEF EngineSpec

\* Neither a fan-out nor a fee bump takes a branch away from the rounds.
THEOREM BranchesKeptHolds == EngineSpec => BranchesKept
BY FanoutKeepsMinimumHolds, BumpOrphansNothingHolds DEF BranchesKept
=============================================================================
