----------------------------- MODULE ReorgProofs -----------------------------
(***************************************************************************)
(* Theorems about chain jobs, for branches of any depth and any number of  *)
(* failures and of blocks mined by others, and about the blocks a reorg    *)
(* mines in place of the ones it orphaned, for every number of             *)
(* transactions, depth, weight, budget, percentage and number of           *)
(* failures.                                                               *)
(*                                                                         *)
(* Chain jobs.  The argument rests on the nodes (NodeInv): a node is on    *)
(* the longest chain it may follow, and a chain that begins with block 1   *)
(* goes through the whole branch.  Hence "all nodes have the branch" and   *)
(* "no node has it" last once they hold, and a job that has seen one of    *)
(* them may take its time to end (RewindInv).  Of a reorg the miner has    *)
(* every chain that exists, so its agreement with node1 lasts as well      *)
(* (ReorgInv).                                                             *)
(*                                                                         *)
(* Replacement blocks.  The packing is a chain of folds and filters over   *)
(* ordered lists; the lemmas after the chain jobs say what these return,   *)
(* by induction through sets of naturals.  BlocksInv is then kept by each  *)
(* step.                                                                   *)
(***************************************************************************)
EXTENDS ChainJobs, Replacement, SequenceTheorems, FiniteSetTheorems, WellFoundedInduction,
        TLAPS

(***************************************************************************)
(* Rewind and reorg jobs.                                                  *)
(***************************************************************************)

\* A chain that begins with block 1 goes through the whole branch.
Whole(c) == Rejected(c) => GoesThrough(c, Original)

\* What a node may follow.
Allowed(n, c) == n \in bad => ~Rejected(c)

\* Of its chains a node is on a longest one that it may follow; blocks mined
\* by anyone are newer than the branch.
NodeInv ==
  /\ known \in [NodeNames -> SUBSET Seq(Nat)]
  /\ active \in [NodeNames -> Seq(Nat)]
  /\ bad \in SUBSET NodeNames
  /\ minted \in Nat /\ minted >= Depth
  /\ \A n \in NodeNames :
       /\ active[n] \in known[n] \cup {<<>>}
       /\ Allowed(n, active[n])
       /\ \A c \in known[n] :
            /\ Whole(c)
            /\ Allowed(n, c) => Len(c) <= Len(active[n])

\* The job is at one of the places P.
At(P) == at \in {Step(p) : p \in P}

\* All nodes have the branch; none has it; nobody has mined.
AllIn == \A n \in NodeNames : GoesThrough(active[n], Original)

\* No node has the branch.
AllOut == \A n \in NodeNames : ~GoesThrough(active[n], Original)

\* Every node knows the branch only.
Untouched == \A n \in NodeNames : known[n] = {Original}

\* The steps that invalidate the branch.
Invalidation ==
  at \in {Invalidating(i) : i \in 1 .. 4} \cup {Verifying(i) : i \in 1 .. 3}

\* The job has not ended yet.
Executing ==
  \/ At({"idle", "prepared", "resolve", "succeed", "fail", "aborted"})
  \/ Invalidation

\* A rewind counts on its context from the first invalidation on, and knows at
\* its end where the branch is.
RewindInv ==
  /\ Executing => outcome = "none"
  /\ At({"idle"}) => saved = "none"
  /\ At({"prepared", "resolve"}) \/ Invalidation
       => context # "none" /\ saved # "none"
  /\ at \in {Restoring(i) : i \in 1 .. 4} => context # "none"
  /\ saved = "none" \/ context = "none" \/ At({"idle", "prepared"}) =>
       AllIn /\ bad = {}
  /\ At({"resolve", "succeed"}) => AllOut
  /\ At({"fail", "release", "end"}) => AllIn \/ AllOut
  /\ At({"aborted"}) => AllIn
  /\ foreign = 0 => Untouched /\ (outcome = "aborted" => AllIn)

\* What a reorg knows of the nodes at every place: the miner alone may reject
\* block 1; every node has the branch; the miner has every chain there is; and
\* while it rejects block 1 it has mined one chain, which it is on.
Branches ==
  /\ bad \subseteq {Target}
  /\ \A n \in NodeNames :
       /\ \E c \in known[n] : GoesThrough(c, Original)
       /\ \A c \in known[n] : \E d \in known[Target] : GoesThrough(d, c)
  /\ Target \in bad =>
       \A c \in known[Target] : c = Original \/ GoesThrough(active[Target], c)

\* A reorg starts on untouched nodes and ends when miner and node1 agree.
ReorgInv ==
  /\ Branches
  /\ At({"idle", "prepared", "mutate"}) => Untouched /\ AllIn
  /\ At({"verify", "succeed", "fail", "aborted", "release", "end"}) => Adopted

\* Types of the job.
JobTypes ==
  /\ at \in Places
  /\ outcome \in {"none", "succeeded", "failed", "aborted", "interrupted"}
  /\ context \in {"none", "prepared", "resolved"}
  /\ saved \in {"none", "prepared", "resolved"}
  /\ leased \in BOOLEAN /\ abort \in BOOLEAN
  /\ foreign \in 0 .. MaxForeign /\ faults \in 0 .. MaxFaults
  /\ kind \in {"rewind", "reorg"}

\* The inductive invariant.  After a foreign block nothing is claimed of a
\* reorg but what the nodes do.
ChainInv ==
  /\ JobTypes /\ NodeInv
  /\ kind = "rewind" => RewindInv
  /\ kind = "reorg" /\ foreign = 0 => ReorgInv

(***************************************************************************)
(* Chains.                                                                 *)
(***************************************************************************)
\* The branch a job is about to take away is a chain of Depth blocks.
LEMMA OriginalChain ==
  /\ Original \in Seq(Nat) /\ Len(Original) = Depth
  /\ \A i \in 1 .. Depth : Original[i] = i
  /\ Original # <<>> /\ Rejected(Original)
<1>1. Original \in [1 .. Depth -> Nat] /\ Depth \in Nat \ {0}
  BY ChainConstants DEF Original
<1>2. Original \in Seq(Nat) /\ Len(Original) = Depth
  BY <1>1, SeqDef, LenProperties, SMT
<1>3. \A i \in 1 .. Depth : Original[i] = i
  BY DEF Original
<1>4. Original # <<>>
  BY <1>1, <1>2
<1>5. Original[1] = 1
  BY <1>1, <1>3
<1> QED  BY <1>2, <1>3, <1>4, <1>5 DEF Rejected

\* One chain contains another that is its beginning, block by block.
LEMMA ContainsBlocks ==
  ASSUME NEW c \in Seq(Nat), NEW d \in Seq(Nat)
  PROVE  GoesThrough(c, d) <=>
           Len(d) <= Len(c) /\ \A i \in 1 .. Len(d) : c[i] = d[i]
<1>1. CASE Len(d) <= Len(c)
  <2>1. Len(d) \in Nat /\ Len(c) \in Nat /\ \A i \in 1 .. Len(d) : c[i] \in Nat
    BY <1>1, LenProperties, ElementOfSeq
  <2>2. /\ SubSeq(c, 1, Len(d)) \in Seq(Nat) /\ Len(SubSeq(c, 1, Len(d))) = Len(d)
        /\ \A i \in 1 .. Len(d) : SubSeq(c, 1, Len(d))[i] = c[i]
    BY <1>1, <2>1, SubSeqProperties
  <2>3. ASSUME \A i \in 1 .. Len(d) : c[i] = d[i]
        PROVE  SubSeq(c, 1, Len(d)) = d
    BY <2>2, <2>3, SeqEqual
  <2> QED  BY <1>1, <2>2, <2>3 DEF GoesThrough
<1> QED  BY <1>1 DEF GoesThrough

\* Containment is an order in which the longer chain is the greater one.
LEMMA ContainsOrder ==
  ASSUME NEW c \in Seq(Nat), NEW d \in Seq(Nat), NEW e \in Seq(Nat)
  PROVE  /\ GoesThrough(c, c) /\ GoesThrough(c, <<>>)
         /\ GoesThrough(c, d) /\ GoesThrough(d, e) => GoesThrough(c, e)
         /\ GoesThrough(c, d) => Len(d) <= Len(c)
         /\ GoesThrough(c, d) /\ Len(c) <= Len(d) => c = d
<1>1. Len(c) \in Nat /\ Len(d) \in Nat /\ Len(e) \in Nat
  BY LenProperties
<1>2. GoesThrough(c, c)
  BY <1>1, ContainsBlocks
<1>3. GoesThrough(c, <<>>)
  <2>1. <<>> \in Seq(Nat) /\ Len(<<>>) = 0
    BY EmptySeq
  <2>2. GoesThrough(c, <<>>) <=>
          Len(<<>>) <= Len(c) /\ \A i \in 1 .. Len(<<>>) : c[i] = <<>>[i]
    BY <2>1, ContainsBlocks
  <2>3. 1 .. Len(<<>>) = {}
    BY <2>1
  <2> QED  BY <1>1, <2>1, <2>2, <2>3
<1>4. ASSUME GoesThrough(c, d), GoesThrough(d, e) PROVE GoesThrough(c, e)
  BY <1>1, <1>4, ContainsBlocks
<1>5. ASSUME GoesThrough(c, d), Len(c) <= Len(d) PROVE c = d
  BY <1>1, <1>5, ContainsBlocks, SeqEqual
<1> QED  BY <1>2, <1>3, <1>4, <1>5 DEF GoesThrough

\* A new block makes its chain longer and changes nothing below it; blocks
\* mined after the branch are not part of it.
LEMMA AppendBlock ==
  ASSUME NEW c \in Seq(Nat), NEW x \in Nat, x > Depth, Whole(c)
  PROVE  /\ Append(c, x) \in Seq(Nat) /\ Len(Append(c, x)) = Len(c) + 1
         /\ Append(c, x) # <<>> /\ GoesThrough(Append(c, x), c)
         /\ GoesThrough(Append(c, x), Original) <=> GoesThrough(c, Original)
         /\ Rejected(Append(c, x)) <=> Rejected(c)
         /\ Whole(Append(c, x))
<1> DEFINE a == Append(c, x)
<1>1. /\ a \in Seq(Nat) /\ a # <<>> /\ Len(a) = Len(c) + 1 /\ a[Len(c) + 1] = x
      /\ \A i \in 1 .. Len(c) : a[i] = c[i]
  BY AppendProperties
<1>2. Len(c) \in Nat /\ Depth \in Nat \ {0}
  BY LenProperties, ChainConstants
<1> HIDE DEF a
<1>3. GoesThrough(a, c)
  BY <1>1, <1>2, ContainsBlocks
<1>4. GoesThrough(a, Original) <=> GoesThrough(c, Original)
  <2>1. /\ Original \in Seq(Nat) /\ Len(Original) = Depth
        /\ \A i \in 1 .. Depth : Original[i] = i
    BY OriginalChain
  <2>2. /\ GoesThrough(a, Original)
             <=> Depth <= Len(c) + 1 /\ \A i \in 1 .. Depth : a[i] = i
        /\ GoesThrough(c, Original)
             <=> Depth <= Len(c) /\ \A i \in 1 .. Depth : c[i] = i
    BY <1>1, <2>1, ContainsBlocks
  <2>3. CASE Depth <= Len(c)
    <3>1. \A i \in 1 .. Depth : a[i] = c[i]
      BY <1>1, <1>2, <2>3
    <3> QED  BY <1>2, <2>2, <2>3, <3>1
  <2>4. CASE Depth > Len(c)
    BY <1>1, <1>2, <2>2, <2>4
  <2> QED  BY <1>2, <2>3, <2>4
<1>5. Rejected(a) <=> Rejected(c)
  <2>1. CASE c = <<>>
    BY <2>1, <1>1, <1>2, EmptySeq DEF Rejected
  <2>2. CASE c # <<>>
    BY <2>2, <1>1, <1>2, EmptySeq DEF Rejected
  <2> QED  BY <2>1, <2>2
<1>6. Whole(a)
  BY <1>4, <1>5 DEF Whole
<1> QED  BY <1>1, <1>3, <1>4, <1>5, <1>6 DEF a

(***************************************************************************)
(* Nodes.                                                                  *)
(***************************************************************************)
\* A node told to reject block 1 turns to the best chain without it.
LEMMA InvalidateNode ==
  ASSUME NodeInv, NEW n \in NodeNames, invalidateblock(n)
  PROVE  /\ NodeInv' /\ known' = known /\ bad' = bad \cup {n} /\ minted' = minted
         /\ \A m \in NodeNames \ {n} : active'[m] = active[m]
         /\ ~Rejected(active'[n])
<1>1. /\ known' = known /\ bad' = bad \cup {n} /\ minted' = minted
  BY DEF invalidateblock, SetNode, NodeInv
<1>2. PICK b \in Best(known[n], TRUE, active[n]) : active' = [active EXCEPT ![n] = b]
  BY DEF invalidateblock, SetNode
<1>3. /\ b \in known[n] \cup {<<>>} /\ ~Rejected(b)
      /\ \A c \in known[n] : ~Rejected(c) => Len(c) <= Len(b)
  BY DEF Best, Longest
<1>4. b \in Seq(Nat)
  BY <1>3, EmptySeq DEF NodeInv
<1>5. NodeInv'
  BY <1>1, <1>2, <1>3, <1>4 DEF NodeInv, Allowed
<1> QED  BY <1>1, <1>2, <1>3, <1>5 DEF NodeInv

\* A node told to accept block 1 again turns to the best of its chains; one
\* that had not rejected it stays where it is.
LEMMA ReconsiderNode ==
  ASSUME NodeInv, NEW n \in NodeNames, reconsiderblock(n)
  PROVE  /\ NodeInv' /\ known' = known /\ bad' = bad \ {n} /\ minted' = minted
         /\ \A m \in NodeNames \ {n} : active'[m] = active[m]
         /\ n \notin bad => active' = active
<1> DEFINE current == IF n \in bad THEN <<>> ELSE active[n]
<1>1. /\ known' = known /\ bad' = bad \ {n} /\ minted' = minted
  BY DEF reconsiderblock, SetNode, NodeInv
<1>2. PICK b \in Best(known[n], FALSE, current) : active' = [active EXCEPT ![n] = b]
  BY DEF reconsiderblock, SetNode
<1>3. /\ b \in known[n] \cup {<<>>}
      /\ \A c \in known[n] : Len(c) <= Len(b)
  BY DEF Best, Longest
<1>4. b \in Seq(Nat)
  BY <1>3, EmptySeq DEF NodeInv
<1>5. NodeInv'
  BY <1>1, <1>2, <1>3, <1>4 DEF NodeInv, Allowed
<1>6. ASSUME n \notin bad PROVE active' = active
  <2>1. active[n] \in Longest(known[n] \cup {<<>>})
    <3>1. active[n] \in Seq(Nat) /\ Len(<<>>) <= Len(active[n])
      BY EmptySeq, LenProperties DEF NodeInv
    <3> QED  BY <1>6, <3>1 DEF Longest, NodeInv, Allowed
  <2>2. {c \in known[n] \cup {<<>>} : ~(FALSE /\ Rejected(c))} = known[n] \cup {<<>>}
    OBVIOUS
  <2>3. b = active[n]
    BY <1>6, <2>1, <2>2 DEF Best
  <2> QED  BY <1>2, <2>3 DEF NodeInv
<1> QED  BY <1>1, <1>2, <1>5, <1>6 DEF NodeInv

\* A node that has mined a block is on it.
LEMMA GenerateOnNode ==
  ASSUME NodeInv, NEW n \in NodeNames, generateblock(n)
  PROVE  /\ NodeInv' /\ bad' = bad /\ minted' = minted + 1
         /\ active' = [active EXCEPT ![n] = Append(active[n], minted + 1)]
         /\ known' = [known EXCEPT ![n] =
                        Learn(known[n], Append(active[n], minted + 1))]
         /\ Len(Append(active[n], minted + 1)) = Len(active[n]) + 1
<1> DEFINE c == Append(active[n], minted + 1)
           k == Learn(known[n], c)
<1>1. /\ active[n] \in Seq(Nat) /\ known[n] \in SUBSET Seq(Nat)
      /\ Len(active[n]) \in Nat /\ minted \in Nat /\ minted + 1 > Depth
      /\ Whole(active[n])
  <2>1. Whole(<<>>)
    BY DEF Whole, Rejected
  <2> QED  BY <2>1, ChainConstants, LenProperties DEF NodeInv
<1>2. /\ c \in Seq(Nat) /\ Len(c) = Len(active[n]) + 1 /\ Whole(c)
      /\ Rejected(c) <=> Rejected(active[n])
  BY <1>1, AppendBlock
<1>3. k \subseteq known[n] \cup {c} /\ c \in k
  BY DEF Learn
<1>4. /\ known' = [known EXCEPT ![n] = k] /\ bad' = bad /\ minted' = minted + 1
  BY DEF generateblock, SetNode, NodeInv
<1>5. PICK b \in Best(k, n \in bad, c) : active' = [active EXCEPT ![n] = b]
  BY DEF generateblock, SetNode
<1> HIDE DEF c, k
<1>6. c \in Longest({d \in k \cup {<<>>} : ~(n \in bad /\ Rejected(d))})
  <2>1. \A d \in k \cup {<<>>} : ~(n \in bad /\ Rejected(d)) => Len(d) <= Len(c)
    <3>1. \A d \in known[n] : ~(n \in bad /\ Rejected(d)) => Len(d) <= Len(active[n])
      BY DEF NodeInv, Allowed
    <3>2. \A d \in known[n] \cup {<<>>} : Len(d) \in Nat
      BY <1>1, EmptySeq, LenProperties
    <3>3. Len(<<>>) = 0
      BY EmptySeq
    <3> QED  BY <1>1, <1>2, <1>3, <3>1, <3>2, <3>3
  <2> QED  BY <1>2, <1>3, <2>1 DEF Longest, NodeInv, Allowed
<1>7. b = c
  BY <1>6 DEF Best
<1>8. NodeInv'
  <2>1. \A d \in k : d \in Seq(Nat) /\ Whole(d)
    BY <1>2, <1>3 DEF NodeInv
  <2>2. \A d \in k : ~(n \in bad /\ Rejected(d)) => Len(d) <= Len(c)
    BY <1>6 DEF Longest
  <2>3. minted' \in Nat /\ minted' >= Depth
    BY <1>1, <1>4, ChainConstants
  <2> QED  BY <1>2, <1>3, <1>4, <1>5, <1>6, <1>7, <2>1, <2>2, <2>3
              DEF NodeInv, Allowed, Longest
<1> QED  BY <1>1, <1>2, <1>4, <1>5, <1>7, <1>8 DEF c, k

\* A node that hears of a chain follows it only if it is longer than its own.
LEMMA RelayToNode ==
  ASSUME NodeInv, NEW n \in NodeNames, NEW m \in NodeNames, Relay(n, m)
  PROVE  /\ NodeInv' /\ bad' = bad
         /\ known' = [known EXCEPT ![m] = Learn(known[m], active[n])]
         /\ \A o \in NodeNames \ {m} : active'[o] = active[o]
         /\ active'[m] \in {active[m], active[n]}
         /\ Len(active[n]) <= Len(active[m]) => active' = active
<1> DEFINE c == active[n]
           k == Learn(known[m], c)
<1>1. /\ c \in Seq(Nat) /\ active[m] \in Seq(Nat) /\ known[m] \in SUBSET Seq(Nat)
      /\ Len(c) \in Nat /\ Len(active[m]) \in Nat /\ Whole(c)
      /\ <<>> \in Seq(Nat) /\ Len(<<>>) = 0
  <2>1. Whole(<<>>)
    BY DEF Whole, Rejected
  <2> QED  BY <2>1, EmptySeq, LenProperties DEF NodeInv
<1>2. ~(m \in bad /\ Rejected(c))
  BY DEF Relay, Unheard
<1>3. ~GoesThrough(active[m], c)
  BY DEF Relay, Unheard, NodeInv
<1>4. /\ k \subseteq known[m] \cup {c} /\ c \in k
      /\ \A d \in known[m] : d \in k \/ GoesThrough(c, d)
  BY DEF Learn
<1>5. /\ known' = [known EXCEPT ![m] = k] /\ bad' = bad /\ minted' = minted
  BY DEF Relay, SetNode, NodeInv
<1>6. PICK b \in Best(k, m \in bad, active[m]) : active' = [active EXCEPT ![m] = b]
  BY DEF Relay, SetNode
<1> DEFINE cand == {d \in k \cup {<<>>} : ~(m \in bad /\ Rejected(d))}
<1>7. b \in Longest(cand) /\ (active[m] \in Longest(cand) => b = active[m])
  BY DEF Best
<1> HIDE DEF c, k
<1>8. /\ b \in k \cup {<<>>} /\ ~(m \in bad /\ Rejected(b))
      /\ \A d \in k : ~(m \in bad /\ Rejected(d)) => Len(d) <= Len(b)
  BY <1>7 DEF Longest
<1>9. \A d \in cand : Len(d) <= Len(active[m]) \/ d = c
  BY <1>1, <1>4 DEF NodeInv, Allowed
<1>10. ASSUME Len(c) <= Len(active[m]) PROVE b = active[m]
  <2>1. active[m] \in cand
    <3>1. active[m] \in known[m] \cup {<<>>} /\ ~(m \in bad /\ Rejected(active[m]))
      BY DEF NodeInv, Allowed
    <3>2. ASSUME GoesThrough(c, active[m]) PROVE FALSE
      <4>1. Len(active[m]) <= Len(c)
        BY <1>1, <3>2, ContainsOrder
      <4>2. c = active[m]
        BY <1>1, <1>10, <3>2, <4>1, ContainsOrder
      <4> QED  BY <1>1, <1>3, <4>2, ContainsOrder
    <3> QED  BY <1>4, <3>1, <3>2
  <2>2. active[m] \in Longest(cand)
    BY <1>9, <1>10, <2>1, <1>1 DEF Longest
  <2> QED  BY <1>7, <2>2
<1>11. b \in {active[m], c}
  <2>1. CASE Len(c) <= Len(active[m])
    BY <1>10, <2>1
  <2>2. CASE ~(Len(c) <= Len(active[m]))
    <3>1. Len(c) <= Len(b)
      BY <1>2, <1>4, <1>8
    <3> QED  BY <1>1, <1>7, <1>9, <2>2, <3>1 DEF Longest
  <2> QED  BY <2>1, <2>2
<1>12. NodeInv'
  <2>1. b \in Seq(Nat)
    BY <1>1, <1>11
  <2>2. k \in SUBSET Seq(Nat) /\ \A d \in k : Whole(d)
    BY <1>1, <1>4 DEF NodeInv
  <2> QED  BY <1>5, <1>6, <1>8, <2>1, <2>2 DEF NodeInv, Allowed
<1>13. Len(c) <= Len(active[m]) => active' = active
  BY <1>6, <1>10 DEF NodeInv
<1> QED  BY <1>5, <1>6, <1>11, <1>12, <1>13 DEF NodeInv, c, k

(***************************************************************************)
(* What the nodes do by themselves.                                        *)
(***************************************************************************)
\* Where all nodes have the branch, or none does, blocks that are mined or
\* relayed change nothing about it: a node follows only longer chains, and a
\* chain grows only where some node is on it.
LEMMA BranchIsStable ==
  ASSUME NodeInv,
         \/ \E n, m \in NodeNames : Relay(n, m)
         \/ \E n \in NodeNames : generateblock(n)
  PROVE  (AllIn => AllIn') /\ (AllOut => AllOut')
<1>1. ASSUME NEW n \in NodeNames, NEW m \in NodeNames, Relay(n, m)
      PROVE  (AllIn => AllIn') /\ (AllOut => AllOut')
  BY <1>1, RelayToNode DEF AllIn, AllOut
<1>2. ASSUME NEW n \in NodeNames, generateblock(n)
      PROVE  (AllIn => AllIn') /\ (AllOut => AllOut')
  <2>1. active' = [active EXCEPT ![n] = Append(active[n], minted + 1)]
    BY <1>2, GenerateOnNode
  <2>2. /\ active[n] \in Seq(Nat) /\ Whole(active[n])
        /\ minted + 1 \in Nat /\ minted + 1 > Depth
    BY <1>2, ChainConstants DEF NodeInv, Whole, Rejected
  <2>3. GoesThrough(Append(active[n], minted + 1), Original)
          <=> GoesThrough(active[n], Original)
    BY <2>2, AppendBlock
  <2> QED  BY <2>1, <2>3 DEF AllIn, AllOut, NodeInv
<1> QED  BY <1>1, <1>2

\* As long as nobody mines, the nodes know the branch and nothing else.
LEMMA UntouchedNodes ==
  ASSUME NodeInv, Untouched
  PROVE  /\ \A n \in NodeNames : active[n] \in {Original, <<>>}
         /\ \A n \in NodeNames : GoesThrough(active[n], Original) <=> active[n] = Original
         /\ \A n \in NodeNames : n \notin bad => active[n] = Original
         /\ \A n, m \in NodeNames : ~Unheard(n, m)
<1>1. \A n \in NodeNames : active[n] \in {Original, <<>>}
  BY DEF NodeInv, Untouched
<1>2. /\ GoesThrough(Original, Original) /\ GoesThrough(Original, <<>>)
      /\ ~GoesThrough(<<>>, Original)
  <2>1. Original \in Seq(Nat) /\ Len(Original) = Depth /\ Depth > 0 /\ Len(<<>>) = 0
    BY OriginalChain, EmptySeq, ChainConstants
  <2>2. GoesThrough(Original, Original) /\ GoesThrough(Original, <<>>)
    BY <2>1, ContainsOrder
  <2>3. ~GoesThrough(<<>>, Original)
    BY <2>1, ChainConstants DEF GoesThrough
  <2> QED  BY <2>2, <2>3
<1>3. \A n \in NodeNames : GoesThrough(active[n], Original) <=> active[n] = Original
  BY <1>1, <1>2
<1>4. \A n \in NodeNames : n \notin bad => active[n] = Original
  <2>1. Len(Original) = Depth /\ Len(<<>>) = 0 /\ Depth \in Nat \ {0}
    BY OriginalChain, EmptySeq, ChainConstants
  <2> QED  BY <1>1, <2>1 DEF NodeInv, Untouched, Allowed
<1>5. \A n, m \in NodeNames : ~Unheard(n, m)
  BY <1>1, <1>2 DEF Untouched, Unheard
<1> QED  BY <1>1, <1>3, <1>4, <1>5

\* A step that leaves the nodes alone.
LEMMA NodesAtRest ==
  ASSUME UNCHANGED nodeVars
  PROVE  /\ NodeInv => NodeInv'
         /\ AllIn' = AllIn /\ AllOut' = AllOut /\ Untouched' = Untouched
         /\ Adopted' = Adopted /\ bad' = bad /\ active' = active /\ known' = known
<1>1. /\ known' = known /\ active' = active /\ bad' = bad /\ minted' = minted
  BY DEF nodeVars
<1>2. NodeInv => NodeInv'
  BY <1>1 DEF NodeInv, Allowed
<1> QED  BY <1>1, <1>2 DEF AllIn, AllOut, Untouched, Adopted

\* When miner and node1 agree during a reorganisation no node has a longer
\* chain: the miner has every chain there is, and what it rejects is no longer
\* than the branch, which node1 does not reject.
LEMMA AdoptedIsLongest ==
  ASSUME NodeInv, ReorgInv, Adopted, NEW n \in NodeNames
  PROVE  Len(active[n]) <= Len(active["node1"])
<1> DEFINE tip == active["node1"]
<1>1. /\ tip \in Seq(Nat) /\ Len(tip) \in Nat /\ active[Target] = tip
      /\ Depth \in Nat /\ Len(Original) = Depth /\ Original \in Seq(Nat)
  BY ChainConstants, OriginalChain, LenProperties
     DEF NodeInv, Adopted, NodeNames
<1>2. Depth <= Len(tip)
  <2>1. PICK c \in known["node1"] : GoesThrough(c, Original)
    BY DEF ReorgInv, Branches, NodeNames
  <2>2. c \in Seq(Nat) /\ Len(c) \in Nat /\ Len(c) <= Len(tip)
    BY LenProperties
       DEF NodeInv, ReorgInv, Branches, Allowed, NodeNames, Target
  <2>3. Len(Original) <= Len(c)
    BY <2>1 DEF GoesThrough
  <2> QED  BY <1>1, <2>2, <2>3
<1>3. \A d \in known[Target] : Len(d) <= Len(tip)
  <2> TAKE d \in known[Target]
  <2>1. Target \in NodeNames /\ d \in Seq(Nat) /\ Len(d) \in Nat
    BY LenProperties DEF NodeInv, NodeNames, Target
  <2>2. CASE Target \in bad
    <3>1. d = Original \/ GoesThrough(tip, d)
      BY <1>1, <2>2 DEF ReorgInv, Branches
    <3> QED  BY <1>1, <1>2, <3>1 DEF GoesThrough
  <2>3. CASE Target \notin bad
    BY <1>1, <2>1, <2>3 DEF NodeInv, Allowed
  <2> QED  BY <2>2, <2>3
<1>4. active[n] \in Seq(Nat) /\ Len(active[n]) \in Nat /\ Len(<<>>) = 0
  BY LenProperties, EmptySeq DEF NodeInv
<1>5. CASE active[n] = <<>>
  BY <1>1, <1>4, <1>5
<1>6. CASE active[n] \in known[n]
  <2>1. PICK d \in known[Target] : GoesThrough(d, active[n])
    BY <1>6 DEF ReorgInv, Branches
  <2>2. Len(active[n]) <= Len(d) /\ Len(d) <= Len(tip)
    BY <1>3, <2>1 DEF GoesThrough
  <2>3. Len(d) \in Nat
    BY LenProperties DEF NodeInv, NodeNames, Target
  <2> QED  BY <1>1, <1>4, <2>2, <2>3
<1> QED  BY <1>5, <1>6 DEF NodeInv

\* A relayed block disturbs nothing a job counts on.
LEMMA RelayStep ==
  ASSUME ChainInv, NEW n \in NodeNames, NEW m \in NodeNames, Relay(n, m),
         UNCHANGED kind
  PROVE  ChainInv'
<1>1. NodeInv' /\ bad' = bad
  BY RelayToNode DEF ChainInv
<1>2. UNCHANGED <<at, outcome, context, saved, leased, abort, foreign, faults, kind>>
  BY DEF Relay, jobVars
<1>3. JobTypes'
  BY <1>2 DEF ChainInv, JobTypes
<1>4. ASSUME kind = "rewind" PROVE RewindInv'
  <2>1. (AllIn => AllIn') /\ (AllOut => AllOut')
    BY BranchIsStable DEF ChainInv
  <2>2. RewindInv
    BY <1>4 DEF ChainInv
  <2>3. foreign # 0
    BY <2>2, UntouchedNodes DEF RewindInv, Relay, ChainInv
  <2> QED  BY <1>1, <1>2, <2>1, <2>2, <2>3
              DEF RewindInv, Executing, Invalidation, At
<1>5. ASSUME kind = "reorg", foreign = 0 PROVE ReorgInv'
  <2>1. ReorgInv /\ NodeInv
    BY <1>5 DEF ChainInv
  <2>2. /\ known' = [known EXCEPT ![m] = Learn(known[m], active[n])]
        /\ \A o \in NodeNames \ {m} : active'[o] = active[o]
        /\ Len(active[n]) <= Len(active[m]) => active' = active
    BY <2>1, RelayToNode
  <2>3. m # Target
    <3>1. \E d \in known[Target] \cup {<<>>} : GoesThrough(d, active[n])
      <4>1. GoesThrough(<<>>, <<>>)
        BY EmptySeq, ContainsOrder
      <4> QED  BY <2>1, <4>1 DEF ReorgInv, Branches, NodeInv
    <3> QED  BY <3>1 DEF Relay, Unheard
  <2>4. known'[Target] = known[Target] /\ active'[Target] = active[Target]
    BY <2>2, <2>3 DEF NodeInv, Target, NodeNames
  <2>5. \A o \in NodeNames : \E c \in known'[o] : GoesThrough(c, Original)
    <3> TAKE o \in NodeNames
    <3>1. PICK c \in known[o] : GoesThrough(c, Original)
      BY <2>1 DEF ReorgInv, Branches
    <3>2. CASE c \in known'[o]
      BY <3>1, <3>2
    <3>3. CASE c \notin known'[o]
      <4>1. o = m /\ GoesThrough(active[n], c) /\ active[n] \in known'[o]
        BY <2>1, <2>2, <3>3 DEF Learn, NodeInv
      <4>2. GoesThrough(active[n], Original)
        BY <2>1, <3>1, <4>1, OriginalChain, ContainsOrder DEF NodeInv
      <4> QED  BY <4>1, <4>2
    <3> QED  BY <3>2, <3>3
  <2>6. \A o \in NodeNames : \A c \in known'[o] :
          \E d \in known'[Target] : GoesThrough(d, c)
    <3> TAKE o \in NodeNames
    <3> TAKE c \in known'[o]
    <3>1. c \in known[o] \/ c = active[n]
      BY <2>1, <2>2 DEF Learn, NodeInv
    <3>2. c \in known[o] \/ c \in known[n] \/ c = <<>>
      BY <2>1, <3>1 DEF NodeInv
    <3>3. PICK d \in known[Target] : c = <<>> \/ GoesThrough(d, c)
      BY <2>1, <3>2 DEF ReorgInv, Branches, Target, NodeNames
    <3>4. GoesThrough(d, <<>>)
      BY <2>1, ContainsOrder DEF NodeInv, Target, NodeNames
    <3> QED  BY <2>4, <3>3, <3>4
  <2>7. At({"idle", "prepared", "mutate"}) => FALSE
    BY <2>1, UntouchedNodes DEF ReorgInv, Branches, Relay
  <2>8. ASSUME Adopted PROVE Adopted'
    <3>1. CASE m = "node1"
      BY <2>1, <2>2, <2>8, <3>1, AdoptedIsLongest DEF Adopted
    <3>2. CASE m # "node1"
      BY <2>2, <2>4, <2>8, <3>2 DEF Adopted, NodeNames
    <3> QED  BY <3>1, <3>2
  <2> QED
    BY <1>1, <1>2, <2>1, <2>4, <2>5, <2>6, <2>7, <2>8
       DEF ReorgInv, Branches, At
<1> QED  BY <1>1, <1>2, <1>3, <1>4, <1>5 DEF ChainInv

\* A block mined while no lease holds the miners.
LEMMA MineForeignStep ==
  ASSUME ChainInv, NEW m \in Miners, MineForeign(m), UNCHANGED kind
  PROVE  ChainInv'
<1>1. m \in NodeNames /\ generateblock(m)
  BY DEF MineForeign, Miners, NodeNames
<1>2. NodeInv' /\ bad' = bad /\ (AllIn => AllIn') /\ (AllOut => AllOut')
  BY <1>1, GenerateOnNode, BranchIsStable DEF ChainInv
<1>3. UNCHANGED <<at, outcome, context, saved, leased, abort, faults, kind>>
  BY DEF MineForeign, jobVars
<1>4. foreign' \in 0 .. MaxForeign /\ foreign' # 0
  BY ChainConstants DEF MineForeign, ChainInv, JobTypes
<1>5. JobTypes'
  BY <1>3, <1>4 DEF ChainInv, JobTypes
<1>6. kind = "rewind" => RewindInv'
  BY <1>2, <1>3, <1>4 DEF ChainInv, RewindInv, Executing, Invalidation, At
<1> QED  BY <1>2, <1>3, <1>4, <1>5, <1>6 DEF ChainInv

(***************************************************************************)
(* The rewind.                                                             *)
(***************************************************************************)
\* Where a rewind can be.
LEMMA RewindTypes ==
  ASSUME ChainInv, kind = "rewind", RewindStep, UNCHANGED kind
  PROVE  JobTypes'
<1>1. CASE \/ PrepareRewind \/ BeginInvalidation \/ WaitForExactTip
           \/ ResolveRewind \/ WaitForOriginal \/ RecoverRewind
  BY <1>1, ChainConstants
     DEF PrepareRewind, BeginInvalidation, WaitForExactTip, ResolveRewind,
         WaitForOriginal, RecoverRewind, Persist, Go, Fault, NoFault,
         JobTypes, ChainInv, Places, Step, Invalidating, Restoring
<1>2. ASSUME NEW i \in 1 .. 3, Invalidate(i) \/ VerifyInvalidated(i) \/ Restore(i)
      PROVE  JobTypes'
  BY <1>2, ChainConstants
     DEF Invalidate, VerifyInvalidated, Restore, Call, Persist, Go, Fault,
         NoFault, JobTypes, ChainInv, Places, Step, Invalidating, Restoring,
         Verifying
<1> QED  BY <1>1, <1>2 DEF RewindStep

\* The context is saved before any node is touched.
LEMMA PrepareRewindStep ==
  ASSUME ChainInv, kind = "rewind", PrepareRewind
  PROVE  NodeInv' /\ RewindInv'
<1>1. /\ NodeInv' /\ AllIn' = AllIn /\ AllOut' = AllOut
      /\ Untouched' = Untouched /\ bad' = bad
  BY NodesAtRest DEF PrepareRewind, ChainInv
<1> QED  BY <1>1
            DEF ChainInv, RewindInv, Executing, Invalidation, At,
                PrepareRewind, Persist, Go, Step, Invalidating, Verifying,
                Restoring

\* The rollback ends when all nodes have the branch.
LEMMA WaitForOriginalStep ==
  ASSUME ChainInv, kind = "rewind", WaitForOriginal
  PROVE  NodeInv' /\ RewindInv'
<1>1. /\ NodeInv' /\ AllIn' = AllIn /\ AllOut' = AllOut
      /\ Untouched' = Untouched /\ bad' = bad
  BY NodesAtRest DEF WaitForOriginal, ChainInv
<1>2. CommonChainContains(Original) => AllIn
  BY DEF CommonChainContains, CommonTip, AllIn
<1> QED  BY <1>1, <1>2
            DEF ChainInv, RewindInv, Executing, Invalidation, At,
                WaitForOriginal, Persist, Go, Step, Invalidating, Verifying,
                Restoring

\* An abort before the first invalidation leaves the branch everywhere.
LEMMA BeginInvalidationStep ==
  ASSUME ChainInv, kind = "rewind", BeginInvalidation
  PROVE  NodeInv' /\ RewindInv'
<1>1. /\ NodeInv' /\ AllIn' = AllIn /\ AllOut' = AllOut
      /\ Untouched' = Untouched /\ bad' = bad
  BY NodesAtRest DEF BeginInvalidation, ChainInv
<1> QED  BY <1>1
            DEF ChainInv, RewindInv, Executing, Invalidation, At,
                BeginInvalidation, Persist, Go, Step, Invalidating, Verifying,
                Restoring

\* Equal tips at the boundary mean that no node has the branch.
LEMMA WaitForExactTipStep ==
  ASSUME ChainInv, kind = "rewind", WaitForExactTip
  PROVE  NodeInv' /\ RewindInv'
<1>1. /\ NodeInv' /\ AllIn' = AllIn /\ AllOut' = AllOut
      /\ Untouched' = Untouched /\ bad' = bad
  BY NodesAtRest DEF WaitForExactTip, ChainInv
<1>2. TipsEqual(<<>>) => AllOut
  <2>1. ~GoesThrough(<<>>, Original)
    BY EmptySeq, OriginalChain, ChainConstants DEF GoesThrough
  <2> QED  BY <2>1 DEF TipsEqual, AllOut
<1> QED  BY <1>1, <1>2
            DEF ChainInv, RewindInv, Executing, Invalidation, At,
                WaitForExactTip, Go, Step, Invalidating, Verifying, Restoring

\* The rewind stands, whether or not its context could be saved.
LEMMA ResolveRewindStep ==
  ASSUME ChainInv, kind = "rewind", ResolveRewind
  PROVE  NodeInv' /\ RewindInv'
<1>1. /\ NodeInv' /\ AllIn' = AllIn /\ AllOut' = AllOut
      /\ Untouched' = Untouched /\ bad' = bad
  BY NodesAtRest DEF ResolveRewind, ChainInv
<1> QED  BY <1>1
            DEF ChainInv, RewindInv, Executing, Invalidation, At,
                ResolveRewind, Persist, Go, Step, Invalidating, Verifying,
                Restoring

\* Recovery keeps a rewind only if no node has the branch.
LEMMA RecoverRewindStep ==
  ASSUME ChainInv, kind = "rewind", RecoverRewind
  PROVE  NodeInv' /\ RewindInv'
<1>1. /\ NodeInv' /\ AllIn' = AllIn /\ AllOut' = AllOut
      /\ Untouched' = Untouched /\ bad' = bad
  BY NodesAtRest DEF RecoverRewind, ChainInv
<1>2. CompletedRewindIsSafe => AllOut
  <2>1. ~GoesThrough(<<>>, Original)
    BY EmptySeq, OriginalChain, ChainConstants DEF GoesThrough
  <2> QED  BY <2>1
              DEF CompletedRewindIsSafe, TipsEqual, CommonTip,
                  CommonChainContains, AllOut
<1> QED  BY <1>1, <1>2
            DEF ChainInv, RewindInv, Executing, Invalidation, At,
                RecoverRewind, Persist, Go, Step, Invalidating, Verifying,
                Restoring

\* One more node rejects the branch: from here on nothing is claimed of the
\* nodes until they have been asked.
LEMMA InvalidateStep ==
  ASSUME ChainInv, kind = "rewind", NEW i \in 1 .. 3, Invalidate(i)
  PROVE  NodeInv' /\ RewindInv'
<1>1. NodeInv' /\ Untouched' = Untouched
  <2>1. CASE UNCHANGED nodeVars
    BY <2>1, NodesAtRest DEF ChainInv
  <2>2. CASE invalidateblock(InvalidationOrder[i])
    <3>1. InvalidationOrder[i] \in NodeNames
      BY DEF InvalidationOrder, NodeNames
    <3> QED  BY <2>2, <3>1, InvalidateNode DEF ChainInv, Untouched
  <2> QED  BY <2>1, <2>2 DEF Invalidate, Call
<1>2. /\ at = Invalidating(i) /\ at' \in {Verifying(i), Restoring(1)}
      /\ UNCHANGED <<outcome, context, saved, foreign>>
  BY DEF Invalidate, Call, Go
<1> QED  BY <1>1, <1>2
            DEF ChainInv, RewindInv, Executing, Invalidation, At, Step,
                Invalidating, Verifying, Restoring

\* The check after each node.
LEMMA VerifyInvalidatedStep ==
  ASSUME ChainInv, kind = "rewind", NEW i \in 1 .. 3, VerifyInvalidated(i)
  PROVE  NodeInv' /\ RewindInv'
<1>1. /\ NodeInv' /\ AllIn' = AllIn /\ AllOut' = AllOut
      /\ Untouched' = Untouched /\ bad' = bad
  BY NodesAtRest DEF VerifyInvalidated, ChainInv
<1> QED  BY <1>1
            DEF ChainInv, RewindInv, Executing, Invalidation, At,
                VerifyInvalidated, Persist, Go, Step, Invalidating, Verifying,
                Restoring

\* The rollback takes nothing from a node that has the branch.
LEMMA RestoreStep ==
  ASSUME ChainInv, kind = "rewind", NEW i \in 1 .. 3, Restore(i)
  PROVE  NodeInv' /\ RewindInv'
<1>1. RewindInv /\ NodeInv
  BY DEF ChainInv
<1>2. /\ NodeInv' /\ Untouched' = Untouched
      /\ AllIn /\ bad = {} => AllIn' /\ bad' = {}
      /\ AllIn /\ Untouched => AllIn'
  <2>1. CASE UNCHANGED nodeVars
    BY <1>1, <2>1, NodesAtRest
  <2>2. CASE reconsiderblock(RestoreOrder[i])
    <3> DEFINE n == RestoreOrder[i]
    <3>1. n \in NodeNames
      BY DEF RestoreOrder, NodeNames
    <3>2. /\ NodeInv' /\ known' = known /\ bad' = bad \ {n}
          /\ \A m \in NodeNames \ {n} : active'[m] = active[m]
          /\ n \notin bad => active' = active
      BY <1>1, <2>2, <3>1, ReconsiderNode
    <3>3. Untouched' = Untouched
      BY <3>2 DEF Untouched
    <3>4. AllIn /\ bad = {} => AllIn' /\ bad' = {}
      BY <3>2 DEF AllIn
    <3>5. ASSUME AllIn, Untouched PROVE AllIn'
      <4>1. Len(<<>>) = 0 /\ Len(Original) > 0 /\ Original \in Seq(Nat)
        BY EmptySeq, OriginalChain, ChainConstants
      <4>2. active'[n] \in {Original, <<>>} /\ Len(Original) <= Len(active'[n])
        BY <3>1, <3>2, <3>3, <3>5 DEF NodeInv, Untouched, Allowed
      <4>3. active'[n] = Original
        BY <4>1, <4>2
      <4>4. GoesThrough(Original, Original)
        BY <4>1, ContainsOrder
      <4> QED  BY <3>2, <3>5, <4>3, <4>4 DEF AllIn
    <3> QED  BY <3>2, <3>3, <3>4, <3>5
  <2> QED  BY <2>1, <2>2 DEF Restore
<1>3. /\ at = Restoring(i) /\ at' \in {Restoring(1), Restoring(i + 1)}
      /\ UNCHANGED <<outcome, context, foreign>> /\ saved' \in {saved, context}
  BY DEF Restore, Persist, Go
<1> QED  BY <1>1, <1>2, <1>3
            DEF ChainInv, RewindInv, Executing, Invalidation, At, Step,
                Invalidating, Verifying, Restoring

(***************************************************************************)
(* The reorganisation, as long as nobody else mines.                       *)
(***************************************************************************)
\* Where a reorg can be.
LEMMA ReorgTypes ==
  ASSUME ChainInv, kind = "reorg", ReorgStep, UNCHANGED kind
  PROVE  JobTypes'
<1>1. CASE \/ PrepareReorg \/ AnnounceInvalidation \/ InvalidateTarget
           \/ VerifyTransactions \/ RecoverReorg
  BY <1>1, ChainConstants, ExtraConstant
     DEF PrepareReorg, AnnounceInvalidation, InvalidateTarget,
         VerifyTransactions, RecoverReorg, AfterRecovery, Call, Persist, Go,
         Fault, NoFault, JobTypes, ChainInv, Places, Step, Mining, Extending
<1>2. ASSUME NEW i \in 1 .. Depth + 1, MineReplacement(i)
      PROVE  JobTypes'
  BY <1>2, ChainConstants, ExtraConstant
     DEF MineReplacement, Call, Go, Fault, NoFault, JobTypes, ChainInv,
         Places, Step, Mining, Racing
<1>3. ASSUME NEW i \in 0 .. MaxExtra, Race(i)
      PROVE  JobTypes'
  BY <1>3, ChainConstants, ExtraConstant
     DEF Race, WaitedFor, Call, Go, Fault, NoFault, JobTypes, ChainInv,
         Places, Step, Racing
<1>4. ASSUME NEW i \in 0 .. MaxExtra, Extend(i)
      PROVE  JobTypes'
  BY <1>4, ChainConstants, ExtraConstant
     DEF Extend, AfterRecovery, WaitedFor, Call, Go, Fault, NoFault, JobTypes,
         ChainInv, Places, Step, Extending
<1> QED  BY <1>1, <1>2, <1>3, <1>4 DEF ReorgStep

\* The miner takes block 1 away before it has mined anything.
LEMMA InvalidateTargetBranches ==
  ASSUME NodeInv, Branches, Untouched, invalidateblock(Target)
  PROVE  NodeInv' /\ Branches'
<1>1. NodeInv' /\ known' = known /\ bad' = bad \cup {Target}
  BY InvalidateNode DEF Target, NodeNames
<1> QED  BY <1>1 DEF Branches, Untouched, Target, NodeNames

\* The miner accepts block 1 again.
LEMMA ReconsiderTargetBranches ==
  ASSUME NodeInv, Branches, reconsiderblock(Target)
  PROVE  NodeInv' /\ Branches'
<1>1. NodeInv' /\ known' = known /\ bad' = bad \ {Target}
  BY ReconsiderNode DEF Target, NodeNames
<1> QED  BY <1>1 DEF Branches

\* The miner extends the chain it is on.
LEMMA GenerateTargetBranches ==
  ASSUME NodeInv, Branches, generateblock(Target)
  PROVE  NodeInv' /\ Branches'
<1> DEFINE c == Append(active[Target], minted + 1)
<1>1. Target \in NodeNames
  BY DEF Target, NodeNames
<1>2. /\ NodeInv' /\ bad' = bad
      /\ active' = [active EXCEPT ![Target] = c]
      /\ known' = [known EXCEPT ![Target] = Learn(known[Target], c)]
  BY <1>1, GenerateOnNode
<1>3. c \in Seq(Nat) /\ GoesThrough(c, active[Target]) /\ active[Target] \in Seq(Nat)
  <2>1. /\ active[Target] \in Seq(Nat) /\ Whole(active[Target])
        /\ minted + 1 \in Nat /\ minted + 1 > Depth
    BY <1>1, ChainConstants DEF NodeInv, Whole, Rejected
  <2> QED  BY <2>1, AppendBlock
<1>4. \A d \in known[Target] : \E e \in known'[Target] : GoesThrough(e, d)
  <2> TAKE d \in known[Target]
  <2>1. CASE GoesThrough(c, d)
    BY <1>1, <1>2, <2>1 DEF Learn, NodeInv
  <2>2. CASE ~GoesThrough(c, d)
    BY <1>1, <1>2, <2>2, ContainsOrder DEF Learn, NodeInv
  <2> QED  BY <2>1, <2>2
<1> HIDE DEF c
<1>5. known'[Target] \subseteq known[Target] \cup {c} /\ c \in known'[Target]
  BY <1>1, <1>2 DEF Learn, NodeInv
<1>6. \A n \in NodeNames : \A d \in known[n] :
        \E e \in known'[Target] : GoesThrough(e, d)
  <2> TAKE n \in NodeNames
  <2> TAKE d \in known[n]
  <2>1. PICK e \in known[Target] : GoesThrough(e, d)
    BY DEF Branches
  <2>2. PICK f \in known'[Target] : GoesThrough(f, e)
    BY <1>4
  <2>3. d \in Seq(Nat) /\ e \in Seq(Nat) /\ f \in Seq(Nat)
    BY <1>1, <1>3, <1>5 DEF NodeInv
  <2> QED  BY <2>1, <2>2, <2>3, ContainsOrder
<1>7. \A n \in NodeNames : \A d \in known'[n] :
        \E e \in known'[Target] : GoesThrough(e, d)
  <2> TAKE n \in NodeNames
  <2> TAKE d \in known'[n]
  <2>1. d \in known[n] \/ d = c
    BY <1>2, <1>5 DEF NodeInv
  <2>2. GoesThrough(c, c)
    BY <1>3, ContainsOrder
  <2> QED  BY <1>5, <1>6, <2>1, <2>2
<1>8. \A n \in NodeNames : \E d \in known'[n] : GoesThrough(d, Original)
  <2> TAKE n \in NodeNames
  <2>1. PICK d \in known[n] : GoesThrough(d, Original)
    BY DEF Branches
  <2>2. CASE n # Target
    BY <1>2, <2>1, <2>2 DEF NodeInv
  <2>3. CASE n = Target
    <3>1. PICK e \in known'[Target] : GoesThrough(e, d)
      BY <1>4, <2>3
    <3>2. d \in Seq(Nat) /\ e \in Seq(Nat) /\ Original \in Seq(Nat)
      BY <1>1, <1>3, <1>5, OriginalChain DEF NodeInv
    <3>3. GoesThrough(e, Original)
      BY <2>1, <3>1, <3>2, ContainsOrder
    <3> QED  BY <2>3, <3>3
  <2> QED  BY <2>2, <2>3
<1>9. ASSUME Target \in bad
      PROVE  \A d \in known'[Target] : d = Original \/ GoesThrough(active'[Target], d)
  <2> TAKE d \in known'[Target]
  <2>1. active'[Target] = c
    BY <1>1, <1>2 DEF NodeInv
  <2>2. d \in Seq(Nat) /\ (d = Original \/ GoesThrough(active[Target], d) \/ d = c)
    BY <1>1, <1>3, <1>5, <1>9 DEF Branches, NodeInv
  <2> QED  BY <1>3, <2>1, <2>2, ContainsOrder
<1> QED  BY <1>2, <1>7, <1>8, <1>9 DEF Branches

\* Only an agreement between miner and node1 leads to the end of the job.
LEMMA ReorgInvStep ==
  ASSUME ChainInv, kind = "reorg", foreign = 0, ReorgStep
  PROVE  NodeInv' /\ ReorgInv'
<1>1. ReorgInv /\ NodeInv /\ Branches
  BY DEF ChainInv, ReorgInv
<1> DEFINE Stays == /\ NodeInv' /\ Branches'
                   /\ Untouched' = Untouched /\ AllIn' = AllIn /\ Adopted' = Adopted
<1>2. UNCHANGED nodeVars => Stays
  BY <1>1, NodesAtRest DEF Branches
<1>3. ASSUME Untouched, AllIn PROVE Adopted
  BY <1>1, <1>3, UntouchedNodes DEF AllIn, Adopted, Target, NodeNames
<1>4. CASE PrepareReorg
  BY <1>1, <1>2, <1>3, <1>4 DEF ReorgInv, PrepareReorg, Go, At, Step
<1>5. CASE AnnounceInvalidation
  BY <1>1, <1>2, <1>3, <1>5
     DEF ReorgInv, AnnounceInvalidation, Persist, Go, At, Step
<1>6. CASE InvalidateTarget
  <2>1. Untouched
    BY <1>1, <1>6 DEF ReorgInv, InvalidateTarget, At
  <2>2. NodeInv' /\ Branches'
    BY <1>1, <1>2, <1>6, <2>1, InvalidateTargetBranches
       DEF InvalidateTarget, Call
  <2>3. at' \in {Mining(1), Step("recover")}
    BY <1>6 DEF InvalidateTarget, Call, Go
  <2> QED  BY <2>2, <2>3 DEF ReorgInv, At, Step, Mining
<1>7. ASSUME NEW i \in 1 .. Depth + 1, MineReplacement(i)
      PROVE  NodeInv' /\ ReorgInv'
  <2>1. NodeInv' /\ Branches'
    BY <1>1, <1>2, <1>7, GenerateTargetBranches DEF MineReplacement, Call
  <2>2. at' \in {Racing(0), Mining(i + 1), Step("recover")}
    BY <1>7 DEF MineReplacement, Call, Go
  <2> QED  BY <2>1, <2>2 DEF ReorgInv, At, Step, Mining, Racing
<1>8. ASSUME NEW i \in 0 .. MaxExtra, Race(i)
      PROVE  NodeInv' /\ ReorgInv'
  <2>1. NodeInv' /\ Branches'
    BY <1>1, <1>2, <1>8, GenerateTargetBranches DEF Race, WaitedFor, Call
  <2>2. \/ at' \in {Racing(i + 1), Step("recover")}
        \/ at' = Step("verify") /\ Adopted /\ UNCHANGED nodeVars
    BY <1>8 DEF Race, WaitedFor, Call, Go, NetworkAdopts
  <2> QED  BY <1>2, <2>1, <2>2 DEF ReorgInv, At, Step, Racing
<1>9. ASSUME NEW i \in 0 .. MaxExtra, Extend(i)
      PROVE  NodeInv' /\ ReorgInv'
  <2>1. NodeInv' /\ Branches'
    BY <1>1, <1>2, <1>9, GenerateTargetBranches DEF Extend, WaitedFor, Call
  <2>2. \/ at' \in {Extending(i + 1), Step("recover")}
        \/ at' \in {Step("fail"), Step("release")} /\ Adopted /\ UNCHANGED nodeVars
    BY <1>9 DEF Extend, WaitedFor, Call, Go, AfterRecovery
  <2> QED  BY <1>2, <2>1, <2>2 DEF ReorgInv, At, Step, Extending
<1>10. CASE VerifyTransactions
  BY <1>1, <1>2, <1>10 DEF ReorgInv, VerifyTransactions, Go, At, Step
<1>11. CASE RecoverReorg
  <2>1. NodeInv' /\ Branches'
    BY <1>1, <1>2, <1>11, ReconsiderTargetBranches DEF RecoverReorg, Call
  <2>2. \/ at' \in {Extending(0), Step("recover")}
        \/ at' \in {Step("fail"), Step("release")} /\ Adopted /\ UNCHANGED nodeVars
    BY <1>11 DEF RecoverReorg, Call, Go, AfterRecovery
  <2> QED  BY <1>2, <2>1, <2>2 DEF ReorgInv, At, Step, Extending
<1> QED  BY <1>4, <1>5, <1>6, <1>7, <1>8, <1>9, <1>10, <1>11 DEF ReorgStep

\* A step of either job leaves the nodes with the best chains they may have.
LEMMA ReorgNodes ==
  ASSUME ChainInv, ReorgStep
  PROVE  NodeInv'
<1>1. NodeInv /\ Target \in NodeNames
  BY DEF ChainInv, Target, NodeNames
<1>2. CASE UNCHANGED nodeVars
  BY <1>1, <1>2, NodesAtRest
<1>3. CASE invalidateblock(Target)
  BY <1>1, <1>3, InvalidateNode
<1>4. CASE reconsiderblock(Target)
  BY <1>1, <1>4, ReconsiderNode
<1>5. CASE generateblock(Target)
  BY <1>1, <1>5, GenerateOnNode
<1>6. \/ UNCHANGED nodeVars \/ invalidateblock(Target)
      \/ reconsiderblock(Target) \/ generateblock(Target)
  BY DEF ReorgStep, PrepareReorg, AnnounceInvalidation, InvalidateTarget,
         MineReplacement, Race, Extend, VerifyTransactions, RecoverReorg,
         WaitedFor, Call
<1> QED  BY <1>2, <1>3, <1>4, <1>5, <1>6

\* Every step of the two executors keeps the invariant.
LEMMA ExecutorSteps ==
  ASSUME ChainInv, ExecutorStep, UNCHANGED kind
  PROVE  ChainInv'
<1>1. CASE kind = "rewind"
  <2>1. JobTypes'
    BY <1>1, RewindTypes DEF ExecutorStep
  <2>2. NodeInv' /\ RewindInv'
    BY <1>1, PrepareRewindStep, BeginInvalidationStep, InvalidateStep,
       VerifyInvalidatedStep, WaitForExactTipStep, ResolveRewindStep,
       RestoreStep, WaitForOriginalStep, RecoverRewindStep
       DEF ExecutorStep, RewindStep
  <2> QED  BY <1>1, <2>1, <2>2 DEF ChainInv
<1>2. CASE kind = "reorg"
  <2>1. ReorgStep
    BY <1>2 DEF ExecutorStep
  <2>2. JobTypes' /\ NodeInv'
    BY <1>2, <2>1, ReorgTypes, ReorgNodes
  <2>3. foreign' = foreign
    BY <2>1
       DEF ReorgStep, PrepareReorg, AnnounceInvalidation, InvalidateTarget,
         MineReplacement, Race, Extend, VerifyTransactions, RecoverReorg
  <2>4. foreign = 0 => ReorgInv'
    BY <1>2, <2>1, ReorgInvStep
  <2> QED  BY <1>2, <2>2, <2>3, <2>4 DEF ChainInv
<1> QED  BY <1>1, <1>2 DEF ChainInv, JobTypes

(***************************************************************************)
(* The end of a job, its recovery's leases, restarts and aborts.           *)
(***************************************************************************)
\* What happens to the job around its executor keeps the invariant: the
\* nodes are left alone.
LEMMA EndingSteps ==
  ASSUME ChainInv, UNCHANGED kind,
         FinishJob \/ EnsureRecoveryLeases \/ ReleaseLeases \/ Restart
           \/ RequestAbort \/ LoseLeases
  PROVE  ChainInv'
<1>1. /\ NodeInv' /\ AllIn' = AllIn /\ AllOut' = AllOut /\ Untouched' = Untouched
      /\ Adopted' = Adopted /\ bad' = bad /\ active' = active /\ known' = known
      /\ foreign' = foreign
  BY NodesAtRest DEF ChainInv, FinishJob, EnsureRecoveryLeases, ReleaseLeases,
         Restart, RequestAbort, LoseLeases
<1>2. Branches' = Branches
  BY <1>1 DEF Branches
<1>3. faults' \in 0 .. MaxFaults
  <2>1. faults' = faults \/ (faults > 0 /\ faults' = faults - 1)
    BY DEF FinishJob, EnsureRecoveryLeases, ReleaseLeases, Restart,
           RequestAbort,
           LoseLeases, Fault, NoFault
  <2>2. faults \in 0 .. MaxFaults
    BY DEF ChainInv, JobTypes
  <2> QED  BY <2>1, <2>2, ChainConstants
<1>4. CASE FinishJob
  <2>1. DOMAIN Ending = {"succeed", "fail", "aborted"}
    BY DEF Ending
  <2>2. at \in Places
    BY DEF ChainInv, JobTypes
  <2>3. /\ at[1] \in {"succeed", "fail", "aborted"}
        /\ at' \in {Step("end"), Step("lease")}
        /\ UNCHANGED <<context, saved, abort>> /\ leased' \in BOOLEAN
    BY <1>4, <2>1 DEF FinishJob, Go
  <2>4. at \in {Step("succeed"), Step("fail"), Step("aborted")}
    BY <2>2, <2>3
       DEF Places, Step, Invalidating, Verifying, Restoring, Mining, Racing,
           Extending
  <2>5. /\ outcome' \in {"succeeded", "failed", "aborted"}
        /\ outcome' = "aborted" => at = Step("aborted")
    BY <1>4, <2>4 DEF FinishJob, Ending, Step
  <2>6. JobTypes'
    BY <1>1, <1>3, <2>3, <2>5 DEF ChainInv, JobTypes, Places
  <2>7. kind = "rewind" => RewindInv'
    BY <1>1, <2>3, <2>4, <2>5
       DEF Step, ChainInv, RewindInv, Executing, Invalidation, At,
           Invalidating, Verifying, Restoring
  <2>8. kind = "reorg" /\ foreign = 0 => ReorgInv'
    BY <1>1, <1>2, <2>3, <2>4 DEF Step, ChainInv, ReorgInv, At
  <2> QED  BY <1>1, <2>6, <2>7, <2>8 DEF ChainInv
<1>5. CASE EnsureRecoveryLeases
  <2>1. JobTypes'
    BY <1>1, <1>3, <1>5
       DEF EnsureRecoveryLeases, Go, Places, ChainInv, JobTypes
  <2>2. kind = "rewind" => RewindInv'
    BY <1>1, <1>5
       DEF EnsureRecoveryLeases, Go, Step, ChainInv, RewindInv, Executing,
           Invalidation, At, Invalidating, Verifying, Restoring
  <2>3. kind = "reorg" /\ foreign = 0 => ReorgInv'
    BY <1>1, <1>2, <1>5
       DEF EnsureRecoveryLeases, Go, Step, ChainInv, ReorgInv, At
  <2> QED  BY <1>1, <2>1, <2>2, <2>3 DEF ChainInv
<1>6. CASE ReleaseLeases
  <2>1. JobTypes'
    BY <1>1, <1>3, <1>6 DEF ReleaseLeases, Go, Places, ChainInv, JobTypes
  <2>2. kind = "rewind" => RewindInv'
    BY <1>1, <1>6
       DEF ReleaseLeases, Go, Step, ChainInv, RewindInv, Executing,
           Invalidation, At, Invalidating, Verifying, Restoring
  <2>3. kind = "reorg" /\ foreign = 0 => ReorgInv'
    BY <1>1, <1>2, <1>6 DEF ReleaseLeases, Go, Step, ChainInv, ReorgInv, At
  <2> QED  BY <1>1, <2>1, <2>2, <2>3 DEF ChainInv
<1>7. CASE Restart
  <2>1. JobTypes'
    BY <1>1, <1>3, <1>7 DEF Restart, Go, Places, ChainInv, JobTypes
  <2>2. kind = "rewind" => RewindInv'
    BY <1>1, <1>7
       DEF Restart, Go, Step, ChainInv, RewindInv, Executing, Invalidation,
           At, Invalidating, Verifying, Restoring
  <2>3. kind = "reorg" /\ foreign = 0 => ReorgInv'
    BY <1>1, <1>2, <1>7 DEF Restart, Go, Step, ChainInv, ReorgInv, At
  <2> QED  BY <1>1, <2>1, <2>2, <2>3 DEF ChainInv
<1>8. CASE RequestAbort \/ LoseLeases
  <2>1. JobTypes' /\ UNCHANGED <<at, outcome, context, saved>>
    BY <1>1, <1>3, <1>8 DEF RequestAbort, LoseLeases, ChainInv, JobTypes
  <2>2. kind = "rewind" => RewindInv'
    BY <1>1, <2>1 DEF ChainInv, RewindInv, Executing, Invalidation, At
  <2>3. kind = "reorg" /\ foreign = 0 => ReorgInv'
    BY <1>1, <1>2, <2>1 DEF ChainInv, ReorgInv, At
  <2> QED  BY <1>1, <2>1, <2>2, <2>3 DEF ChainInv
<1> QED  BY <1>4, <1>5, <1>6, <1>7, <1>8

(***************************************************************************)
(* Theorems.                                                               *)
(***************************************************************************)
\* The job finds all nodes on the branch.
LEMMA ChainInit == Init => ChainInv
<1> SUFFICES ASSUME Init PROVE ChainInv
  OBVIOUS
<1>1. Original \in Seq(Nat) /\ Rejected(Original) /\ GoesThrough(Original, Original)
  BY OriginalChain, ContainsOrder
<1>2. JobTypes
  <2>1. Step("idle") \in Places
    BY DEF Places
  <2>2. 0 \in 0 .. MaxForeign /\ MaxFaults \in 0 .. MaxFaults
    BY ChainConstants
  <2> QED  BY <2>1, <2>2 DEF Init, NodesInit, JobTypes
<1>3. NodeInv
  BY <1>1, ChainConstants DEF Init, NodesInit, NodeInv, Whole, Allowed
<1>4. AllIn /\ Untouched /\ bad = {}
  BY <1>1 DEF Init, NodesInit, AllIn, Untouched
<1>5. RewindInv
  BY <1>4
     DEF Init, NodesInit, RewindInv, Executing, Invalidation, At, Step,
         Invalidating, Verifying, Restoring
<1>6. ReorgInv
  BY <1>1, <1>4
     DEF Init, NodesInit, ReorgInv, Branches, At, Step, Target, NodeNames
<1> QED  BY <1>2, <1>3, <1>5, <1>6 DEF ChainInv

\* ChainInv is inductive.
LEMMA ChainStep == ChainInv /\ [Next]_allVars => ChainInv'
<1> SUFFICES ASSUME ChainInv, [Next]_allVars PROVE ChainInv'
  OBVIOUS
<1>1. CASE Next
  <2> QED  BY <1>1, ExecutorSteps, EndingSteps, RelayStep, MineForeignStep
              DEF Next, JobStep
<1>2. CASE UNCHANGED allVars
  <2>1. /\ NodeInv' /\ AllIn' = AllIn /\ AllOut' = AllOut /\ Untouched' = Untouched
        /\ Adopted' = Adopted /\ bad' = bad /\ active' = active /\ known' = known
    BY <1>2, NodesAtRest DEF allVars, vars, ChainInv
  <2>2. UNCHANGED <<at, outcome, context, saved, leased, abort, foreign, faults, kind>>
    BY <1>2 DEF allVars, vars, jobVars
  <2>3. JobTypes'
    BY <2>2 DEF ChainInv, JobTypes
  <2>4. RewindInv' = RewindInv
    BY <2>1, <2>2 DEF RewindInv, Executing, Invalidation, At
  <2>5. ReorgInv' = ReorgInv
    BY <2>1, <2>2 DEF ReorgInv, Branches, At
  <2> QED  BY <2>1, <2>2, <2>3, <2>4, <2>5 DEF ChainInv
<1> QED  BY <1>1, <1>2

\* The inductive invariant holds of rewind and reorg jobs.
THEOREM ChainInvHolds == Spec => []ChainInv
  BY ChainInit, ChainStep, PTL DEF Spec

\* ChainInvariant: the nodes agree when a chain job has given its leases
\* back, and an abort that was reported left the chain alone or took the whole
\* branch away, through failed calls, lost answers and saves, and restarts.
THEOREM ChainInvariantHolds == Spec => []ChainInvariant
<1>1. ASSUME ChainInv PROVE ChainInvariant
  <2>1. TypeOK
    BY <1>1 DEF ChainInv, JobTypes, NodeInv, Allowed, TypeOK
  <2>2. ConvergedAtEnd
    <3> SUFFICES ASSUME at = Step("end"), foreign = 0
                 PROVE  IF kind = "rewind" THEN CommonTip ELSE Adopted
      BY DEF ConvergedAtEnd
    <3>1. CASE kind = "rewind"
      <4>1. Untouched /\ (AllIn \/ AllOut)
        BY <1>1, <3>1 DEF ChainInv, RewindInv, At
      <4> QED  BY <1>1, <3>1, <4>1, UntouchedNodes
                  DEF ChainInv, AllIn, AllOut, CommonTip, NodeNames
    <3>2. CASE kind = "reorg"
      BY <1>1, <3>2 DEF ChainInv, ReorgInv, At
    <3> QED  BY <1>1, <3>1, <3>2 DEF ChainInv, JobTypes
  <2>3. AbortIsSafe
    <3>1. CASE kind = "rewind"
      BY <1>1, <3>1 DEF ChainInv, RewindInv, AllIn, AbortIsSafe, NodeNames
    <3>2. CASE kind = "reorg"
      <4>1. Whole(active["node1"])
        BY <1>1 DEF ChainInv, NodeInv, Whole, Rejected, NodeNames
      <4> QED  BY <3>2, <4>1 DEF AbortIsSafe, Whole
    <3> QED  BY <1>1, <3>1, <3>2 DEF ChainInv, JobTypes
  <2> QED  BY <2>1, <2>2, <2>3 DEF ChainInvariant
<1> QED  BY <1>1, ChainInvHolds, PTL

\* RewindIsAllOrNothing: when the job leaves its lane the rewind is done on all
\* three nodes or on none, even if foreign blocks came in between.
THEOREM AllOrNothing == Spec => RewindIsAllOrNothing
<1>1. ASSUME ChainInv, ChainInv', [Next]_allVars
      PROVE  [kind = "rewind" /\ at # Step("end") /\ at' = Step("end") =>
               \/ \A n \in NodeNames : GoesThrough(active'[n], Original)
               \/ \A n \in NodeNames : ~GoesThrough(active'[n], Original)]_allVars
  <2>1. ASSUME kind' = "rewind", at' = Step("end") PROVE AllIn' \/ AllOut'
    BY <1>1, <2>1 DEF ChainInv, RewindInv, At
  <2>2. kind' = kind
    BY <1>1 DEF Next, allVars
  <2> QED  BY <2>1, <2>2 DEF AllIn, AllOut
<1> QED  BY <1>1, ChainInvHolds, PTL DEF Spec, RewindIsAllOrNothing

(***************************************************************************)
(* Induction, folds and recursive functions.  The predicates are sets, so that *)
(* the provers can apply the induction to them.                            *)
(***************************************************************************)
\* A set of naturals that is not empty has a least element.
LEMMA Smallest ==
  ASSUME NEW S \in SUBSET Nat, S # {}
  PROVE  \E x \in S : \A y \in S : x <= y
<1>1. PICK x \in S : \A y \in S : ~(<<y, x>> \in OpToRel(<, Nat))
  BY NatLessThanWellFounded, WFMin
<1>2. ASSUME NEW y \in S, y < x PROVE FALSE
  <2>1. <<y, x>> \in OpToRel(<, Nat) BY <1>2 DEF OpToRel
  <2> QED BY <1>1, <2>1
<1>3. x \in Nat /\ \A y \in S : y \in Nat OBVIOUS
<1> QED BY <1>2, <1>3

\* Induction over the naturals, with a set for the predicate.
LEMMA SetInduction ==
  ASSUME NEW S, 0 \in S, \A k \in Nat : k \in S => k + 1 \in S
  PROVE  \A k \in Nat : k \in S
<1> DEFINE B == Nat \ S
<1>1. SUFFICES ASSUME B # {} PROVE FALSE OBVIOUS
<1>2. PICK x \in B : \A y \in B : x <= y BY <1>1, Smallest
<1>3. x # 0 /\ x \in Nat OBVIOUS
<1>4. x - 1 \in B BY <1>3
<1> QED BY <1>2, <1>3, <1>4

\* Min is the least element of a set of naturals.
LEMMA LeastOf ==
  ASSUME NEW S \in SUBSET Nat, S # {}
  PROVE  Min(S) \in S /\ \A s \in S : Min(S) <= s
BY Smallest DEF Min

\* A bounded one has a greatest.
LEMMA GreatestOf ==
  ASSUME NEW S \in SUBSET Nat, S # {}, NEW n \in Nat, \A s \in S : s <= n
  PROVE  Max(S) \in S /\ \A s \in S : s <= Max(S)
<1> DEFINE T == {k \in Nat : \A s \in S : s <= k}
<1>1. T \in SUBSET Nat /\ T # {} OBVIOUS
<1>2. PICK x \in T : \A y \in T : x <= y BY <1>1, Smallest
<1>3. x \in S
  <2>1. SUFFICES ASSUME x \notin S PROVE FALSE OBVIOUS
  <2>2. x \in Nat /\ \A s \in S : s \in Nat /\ s <= x /\ s # x BY <2>1
  <2>3. PICK s \in S : TRUE OBVIOUS
  <2>5. s \in Nat /\ s <= x /\ s # x BY <2>2, <2>3
  <2>4. x - 1 \in T BY <2>2, <2>5
  <2> QED BY <1>2, <2>2, <2>4
<1>4. \A s \in S : x >= s OBVIOUS
<1>5. \E m \in S : \A s \in S : m >= s BY <1>3, <1>4
<1>6. Max(S) \in S /\ \A s \in S : Max(S) >= s BY <1>5 DEF Max
<1> QED BY <1>6

\* f is defined along 1 .. n by recursion: A[x], and f of all of P[x].
Recurs(f, n, A, P) == f = [x \in 1 .. n |-> A[x] \cup UNION {f[p] : p \in P[x]}]

\* There is such a function if P[x] is below x.
LEMMA RecursionExists ==
  ASSUME NEW n \in Nat, NEW A, NEW P,
         \A x \in 1 .. n : P[x] \subseteq 1 .. x - 1
  PROVE  \E f : Recurs(f, n, A, P)
<1> DEFINE Solves(f, m) == f = [x \in 1 .. m |-> A[x] \cup UNION {f[p] : p \in P[x]}]
           S == {m \in Nat : m <= n => \E f : Solves(f, m)}
<1>1. 0 \in S
  <2>1. Solves([x \in {} |-> {}], 0) OBVIOUS
  <2> QED BY <2>1
<1>2. ASSUME NEW m \in Nat, m \in S PROVE m + 1 \in S
  <2>1. SUFFICES ASSUME m + 1 <= n PROVE \E f : Solves(f, m + 1) OBVIOUS
  <2>2. PICK f : Solves(f, m) BY <1>2, <2>1
  <2> DEFINE g == [x \in 1 .. m + 1 |-> IF x = m + 1 THEN A[x] \cup UNION {f[p] : p \in P[x]}
                                        ELSE f[x]]
  <2>3. \A x \in 1 .. m + 1 : \A p \in P[x] : p \in 1 .. m /\ g[p] = f[p] BY <2>1
  <2>4. \A x \in 1 .. m + 1 : {f[p] : p \in P[x]} = {g[p] : p \in P[x]} BY <2>3
  <2>5. \A x \in 1 .. m : f[x] = A[x] \cup UNION {f[p] : p \in P[x]} BY <2>2
  <2>6. \A x \in 1 .. m + 1 : g[x] = A[x] \cup UNION {f[p] : p \in P[x]}
    BY <2>5
  <2>7. \A x \in 1 .. m + 1 : g[x] = A[x] \cup UNION {g[p] : p \in P[x]}
    BY <2>4, <2>6
  <2>8. Solves(g, m + 1) BY <2>7
  <2> QED BY <2>8
<1>3. n \in S BY <1>1, <1>2, SetInduction
<1> QED BY <1>3 DEF Recurs

\* A fold over the positions 1 .. n: the value of the first ones from base on,
\* where F[k] is what position k does.
IsFold(it, n, Acc, base, F) ==
  /\ it \in [SUBSET (1 .. n) -> Acc]
  /\ \A s \in SUBSET (1 .. n) :
       it[s] = IF s = {} THEN base ELSE F[Max(s)][it[s \ {Max(s)}]]

\* It exists.
LEMMA FoldExists ==
  ASSUME NEW n \in Nat, NEW Acc, NEW base \in Acc, NEW F \in [1 .. n -> [Acc -> Acc]]
  PROVE  \E it : IsFold(it, n, Acc, base, F)
<1> DEFINE Solves(it, m) ==
             /\ it \in [SUBSET (1 .. m) -> Acc]
             /\ \A s \in SUBSET (1 .. m) :
                  it[s] = IF s = {} THEN base ELSE F[Max(s)][it[s \ {Max(s)}]]
           S == {m \in Nat : m <= n => \E it : Solves(it, m)}
<1> HIDE DEF Solves
<1>1. 0 \in S
  <2>1. SUBSET (1 .. 0) = {{}} OBVIOUS
  <2>2. Solves([s \in SUBSET (1 .. 0) |-> base], 0) BY <2>1 DEF Solves
  <2> QED BY <2>2
<1>2. ASSUME NEW m \in Nat, m \in S PROVE m + 1 \in S
  <2>1. SUFFICES ASSUME m + 1 <= n PROVE \E it : Solves(it, m + 1) OBVIOUS
  <2>2. PICK it : Solves(it, m) BY <1>2, <2>1
  <2> DEFINE g == [s \in SUBSET (1 .. m + 1) |->
                     IF m + 1 \in s THEN F[m + 1][it[s \ {m + 1}]] ELSE it[s]]
  <2>3. ASSUME NEW s \in SUBSET (1 .. m + 1), m + 1 \notin s
        PROVE  s \in SUBSET (1 .. m) /\ g[s] = it[s]
    <3>1. \A x \in s : x \in 1 .. m + 1 /\ x # m + 1 BY <2>3
    <3>2. \A x \in s : x \in 1 .. m BY <3>1
    <3> QED BY <2>3, <3>2
  <2>4. ASSUME NEW s \in SUBSET (1 .. m + 1), m + 1 \in s
        PROVE  /\ s \ {m + 1} \in SUBSET (1 .. m) /\ Max(s) = m + 1
               /\ g[s] = F[m + 1][it[s \ {m + 1}]] /\ g[s \ {m + 1}] = it[s \ {m + 1}]
    <3>1. s \in SUBSET Nat /\ s # {} /\ \A x \in s : x <= m + 1 BY <2>4
    <3>2. Max(s) \in s /\ \A x \in s : x <= Max(s) BY <3>1, m + 1 \in Nat, GreatestOf
    <3>3. Max(s) \in Nat /\ Max(s) <= m + 1 /\ m + 1 <= Max(s) BY <3>1, <3>2, <2>4
    <3>6. Max(s) = m + 1 BY <3>3
    <3>4. s \ {m + 1} \in SUBSET (1 .. m + 1) /\ m + 1 \notin s \ {m + 1} OBVIOUS
    <3>5. s \ {m + 1} \in SUBSET (1 .. m) /\ g[s \ {m + 1}] = it[s \ {m + 1}]
      BY <3>4, <2>3
    <3> QED BY <2>4, <3>6, <3>5
  <2>5. F[m + 1] \in [Acc -> Acc] BY <2>1
  <2>6. ASSUME NEW s \in SUBSET (1 .. m + 1)
        PROVE  /\ g[s] \in Acc
               /\ g[s] = IF s = {} THEN base ELSE F[Max(s)][g[s \ {Max(s)}]]
    <3>1. CASE m + 1 \in s BY <3>1, <2>2, <2>4, <2>5 DEF Solves
    <3>2. CASE m + 1 \notin s
      <4>1. s \in SUBSET (1 .. m) /\ g[s] = it[s] BY <3>2, <2>3
      <4>2. CASE s = {} BY <4>1, <4>2, <2>2 DEF Solves
      <4>3. CASE s # {}
        <5>1. s \in SUBSET Nat /\ \A x \in s : x <= m BY <4>1
        <5>2. Max(s) \in s BY <5>1, <4>3, GreatestOf
        <5>3. s \ {Max(s)} \in SUBSET (1 .. m + 1) /\ m + 1 \notin s \ {Max(s)} BY <3>2
        <5>4. g[s \ {Max(s)}] = it[s \ {Max(s)}] BY <5>3, <2>3
        <5> QED BY <4>1, <4>3, <5>4, <2>2 DEF Solves
      <4> QED BY <4>2, <4>3
    <3> QED BY <3>1, <3>2
  <2>7. Solves(g, m + 1) BY <2>6 DEF Solves
  <2> QED BY <2>7
<1>3. n \in S BY <1>1, <1>2, SetInduction
<1>4. \E it : Solves(it, n) BY <1>3
<1> QED BY <1>4 DEF Solves, IsFold

\* The running values of a fold.
Runs(acc, n, Acc, base, F) ==
  /\ acc \in [0 .. n -> Acc] /\ acc[0] = base
  /\ \A k \in 1 .. n : acc[k] = F[k][acc[k - 1]]

\* What Max and the set difference of a fold's definition are on a prefix of
\* the positions.
LEMMA LastOfPrefix ==
  ASSUME NEW n \in Nat, NEW k \in 1 .. n
  PROVE  /\ 1 .. k \in SUBSET (1 .. n) /\ 1 .. k # {}
         /\ Max(1 .. k) = k /\ (1 .. k) \ {k} = 1 .. k - 1
<1>1. k \in Nat /\ k \in 1 .. k /\ k <= n OBVIOUS
<1>2. \A x \in 1 .. k : x \in 1 .. n /\ x \in Nat /\ x <= k BY <1>1
<1>3. 1 .. k \in SUBSET (1 .. n) /\ 1 .. k # {} /\ 1 .. k \in SUBSET Nat BY <1>1, <1>2
<1>4. Max(1 .. k) \in 1 .. k /\ \A x \in 1 .. k : x <= Max(1 .. k)
  BY <1>1, <1>2, <1>3, GreatestOf
<1>5. Max(1 .. k) = k BY <1>1, <1>4
<1>6. (1 .. k) \ {k} = 1 .. k - 1 OBVIOUS
<1> QED BY <1>3, <1>5, <1>6

\* f, a function of sets of positions, folds F over the first ones.
FoldsUp(f, n, Acc, base, F) ==
  /\ f[{}] = base
  /\ \A k \in 1 .. n : f[1 .. k - 1] \in Acc => f[1 .. k] = F[k][f[1 .. k - 1]]

\* The running values end in v.
RunsTo(v, n, Acc, base, F) == \E acc : Runs(acc, n, Acc, base, F) /\ acc[n] = v

\* What is folded up over sets of positions is what the running values end in.
LEMMA FoldRuns ==
  ASSUME NEW n \in Nat, NEW Acc, NEW base \in Acc, NEW F \in [1 .. n -> [Acc -> Acc]],
         NEW f, FoldsUp(f, n, Acc, base, F)
  PROVE  RunsTo(f[1 .. n], n, Acc, base, F)
<1> DEFINE S == {k \in Nat : k <= n => f[1 .. k] \in Acc}
           acc == [k \in 0 .. n |-> f[1 .. k]]
<1>1. 0 \in S
  <2>1. 1 .. 0 = {} OBVIOUS
  <2> QED BY <2>1 DEF FoldsUp
<1>2. ASSUME NEW k \in Nat, k \in S PROVE k + 1 \in S
  <2>1. SUFFICES ASSUME k + 1 <= n PROVE f[1 .. k + 1] \in Acc OBVIOUS
  <2>2. k + 1 \in 1 .. n /\ (k + 1) - 1 = k /\ f[1 .. k] \in Acc BY <1>2, <2>1
  <2>3. f[1 .. k + 1] = F[k + 1][f[1 .. k]] BY <2>2 DEF FoldsUp
  <2> QED BY <2>2, <2>3
<1>3. \A k \in Nat : k \in S
  <2> HIDE DEF S
  <2> QED BY <1>1, <1>2, SetInduction
<1>4. \A k \in 0 .. n : f[1 .. k] \in Acc BY <1>3
<1>5. acc \in [0 .. n -> Acc] BY <1>4
<1>6. acc[0] = base
  <2>1. 1 .. 0 = {} OBVIOUS
  <2> QED BY <2>1 DEF FoldsUp
<1>7. \A k \in 1 .. n : acc[k] = F[k][acc[k - 1]]
  <2>1. SUFFICES ASSUME NEW k \in 1 .. n PROVE acc[k] = F[k][acc[k - 1]] OBVIOUS
  <2>2. k - 1 \in 0 .. n /\ k \in 0 .. n OBVIOUS
  <2>3. acc[k] = f[1 .. k] /\ acc[k - 1] = f[1 .. k - 1] BY <2>2
  <2> QED BY <1>4, <2>2, <2>3 DEF FoldsUp
<1>8. acc[n] = f[1 .. n] OBVIOUS
<1> HIDE DEF acc
<1> QED BY <1>5, <1>6, <1>7, <1>8 DEF Runs, RunsTo

(***************************************************************************)
(* Lists in an order.                                                      *)
(***************************************************************************)
\* R is a strict total order of S, and the place of x in it.
Orders(R, S) ==
  /\ \A x \in S : <<x, x>> \notin R
  /\ \A x, y, z \in S : <<x, y>> \in R /\ <<y, z>> \in R => <<x, z>> \in R
  /\ \A x, y \in S : x = y \/ <<x, y>> \in R \/ <<y, x>> \in R

\* The members of S that come before x.
Below(R, S, x) == {y \in S : <<y, x>> \in R}

\* s is S in the order R.
Lists(s, S, R) ==
  /\ s \in Seq(S) /\ Len(s) = Cardinality(S)
  /\ \A x \in S : \E k \in 1 .. Len(s) : s[k] = x
  /\ \A i, j \in 1 .. Len(s) : i < j => <<s[i], s[j]>> \in R

\* The places are 0, 1, ... without a gap.
LEMMA ListPlaces ==
  ASSUME NEW S, IsFiniteSet(S), NEW R, Orders(R, S)
  PROVE  /\ Cardinality(S) \in Nat
         /\ \A x \in S : Cardinality(Below(R, S, x)) \in 0 .. Cardinality(S) - 1
         /\ \A x, y \in S : <<x, y>> \in R =>
              Cardinality(Below(R, S, x)) < Cardinality(Below(R, S, y))
         /\ \A k \in 1 .. Cardinality(S) : \E x \in S : Cardinality(Below(R, S, x)) = k - 1
<1> DEFINE n == Cardinality(S)
           f == [x \in S |-> Cardinality(Below(R, S, x))]
<1>1. n \in Nat BY FS_CardinalityType
<1>2. ASSUME NEW x \in S
      PROVE  IsFiniteSet(Below(R, S, x)) /\ f[x] \in 0 .. n - 1
  <2>1. Below(R, S, x) \in SUBSET (S \ {x}) BY DEF Below, Orders
  <2>2. IsFiniteSet(S \ {x}) /\ Cardinality(S \ {x}) = n - 1 BY FS_RemoveElement
  <2>3. IsFiniteSet(Below(R, S, x)) /\ Cardinality(Below(R, S, x)) <= n - 1
    BY <2>1, <2>2, FS_Subset
  <2>4. Cardinality(Below(R, S, x)) \in Nat BY <2>3, FS_CardinalityType
  <2> QED BY <1>1, <2>3, <2>4
<1>3. ASSUME NEW x \in S, NEW y \in S, <<x, y>> \in R PROVE f[x] < f[y]
  <2>1. Below(R, S, x) \in SUBSET (Below(R, S, y) \ {x}) BY <1>3 DEF Below, Orders
  <2>2. x \in Below(R, S, y) BY <1>3 DEF Below
  <2>3. /\ IsFiniteSet(Below(R, S, y) \ {x})
        /\ Cardinality(Below(R, S, y) \ {x}) = Cardinality(Below(R, S, y)) - 1
    BY <1>2, <2>2, FS_RemoveElement
  <2>4. Cardinality(Below(R, S, x)) <= Cardinality(Below(R, S, y)) - 1
    BY <2>1, <2>3, FS_Subset
  <2>5. f[x] \in Nat /\ f[y] \in Nat BY <1>2
  <2> QED BY <2>4, <2>5
<1>4. f \in Injection(S, 0 .. n - 1)
  <2>1. f \in [S -> 0 .. n - 1] BY <1>2
  <2>2. ASSUME NEW x \in S, NEW y \in S, f[x] = f[y] PROVE x = y
    <3>1. f[x] \in Nat /\ f[y] \in Nat BY <1>2
    <3>2. <<x, y>> \notin R /\ <<y, x>> \notin R
      <4> HIDE DEF f
      <4> QED BY <1>3, <2>2, <3>1
    <3> QED BY <3>2 DEF Orders
  <2> HIDE DEF f
  <2> QED BY <2>1, <2>2 DEF Injection, IsInjective
<1>5. IsFiniteSet(0 .. n - 1) /\ Cardinality(0 .. n - 1) = n
  BY <1>1, FS_Interval
<1>6. f \in Surjection(S, 0 .. n - 1)
  <2> HIDE DEF f, n
  <2> QED BY <1>4, <1>5, FS_Injection DEF n
<1>7. \A k \in 1 .. n : \E x \in S : f[x] = k - 1
  <2>1. \A m \in 0 .. n - 1 : \E x \in S : f[x] = m BY <1>6 DEF Surjection
  <2> HIDE DEF f, n
  <2> QED BY <2>1, <1>1
<1> QED BY <1>1, <1>2, <1>3, <1>7

\* A sequence of the elements by their places lists the set.
LEMMA ListedByPlace ==
  ASSUME NEW S, IsFiniteSet(S), NEW R, Orders(R, S), NEW s,
         s = [k \in 1 .. Cardinality(S) |-> s[k]],
         \A k \in 1 .. Cardinality(S) :
           (\E x \in S : Cardinality(Below(R, S, x)) = k - 1)
              => s[k] \in S /\ Cardinality(Below(R, S, s[k])) = k - 1
  PROVE  Lists(s, S, R)
<1> DEFINE n == Cardinality(S)
<1>1. n \in Nat BY ListPlaces
<1>2. \A k \in 1 .. n : s[k] \in S /\ Cardinality(Below(R, S, s[k])) = k - 1 BY ListPlaces
<1>3. s \in Seq(S) /\ Len(s) = n
  <2>1. s \in [1 .. n -> S] BY <1>2
  <2> QED BY <1>1, <2>1
<1>4. ASSUME NEW x \in S PROVE \E k \in 1 .. n : s[k] = x
  <2>1. Cardinality(Below(R, S, x)) \in 0 .. n - 1 BY ListPlaces
  <2>2. PICK k \in 1 .. n : Cardinality(Below(R, S, x)) = k - 1
    <3>1. Cardinality(Below(R, S, x)) + 1 \in 1 .. n BY <2>1, <1>1
    <3> QED BY <2>1, <3>1
  <2>3. s[k] \in S /\ Cardinality(Below(R, S, s[k])) = k - 1 BY <1>2
  <2>4. ~(<<x, s[k]>> \in R) /\ ~(<<s[k], x>> \in R) BY <2>1, <2>2, <2>3, ListPlaces
  <2>5. s[k] = x BY <2>3, <2>4 DEF Orders
  <2> QED BY <2>5
<1>5. ASSUME NEW i \in 1 .. n, NEW j \in 1 .. n, i < j PROVE <<s[i], s[j]>> \in R
  <2>1. s[i] \in S /\ s[j] \in S /\ Cardinality(Below(R, S, s[i])) = i - 1
        /\ Cardinality(Below(R, S, s[j])) = j - 1 BY <1>2
  <2>2. s[i] # s[j] BY <2>1, <1>5
  <2>3. ~(<<s[j], s[i]>> \in R) BY <2>1, <1>5, ListPlaces
  <2> QED BY <2>1, <2>2, <2>3 DEF Orders
<1> QED BY <1>3, <1>4, <1>5 DEF Lists

\* The order of the naturals in S.
Less(S) == {p \in S \X S : p[1] < p[2]}

\* Ascending lists a set of numbers by size.
LEMMA AscendingLists ==
  ASSUME NEW S \in SUBSET Nat, IsFiniteSet(S)
  PROVE  Lists(Ascending(S), S, Less(S))
<1> DEFINE s == Ascending(S)
           R == Less(S)
<1>1. \A x, y \in S : <<x, y>> \in R <=> x < y BY DEF Less
<1>2. Orders(R, S)
  <2> HIDE DEF R
  <2>1. \A x \in S : x \in Nat OBVIOUS
  <2> QED BY <1>1, <2>1 DEF Orders
<1>3. s = [k \in 1 .. Cardinality(S) |-> s[k]]
  <2> DEFINE e(k) == CHOOSE x \in S : Cardinality({y \in S : y < x}) = k - 1
  <2>1. s = [k \in 1 .. Cardinality(S) |-> e(k)] BY DEF Ascending, InOrder
  <2> HIDE DEF s, e
  <2> QED BY <2>1
<1>4. \A x \in S : {y \in S : y < x} = Below(R, S, x)
  <2> HIDE DEF R
  <2> QED BY <1>1 DEF Below
<1>5. \A k \in 1 .. Cardinality(S) :
        s[k] = CHOOSE x \in S : Cardinality({y \in S : y < x}) = k - 1
  BY DEF Ascending, InOrder
<1>6. \A k \in 1 .. Cardinality(S) :
        (\E x \in S : Cardinality(Below(R, S, x)) = k - 1)
          => s[k] \in S /\ Cardinality(Below(R, S, s[k])) = k - 1
  <2> HIDE DEF R, s
  <2>1. SUFFICES ASSUME NEW k \in 1 .. Cardinality(S),
                        \E x \in S : Cardinality(Below(R, S, x)) = k - 1
                 PROVE  s[k] \in S /\ Cardinality(Below(R, S, s[k])) = k - 1
    OBVIOUS
  <2>2. \E x \in S : Cardinality({y \in S : y < x}) = k - 1 BY <1>4, <2>1
  <2>3. s[k] \in S /\ Cardinality({y \in S : y < s[k]}) = k - 1 BY <1>5, <2>2
  <2> QED BY <1>4, <2>3
<1> HIDE DEF s, R
<1>7. Lists(s, S, R) BY <1>2, <1>3, <1>6, ListedByPlace
<1> QED BY <1>7 DEF s, R

\* r is q at the positions P, in their order.
IsKept(r, q, P) ==
  /\ DOMAIN r = 1 .. Len(r) /\ Len(r) = Cardinality(P) /\ Len(r) <= Len(q) /\ Len(r) \in Nat
  /\ Len(r) = Len(q) => P = 1 .. Len(q)
  /\ \E slot \in [1 .. Len(r) -> P] :
       /\ \A i, j \in 1 .. Len(r) : i < j => slot[i] < slot[j]
       /\ \A p \in P : \E n \in 1 .. Len(r) : slot[n] = p
       /\ \A n \in 1 .. Len(r) : r[n] = q[slot[n]]

\* What Kept returns, by the positions it keeps.
LEMMA KeptPositions ==
  ASSUME NEW D, NEW q \in Seq(D), NEW P \in SUBSET (1 .. Len(q)), NEW r,
         r = [n \in DOMAIN Ascending(P) |-> q[Ascending(P)[n]]]
  PROVE  r \in Seq(D) /\ IsKept(r, q, P)
<1> DEFINE slot == Ascending(P)
<1>1. IsFiniteSet(1 .. Len(q)) /\ Cardinality(1 .. Len(q)) = Len(q)
  <2>1. Len(q) \in Nat OBVIOUS
  <2> QED BY <2>1, FS_Interval
<1>2. /\ IsFiniteSet(P) /\ Cardinality(P) <= Len(q) /\ Cardinality(P) \in Nat
      /\ Cardinality(P) = Len(q) => P = 1 .. Len(q)
  <2>1. /\ IsFiniteSet(P) /\ Cardinality(P) <= Len(q)
        /\ Cardinality(P) = Len(q) => P = 1 .. Len(q)
    BY <1>1, FS_Subset
  <2> QED BY <2>1, FS_CardinalityType
<1>3. P \in SUBSET Nat OBVIOUS
<1>4. Lists(slot, P, Less(P)) BY <1>2, <1>3, AscendingLists
<1> HIDE DEF slot
<1>5. slot \in [1 .. Cardinality(P) -> P] /\ DOMAIN slot = 1 .. Cardinality(P)
  BY <1>4, <1>2 DEF Lists
<1>6. r \in [1 .. Cardinality(P) -> D]
  <2>1. \A n \in 1 .. Cardinality(P) : q[slot[n]] \in D
    <3>1. \A n \in 1 .. Cardinality(P) : slot[n] \in 1 .. Len(q) BY <1>5
    <3> QED BY <3>1
  <2>2. r = [n \in 1 .. Cardinality(P) |-> q[slot[n]]] BY <1>5 DEF slot
  <2> QED BY <2>1, <2>2
<1>7. r \in Seq(D) /\ Len(r) = Cardinality(P) BY <1>6, <1>2
<1>8. /\ \A i, j \in 1 .. Len(r) : i < j => slot[i] < slot[j]
      /\ \A p \in P : \E n \in 1 .. Len(r) : slot[n] = p
  BY <1>4, <1>7, <1>5 DEF Lists, Less
<1>9. \A n \in 1 .. Len(r) : r[n] = q[slot[n]] BY <1>7, <1>5 DEF slot
<1> QED BY <1>2, <1>5, <1>6, <1>7, <1>8, <1>9 DEF IsKept

(***************************************************************************)
(* Sums.                                                                   *)
(***************************************************************************)
\* g adds up w over the subsets of D, one element after the other.
Pick(s) == CHOOSE x \in s : TRUE

\* g gives every part of D its sum of w.
Sums(g, D, w) ==
  /\ g \in [SUBSET D -> Nat]
  /\ \A s \in SUBSET D : g[s] = IF s = {} THEN 0 ELSE w[Pick(s)] + g[s \ {Pick(s)}]

\* The sums of a finite set exist.
LEMMA SumExists ==
  ASSUME NEW D, IsFiniteSet(D), NEW w \in [D -> Nat]
  PROVE  \E g : Sums(g, D, w)
<1> DEFINE Small(m) == {s \in SUBSET D : Cardinality(s) <= m}
           Solves(g, m) ==
             /\ g \in [Small(m) -> Nat]
             /\ \A s \in Small(m) :
                  g[s] = IF s = {} THEN 0 ELSE w[Pick(s)] + g[s \ {Pick(s)}]
           S == {m \in Nat : \E g : Solves(g, m)}
<1>0. \A s \in SUBSET D : IsFiniteSet(s) /\ Cardinality(s) \in Nat
  <2>1. \A s \in SUBSET D : IsFiniteSet(s) BY FS_Subset
  <2> QED BY <2>1, FS_CardinalityType
<1>1. \A s \in SUBSET D : s # {} =>
        /\ Pick(s) \in s /\ Pick(s) \in D /\ s \ {Pick(s)} \in SUBSET D
        /\ Cardinality(s \ {Pick(s)}) = Cardinality(s) - 1
  <2>1. SUFFICES ASSUME NEW s \in SUBSET D, s # {}
                 PROVE  /\ Pick(s) \in s
                        /\ Cardinality(s \ {Pick(s)}) = Cardinality(s) - 1
    OBVIOUS
  <2>2. Pick(s) \in s BY <2>1 DEF Pick
  <2> QED BY <2>2, <1>0, FS_RemoveElement
<1>2. Small(0) = {{}}
  <2>1. \A s \in SUBSET D : Cardinality(s) = 0 <=> s = {} BY <1>0, FS_EmptySet
  <2>2. \A s \in SUBSET D : Cardinality(s) <= 0 <=> s = {} BY <1>0, <2>1
  <2> QED BY <2>2
<1> HIDE DEF Solves
<1>3. 0 \in S
  <2>1. Solves([s \in Small(0) |-> 0], 0) BY <1>2 DEF Solves
  <2> QED BY <2>1
<1>4. ASSUME NEW m \in Nat, m \in S PROVE m + 1 \in S
  <2>1. PICK g : Solves(g, m) BY <1>4
  <2> DEFINE h == [s \in Small(m + 1) |->
                     IF s = {} THEN 0 ELSE w[Pick(s)] + g[s \ {Pick(s)}]]
  <2>2. ASSUME NEW s \in Small(m + 1), s # {}
        PROVE  /\ s \ {Pick(s)} \in Small(m) /\ w[Pick(s)] \in Nat
               /\ g[s \ {Pick(s)}] \in Nat /\ s \ {Pick(s)} \in Small(m + 1)
    <3>2. s \in SUBSET D /\ Cardinality(s) <= m + 1 /\ Cardinality(s) \in Nat BY <1>0
    <3>3. s \ {Pick(s)} \in SUBSET D /\ Cardinality(s \ {Pick(s)}) <= m
      BY <2>2, <3>2, <1>1
    <3>4. Cardinality(s \ {Pick(s)}) <= m + 1 BY <3>3, <3>2, <2>2, <1>1
    <3>1. s \ {Pick(s)} \in Small(m) /\ s \ {Pick(s)} \in Small(m + 1) BY <3>3, <3>4
    <3> QED BY <2>1, <2>2, <3>1, <1>1 DEF Solves
  <2>3. \A s \in Small(m) : h[s] = g[s]
    <3>1. \A s \in Small(m) : s \in Small(m + 1) BY <1>0
    <3> QED BY <2>1, <3>1 DEF Solves
  <2>4. \A s \in Small(m + 1) :
          /\ h[s] \in Nat
          /\ h[s] = IF s = {} THEN 0 ELSE w[Pick(s)] + h[s \ {Pick(s)}]
    <3>1. \A s \in Small(m + 1) :
            h[s] = IF s = {} THEN 0 ELSE w[Pick(s)] + g[s \ {Pick(s)}]
      OBVIOUS
    <3> HIDE DEF h, Small
    <3>2. SUFFICES ASSUME NEW s \in Small(m + 1)
                   PROVE  /\ h[s] \in Nat
                          /\ h[s] = IF s = {} THEN 0 ELSE w[Pick(s)] + h[s \ {Pick(s)}]
      OBVIOUS
    <3>3. CASE s = {} BY <3>1, <3>3
    <3>4. CASE s # {}
      <4>1. h[s] = w[Pick(s)] + g[s \ {Pick(s)}] BY <3>1, <3>4
      <4>2. h[s \ {Pick(s)}] = g[s \ {Pick(s)}] BY <2>2, <2>3, <3>4
      <4>3. w[Pick(s)] \in Nat /\ g[s \ {Pick(s)}] \in Nat BY <2>2, <3>4
      <4> QED BY <3>4, <4>1, <4>2, <4>3
    <3> QED BY <3>3, <3>4
  <2>5. Solves(h, m + 1)
    <3>1. h \in [Small(m + 1) -> Nat] BY <2>4
    <3> HIDE DEF h, Small
    <3> QED BY <2>4, <3>1 DEF Solves
  <2> HIDE DEF h
  <2> QED BY <2>5
<1>5. \A m \in Nat : m \in S
  <2> HIDE DEF S
  <2> QED BY <1>3, <1>4, SetInduction
<1>6. Small(Cardinality(D)) = SUBSET D
  <2>1. \A s \in SUBSET D : Cardinality(s) <= Cardinality(D) BY FS_Subset
  <2> QED BY <2>1
<1>7. Cardinality(D) \in Nat BY FS_CardinalityType
<1>8. \E g : Solves(g, Cardinality(D)) BY <1>5, <1>7
<1> QED BY <1>6, <1>8 DEF Solves, Sums

\* The order of the elements does not matter.
AddsUp(g, D, w) == \A s \in SUBSET D : \A x \in s : g[s] = w[x] + g[s \ {x}]

\* Any element may be the one that is added last.
LEMMA SumRemove ==
  ASSUME NEW D, IsFiniteSet(D), NEW w \in [D -> Nat], NEW g, Sums(g, D, w)
  PROVE  AddsUp(g, D, w)
<1> DEFINE S == {m \in Nat : \A s \in SUBSET D : Cardinality(s) <= m =>
                               \A x \in s : g[s] = w[x] + g[s \ {x}]}
<1>0. \A s \in SUBSET D : IsFiniteSet(s) /\ Cardinality(s) \in Nat
  <2>1. \A s \in SUBSET D : IsFiniteSet(s) BY FS_Subset
  <2> QED BY <2>1, FS_CardinalityType
<1>1. 0 \in S
  <2>1. \A s \in SUBSET D : Cardinality(s) <= 0 => s = {} BY <1>0, FS_EmptySet
  <2> QED BY <2>1
<1>2. ASSUME NEW m \in Nat, m \in S PROVE m + 1 \in S
  <2>1. SUFFICES ASSUME NEW s \in SUBSET D, Cardinality(s) <= m + 1, NEW x \in s
                 PROVE  g[s] = w[x] + g[s \ {x}]
    OBVIOUS
  <2> DEFINE c == Pick(s)
             r == s \ {x, c}
  <2>2. c \in s /\ s # {} BY DEF Pick
  <2> HIDE DEF c
  <2>3. g[s] = w[c] + g[s \ {c}] BY <2>2 DEF Sums, c
  <2>4. CASE x = c BY <2>3, <2>4
  <2>5. CASE x # c
    <3>1. \A y \in s : s \ {y} \in SUBSET D /\ Cardinality(s \ {y}) <= m
      <4>1. \A y \in s : Cardinality(s \ {y}) = Cardinality(s) - 1 BY <1>0, FS_RemoveElement
      <4> QED BY <4>1, <1>0, <2>1
    <3>2. g[s \ {c}] = w[x] + g[r]
      <4>1. x \in s \ {c} /\ (s \ {c}) \ {x} = r BY <2>5
      <4> QED BY <4>1, <3>1, <2>2, <1>2
    <3>3. g[s \ {x}] = w[c] + g[r]
      <4>1. c \in s \ {x} /\ (s \ {x}) \ {c} = r BY <2>5, <2>2
      <4> QED BY <4>1, <3>1, <2>1, <1>2
    <3>4. w[x] \in Nat /\ w[c] \in Nat /\ g[r] \in Nat
      <4>1. r \in SUBSET D /\ x \in D /\ c \in D BY <2>2
      <4> QED BY <4>1 DEF Sums
    <3> QED BY <2>3, <3>2, <3>3, <3>4
  <2> QED BY <2>4, <2>5
<1>3. \A m \in Nat : m \in S
  <2> HIDE DEF S
  <2> QED BY <1>1, <1>2, SetInduction
<1>4. \A s \in SUBSET D : \A m \in Nat : Cardinality(s) <= m =>
         \A x \in s : g[s] = w[x] + g[s \ {x}] BY <1>3
<1> QED BY <1>0, <1>4 DEF AddsUp

\* Sums that are defined on fewer sets agree.
SumsOn(f, T, w) ==
  f = [s \in SUBSET T |-> IF s = {} THEN 0 ELSE w[Pick(s)] + f[s \ {Pick(s)}]]

\* A function that takes the elements of a set out in the order of Pick adds
\* up to the same.
LEMMA SumAgrees ==
  ASSUME NEW D, IsFiniteSet(D), NEW w \in [D -> Nat], NEW g, Sums(g, D, w),
         NEW T \in SUBSET D, NEW f, SumsOn(f, T, w)
  PROVE  f[T] = g[T]
<1> DEFINE S == {m \in Nat : \A s \in SUBSET T : Cardinality(s) <= m => f[s] = g[s]}
<1>0. \A s \in SUBSET T : IsFiniteSet(s) /\ Cardinality(s) \in Nat
  <2>1. \A s \in SUBSET T : IsFiniteSet(s) BY FS_Subset
  <2> QED BY <2>1, FS_CardinalityType
<1>1. 0 \in S
  <2>1. \A s \in SUBSET T : Cardinality(s) <= 0 => s = {} BY <1>0, FS_EmptySet
  <2>2. f[{}] = 0 /\ g[{}] = 0
    <3>1. {} \in SUBSET T /\ {} \in SUBSET D OBVIOUS
    <3> QED BY <3>1 DEF Sums, SumsOn
  <2> QED BY <2>1, <2>2
<1>2. ASSUME NEW m \in Nat, m \in S PROVE m + 1 \in S
  <2>0. f[{}] = 0 /\ g[{}] = 0
    <3>1. {} \in SUBSET T /\ {} \in SUBSET D OBVIOUS
    <3> QED BY <3>1 DEF Sums, SumsOn
  <2>8. SUFFICES ASSUME NEW s \in SUBSET T, Cardinality(s) <= m + 1
                 PROVE  f[s] = g[s]
    OBVIOUS
  <2>1. SUFFICES ASSUME s # {} PROVE f[s] = g[s] BY <2>0
  <2>2. Pick(s) \in s BY <2>1 DEF Pick
  <2>3. Cardinality(s \ {Pick(s)}) = Cardinality(s) - 1 BY <2>2, <1>0, FS_RemoveElement
  <2>4. s \ {Pick(s)} \in SUBSET T /\ Cardinality(s \ {Pick(s)}) <= m
    BY <2>8, <2>3, <1>0
  <2>5. f[s \ {Pick(s)}] = g[s \ {Pick(s)}] BY <1>2, <2>4
  <2>6. f[s] = w[Pick(s)] + f[s \ {Pick(s)}] BY <2>1 DEF SumsOn
  <2>7. g[s] = w[Pick(s)] + g[s \ {Pick(s)}]
    <3>1. s \in SUBSET D OBVIOUS
    <3> QED BY <2>1, <3>1 DEF Sums
  <2> QED BY <2>5, <2>6, <2>7
<1>3. \A m \in Nat : m \in S
  <2> HIDE DEF S
  <2> QED BY <1>1, <1>2, SetInduction
<1>4. T \in SUBSET T OBVIOUS
<1>5. Cardinality(T) \in Nat /\ Cardinality(T) <= Cardinality(T) BY <1>0, <1>4
<1>6. Cardinality(T) \in S BY <1>3, <1>5
<1> QED BY <1>4, <1>5, <1>6

(***************************************************************************)
(* Transactions, their ancestors and their weights.                        *)
(***************************************************************************)
\* The transactions are numbered, and one spends only outputs of earlier ones.
TxType == Originals \in Nat /\ Adds \in Nat

\* Parents are transactions.
ParentsType ==
  /\ TxType
  /\ parents \in [Tx -> SUBSET Tx]
  /\ \A t \in Tx : parents[t] \subseteq 1 .. t - 1

\* Ancestors is what its equation says.
LEMMA AncestorsEquation ==
  ASSUME ParentsType
  PROVE  \A t \in Tx : Ancestors[t] = parents[t] \cup UNION {Ancestors[p] : p \in parents[t]}
<1> DEFINE n == Originals + Adds
           Solves(f) == f = [t \in Tx |-> parents[t] \cup UNION {f[p] : p \in parents[t]}]
<1>1. n \in Nat /\ Tx = 1 .. n BY DEF ParentsType, TxType, Tx
<1>2. \A x \in 1 .. n : parents[x] \subseteq 1 .. x - 1 BY <1>1 DEF ParentsType
<1>3. \E f : Recurs(f, n, parents, parents)
  <2> HIDE DEF n
  <2> QED BY <1>1, <1>2, RecursionExists
<1>4. \E f : Solves(f) BY <1>1, <1>3 DEF Recurs
<1>5. Ancestors = CHOOSE f : Solves(f) BY DEF Ancestors
<1>6. Solves(Ancestors)
  <2> HIDE DEF Solves
  <2> QED BY <1>4, <1>5
<1> QED BY <1>6

\* An ancestor has a smaller number.
LEMMA AncestorsBelow ==
  ASSUME ParentsType
  PROVE  \A t \in Tx : Ancestors[t] \subseteq 1 .. t - 1
<1> DEFINE S == {m \in Nat : \A t \in Tx : t <= m => Ancestors[t] \subseteq 1 .. t - 1}
<1>1. Tx \in SUBSET Nat /\ \A t \in Tx : t > 0 BY DEF ParentsType, TxType, Tx
<1>2. 0 \in S BY <1>1
<1>3. ASSUME NEW m \in Nat, m \in S PROVE m + 1 \in S
  <2>1. SUFFICES ASSUME NEW t \in Tx, t <= m + 1, NEW a \in Ancestors[t]
                 PROVE  a \in 1 .. t - 1
    OBVIOUS
  <2>2. parents[t] \subseteq Tx /\ parents[t] \subseteq 1 .. t - 1 BY DEF ParentsType
  <2>3. CASE a \in parents[t] BY <2>2, <2>3
  <2>4. CASE \E p \in parents[t] : a \in Ancestors[p]
    <3>1. PICK p \in parents[t] : a \in Ancestors[p] BY <2>4
    <3>2. p \in Tx /\ p < t /\ p <= m BY <1>1, <2>1, <2>2, <3>1
    <3>3. a \in 1 .. p - 1 BY <1>3, <3>1, <3>2
    <3> QED BY <1>1, <3>2, <3>3
  <2> QED BY <2>3, <2>4, AncestorsEquation
<1>4. \A m \in Nat : m \in S
  <2> HIDE DEF S
  <2> QED BY <1>2, <1>3, SetInduction
<1>5. ASSUME NEW t \in Tx PROVE Ancestors[t] \subseteq 1 .. t - 1
  <2>1. t \in Nat /\ t <= t BY <1>1
  <2>2. t \in S BY <1>4, <2>1
  <2> QED BY <2>1, <2>2
<1> QED BY <1>5

\* The order of live_mempool_weighted.
Count(t) == Cardinality(Ancestors[t] \cap mempool)

\* The order of the packing: fewer ancestors first, then by number.
LiveOrder(S) == {p \in S \X S : \/ Count(p[1]) < Count(p[2])
                                \/ Count(p[1]) = Count(p[2]) /\ p[1] < p[2]}

\* A transaction's ancestors in the mempool can be counted.
LEMMA CountType ==
  ASSUME ParentsType, NEW t \in Tx
  PROVE  IsFiniteSet(Ancestors[t] \cap mempool) /\ Count(t) \in Nat
<1>1. t \in Nat /\ t - 1 \in Int BY DEF ParentsType, TxType, Tx
<1>2. IsFiniteSet(1 .. t - 1) BY <1>1, FS_Interval
<1>3. Ancestors[t] \cap mempool \in SUBSET (1 .. t - 1) BY AncestorsBelow
<1>4. IsFiniteSet(Ancestors[t] \cap mempool) BY <1>2, <1>3, FS_Subset
<1> QED BY <1>4, FS_CardinalityType DEF Count

\* live_mempool_weighted lists what is neither mined nor to be dropped.
LEMMA LiveLists ==
  ASSUME ParentsType, mempool \subseteq Tx
  PROVE  /\ IsFiniteSet(mempool \ excluded)
         /\ Lists(LiveMempoolWeighted, mempool \ excluded, LiveOrder(mempool \ excluded))
<1> DEFINE S == mempool \ excluded
           s == LiveMempoolWeighted
           R == LiveOrder(S)
           Before(y, x) == Count(y) < Count(x) \/ (Count(y) = Count(x) /\ y < x)
<1>0. IsFiniteSet(S)
  <2>1. IsFiniteSet(Tx)
    <3>1. Originals + Adds \in Int BY DEF ParentsType, TxType
    <3> QED BY <3>1, FS_Interval DEF Tx
  <2>2. S \in SUBSET Tx OBVIOUS
  <2> QED BY <2>1, <2>2, FS_Subset
<1>1. \A x, y \in S : <<x, y>> \in R <=> Before(x, y) BY DEF LiveOrder
<1>2. Orders(R, S)
  <2>1. \A x \in S : x \in Nat /\ Count(x) \in Nat
    <3>1. \A x \in S : x \in Tx /\ x \in Nat BY DEF ParentsType, TxType, Tx
    <3> QED BY <3>1, CountType
  <2>2. \A x \in S : ~Before(x, x) BY <2>1
  <2>3. \A x, y, z \in S : Before(x, y) /\ Before(y, z) => Before(x, z) BY <2>1
  <2>4. \A x, y \in S : x = y \/ Before(x, y) \/ Before(y, x) BY <2>1
  <2> HIDE DEF R, Before, S
  <2> QED BY <1>1, <2>2, <2>3, <2>4 DEF Orders
<1>8. s = [k \in 1 .. Cardinality(S) |->
             CHOOSE x \in S : Cardinality({y \in S : Before(y, x)}) = k - 1]
  BY DEF LiveMempoolWeighted, InOrder, Count
<1>3. s = [k \in 1 .. Cardinality(S) |-> s[k]]
  <2> DEFINE g(k) == CHOOSE x \in S : Cardinality({y \in S : Before(y, x)}) = k - 1
  <2>1. s = [k \in 1 .. Cardinality(S) |-> g(k)] BY <1>8
  <2> HIDE DEF s, g
  <2> QED BY <2>1
<1>5. \A k \in 1 .. Cardinality(S) :
        s[k] = CHOOSE x \in S : Cardinality({y \in S : Before(y, x)}) = k - 1
  <2> HIDE DEF s
  <2> QED BY <1>8
<1> HIDE DEF R, s, Before, S
<1>4. \A x \in S : {y \in S : Before(y, x)} = Below(R, S, x) BY <1>1 DEF Below
<1>6. \A k \in 1 .. Cardinality(S) :
        (\E x \in S : Cardinality(Below(R, S, x)) = k - 1)
          => s[k] \in S /\ Cardinality(Below(R, S, s[k])) = k - 1
  <2>1. SUFFICES ASSUME NEW k \in 1 .. Cardinality(S),
                        \E x \in S : Cardinality(Below(R, S, x)) = k - 1
                 PROVE  s[k] \in S /\ Cardinality(Below(R, S, s[k])) = k - 1
    OBVIOUS
  <2>2. \E x \in S : Cardinality({y \in S : Before(y, x)}) = k - 1 BY <1>4, <2>1
  <2>3. s[k] \in S /\ Cardinality({y \in S : Before(y, s[k])}) = k - 1 BY <1>5, <2>2
  <2> QED BY <1>4, <2>3
<1>7. Lists(s, S, R) BY <1>0, <1>2, <1>3, <1>6, ListedByPlace
<1> QED BY <1>0, <1>7 DEF s, R, S

\* It has parents before their children.
LEMMA ParentsFirst ==
  ASSUME ParentsType, mempool \subseteq Tx,
         NEW i \in DOMAIN LiveMempoolWeighted, NEW j \in DOMAIN LiveMempoolWeighted,
         LiveMempoolWeighted[i] \in parents[LiveMempoolWeighted[j]]
  PROVE  i < j
<1> DEFINE live == LiveMempoolWeighted
           S == mempool \ excluded
<1>1. Lists(live, S, LiveOrder(S)) BY LiveLists
<1> HIDE DEF live
<1>2. /\ live[i] \in S /\ live[j] \in S
      /\ i \in 1 .. Len(live) /\ j \in 1 .. Len(live) /\ Len(live) \in Nat
  BY <1>1 DEF Lists, live
<1> DEFINE p == live[i]
           t == live[j]
<1>3. p \in parents[t] /\ p \in Tx /\ t \in Tx /\ p \in mempool BY <1>2 DEF live
<1> HIDE DEF p, t
<1>4. /\ Ancestors[p] \subseteq Ancestors[t] /\ p \in Ancestors[t]
      /\ p \notin Ancestors[p]
  <2>1. p \notin Ancestors[p]
    <3>1. Ancestors[p] \subseteq 1 .. p - 1 /\ p \in Nat
      BY <1>3, AncestorsBelow DEF ParentsType, TxType, Tx
    <3> QED BY <3>1
  <2> QED BY <1>3, <2>1, AncestorsEquation
<1>5. Count(p) < Count(t)
  <2>1. Ancestors[p] \cap mempool \in SUBSET ((Ancestors[t] \cap mempool) \ {p}) BY <1>4
  <2>2. p \in Ancestors[t] \cap mempool BY <1>3, <1>4
  <2>3. IsFiniteSet(Ancestors[t] \cap mempool) /\ Count(t) \in Nat /\ Count(p) \in Nat
    BY <1>3, CountType
  <2>4. /\ IsFiniteSet((Ancestors[t] \cap mempool) \ {p})
        /\ Cardinality((Ancestors[t] \cap mempool) \ {p}) = Count(t) - 1
    BY <2>2, <2>3, FS_RemoveElement DEF Count
  <2>5. Count(p) <= Count(t) - 1 BY <2>1, <2>4, FS_Subset DEF Count
  <2> QED BY <2>3, <2>5
<1>6. p # t BY <1>3, <1>4
<1>7. CASE j < i
  <2>1. <<t, p>> \in LiveOrder(S) BY <1>1, <1>2, <1>7 DEF Lists, p, t
  <2>2. Count(t) < Count(p) \/ Count(t) = Count(p) BY <2>1 DEF LiveOrder
  <2>3. Count(t) \in Nat /\ Count(p) \in Nat BY <1>3, CountType
  <2> QED BY <1>5, <2>2, <2>3
<1>8. i # j BY <1>6 DEF p, t
<1> QED BY <1>2, <1>7, <1>8

\* What is put into a block: a conflict as raw bytes, or a transaction of the
\* mempool by its id. No transaction is heavier than a block.
Item == [raw : BOOLEAN, id : Tx]

\* A weight fits a block.
WeightType == weight \in [Tx -> 1 .. Budget] /\ Budget \in Nat

\* A conflict weighs 1, every other transaction no more than a block.
LEMMA WeightOfType ==
  ASSUME WeightType, NEW item \in Item
  PROVE  WeightOf(item) \in 1 .. Budget \/ WeightOf(item) = 1
<1>1. item.id \in Tx BY DEF Item
<1>2. weight[item.id] \in 1 .. Budget BY <1>1 DEF WeightType
<1> QED BY <1>2 DEF WeightOf

\* acc[k] is the weight of the first k items.
RunningSum(acc, list) ==
  /\ acc \in [0 .. Len(list) -> Nat] /\ acc[0] = 0
  /\ \A k \in 1 .. Len(list) : acc[k] = acc[k - 1] + WeightOf(list[k])

\* The total weight is the end of a running sum.
LEMMA RunningWeight ==
  ASSUME WeightType, NEW list \in Seq(Item)
  PROVE  \E acc : RunningSum(acc, list) /\ TotalWeight(list) = acc[Len(list)]
<1> DEFINE n == Len(list)
           F == [k \in 1 .. n |-> [a \in Nat |-> a + WeightOf(list[k])]]
           Solves(f) == f = [s \in SUBSET DOMAIN list |->
                               IF s = {} THEN 0
                               ELSE LET x == Max(s) IN f[s \ {x}] + WeightOf(list[x])]
<1>1. n \in Nat /\ DOMAIN list = 1 .. n OBVIOUS
<1>2. \A k \in 1 .. n : WeightOf(list[k]) \in Nat
  <2>1. \A k \in 1 .. n : list[k] \in Item OBVIOUS
  <2> QED BY <2>1, WeightOfType DEF WeightType
<1>3. F \in [1 .. n -> [Nat -> Nat]] BY <1>2
<1>4. PICK it : IsFold(it, n, Nat, 0, F)
  <2> HIDE DEF F, n
  <2>1. n \in Nat /\ 0 \in Nat BY <1>1
  <2> QED BY <2>1, <1>3, FoldExists
<1>5. TotalWeight(list) = (CHOOSE f : Solves(f))[DOMAIN list]
  BY DEF TotalWeight, FoldLeft, MapThenFoldSet
<1>6. Solves(it)
  <2>1. ASSUME NEW s \in SUBSET (1 .. n), s # {}
        PROVE  it[s] = it[s \ {Max(s)}] + WeightOf(list[Max(s)])
    <3>1. s \in SUBSET Nat /\ \A x \in s : x <= n BY <1>1
    <3>2. Max(s) \in 1 .. n BY <3>1, <1>1, <2>1, GreatestOf
    <3>3. s \ {Max(s)} \in SUBSET (1 .. n) OBVIOUS
    <3>4. it[s \ {Max(s)}] \in Nat BY <3>3, <1>4 DEF IsFold
    <3> QED BY <1>4, <2>1, <3>2, <3>4 DEF IsFold
  <2>2. \A s \in SUBSET (1 .. n) :
          it[s] = IF s = {} THEN 0 ELSE it[s \ {Max(s)}] + WeightOf(list[Max(s)])
    BY <1>4, <2>1 DEF IsFold
  <2>3. it = [s \in SUBSET (1 .. n) |-> it[s]] BY <1>4 DEF IsFold
  <2> QED BY <1>1, <2>2, <2>3
<1>7. PICK f : Solves(f) /\ TotalWeight(list) = f[1 .. n]
  <2> HIDE DEF Solves, n
  <2> QED BY <1>1, <1>5, <1>6
<1>8. f[{}] = 0
  <2>1. {} \in SUBSET DOMAIN list OBVIOUS
  <2> QED BY <2>1, <1>7
<1>9. ASSUME NEW k \in 1 .. n
      PROVE  f[1 .. k] = f[1 .. k - 1] + WeightOf(list[k])
  <2>1. /\ 1 .. k \in SUBSET (1 .. n) /\ 1 .. k # {}
        /\ Max(1 .. k) = k /\ (1 .. k) \ {k} = 1 .. k - 1
    BY <1>1, LastOfPrefix
  <2> QED BY <1>1, <1>7, <2>1
<1>10. \A k \in 1 .. n : f[1 .. k - 1] \in Nat => f[1 .. k] = F[k][f[1 .. k - 1]]
  BY <1>9
<1>11. PICK acc : Runs(acc, n, Nat, 0, F) /\ acc[n] = f[1 .. n]
  <2> HIDE DEF F, n, Solves
  <2>1. n \in Nat /\ 0 \in Nat BY <1>1
  <2>2. FoldsUp(f, n, Nat, 0, F) BY <1>8, <1>10 DEF FoldsUp
  <2>3. RunsTo(f[1 .. n], n, Nat, 0, F) BY <2>1, <2>2, <1>3, FoldRuns
  <2> QED BY <2>3 DEF RunsTo
<1>12. \A k \in 1 .. n : acc[k] = acc[k - 1] + WeightOf(list[k])
  <2>1. SUFFICES ASSUME NEW k \in 1 .. n PROVE acc[k] = acc[k - 1] + WeightOf(list[k])
    OBVIOUS
  <2>2. k - 1 \in 0 .. n BY <1>1
  <2>3. acc[k - 1] \in Nat BY <1>11, <2>2 DEF Runs
  <2> QED BY <1>11, <2>3 DEF Runs
<1> QED BY <1>7, <1>11, <1>12 DEF Runs, RunningSum

\* Of any running sum.
LEMMA WeightIs ==
  ASSUME WeightType, NEW list \in Seq(Item), NEW acc, RunningSum(acc, list)
  PROVE  TotalWeight(list) = acc[Len(list)]
<1>1. PICK sum : RunningSum(sum, list) /\ TotalWeight(list) = sum[Len(list)] BY RunningWeight
<1> DEFINE S == {k \in Nat : k <= Len(list) => acc[k] = sum[k]}
<1>2. 0 \in S BY <1>1 DEF RunningSum
<1>3. ASSUME NEW k \in Nat, k \in S PROVE k + 1 \in S
  <2>1. SUFFICES ASSUME k + 1 <= Len(list) PROVE acc[k + 1] = sum[k + 1] OBVIOUS
  <2>2. k + 1 \in 1 .. Len(list) /\ (k + 1) - 1 = k /\ acc[k] = sum[k] BY <1>3, <2>1
  <2> QED BY <1>1, <2>2 DEF RunningSum
<1>4. \A k \in Nat : k \in S
  <2> HIDE DEF S
  <2> QED BY <1>2, <1>3, SetInduction
<1>5. Len(list) \in Nat OBVIOUS
<1> QED BY <1>1, <1>4, <1>5

\* An empty block weighs nothing.
LEMMA WeightEmpty ==
  ASSUME WeightType
  PROVE  TotalWeight(<<>>) = 0
<1>1. <<>> \in Seq(Item) /\ Len(<<>>) = 0 OBVIOUS
<1>2. RunningSum([k \in 0 .. 0 |-> 0], <<>>) BY <1>1 DEF RunningSum
<1> QED BY <1>1, <1>2, WeightIs

\* The weight of the first k items.
LEMMA WeightOfPrefix ==
  ASSUME WeightType, NEW list \in Seq(Item), NEW acc, RunningSum(acc, list),
         NEW k \in 0 .. Len(list)
  PROVE  /\ SubSeq(list, 1, k) \in Seq(Item) /\ Len(SubSeq(list, 1, k)) = k
         /\ TotalWeight(SubSeq(list, 1, k)) = acc[k]
<1> DEFINE p == SubSeq(list, 1, k)
           sum == [i \in 0 .. k |-> acc[i]]
<1>1. p \in Seq(Item) /\ Len(p) = k /\ \A i \in 1 .. k : p[i] = list[i] OBVIOUS
<1>2. Len(list) \in Nat /\ k \in Nat /\ k <= Len(list) OBVIOUS
<1>3. sum \in [0 .. k -> Nat] /\ sum[0] = 0 BY <1>2 DEF RunningSum
<1>4. ASSUME NEW i \in 1 .. k PROVE sum[i] = sum[i - 1] + WeightOf(p[i])
  <2>1. i \in 1 .. Len(list) /\ i - 1 \in 0 .. k /\ i \in 0 .. k BY <1>2
  <2> QED BY <1>1, <2>1 DEF RunningSum
<1>5. RunningSum(sum, p)
  <2> HIDE DEF p, sum
  <2> QED BY <1>1, <1>3, <1>4 DEF RunningSum
<1>6. sum[k] = acc[k] BY <1>2
<1> HIDE DEF p, sum
<1>7. TotalWeight(p) = sum[k] BY <1>1, <1>5, WeightIs
<1> QED BY <1>1, <1>6, <1>7 DEF p

\* The weight of a block is a natural number.
LEMMA WeightNat ==
  ASSUME WeightType, NEW list \in Seq(Item)
  PROVE  TotalWeight(list) \in Nat
<1>1. PICK sum : RunningSum(sum, list) /\ TotalWeight(list) = sum[Len(list)] BY RunningWeight
<1>2. Len(list) \in 0 .. Len(list) OBVIOUS
<1> QED BY <1>1, <1>2 DEF RunningSum

\* The weight of one list after the other.
LEMMA WeightConcat ==
  ASSUME WeightType, NEW a \in Seq(Item), NEW b \in Seq(Item)
  PROVE  TotalWeight(a \o b) = TotalWeight(a) + TotalWeight(b)
<1>1. PICK f : RunningSum(f, a) /\ TotalWeight(a) = f[Len(a)] BY RunningWeight
<1>2. PICK g : RunningSum(g, b) /\ TotalWeight(b) = g[Len(b)] BY RunningWeight
<1> DEFINE m == Len(a)
           n == Len(b)
           c == a \o b
           sum == [k \in 0 .. m + n |-> IF k <= m THEN f[k] ELSE f[m] + g[k - m]]
<1>3. /\ c \in Seq(Item) /\ Len(c) = m + n /\ m \in Nat /\ n \in Nat
      /\ \A k \in 1 .. m + n : c[k] = IF k <= m THEN a[k] ELSE b[k - m]
  OBVIOUS
<1> HIDE DEF m, n, c
<1>4. f \in [0 .. m -> Nat] /\ g \in [0 .. n -> Nat] /\ f[0] = 0 /\ g[0] = 0
  BY <1>1, <1>2 DEF RunningSum, m, n
<1>5. ASSUME NEW k \in 0 .. m + n PROVE sum[k] \in Nat
  <2>1. CASE k <= m BY <1>3, <1>4, <2>1
  <2>2. CASE k > m
    <3>1. k - m \in 0 .. n /\ m \in 0 .. m BY <1>3, <2>2
    <3>2. f[m] \in Nat /\ g[k - m] \in Nat BY <1>4, <3>1
    <3> QED BY <1>3, <2>2, <3>2
  <2> QED BY <1>3, <2>1, <2>2
<1>6. ASSUME NEW k \in 1 .. m + n PROVE sum[k] = sum[k - 1] + WeightOf(c[k])
  <2>0. k \in 0 .. m + n /\ k - 1 \in 0 .. m + n /\ k \in Nat BY <1>3
  <2>1. CASE k <= m
    <3>1. k \in 1 .. m /\ k - 1 <= m BY <1>3, <2>0, <2>1
    <3>2. f[k] = f[k - 1] + WeightOf(a[k]) BY <1>1, <3>1 DEF RunningSum, m
    <3> QED BY <1>3, <2>0, <2>1, <3>1, <3>2
  <2>2. CASE k > m
    <3>1. k - m \in 1 .. n /\ (k - m) - 1 = (k - 1) - m /\ ~(k <= m) BY <1>3, <2>0, <2>2
    <3>2. g[k - m] = g[(k - 1) - m] + WeightOf(b[k - m]) BY <1>2, <3>1 DEF RunningSum, n
    <3>3. c[k] = b[k - m] /\ sum[k] = f[m] + g[k - m] BY <1>3, <2>0, <3>1
    <3>4. sum[k - 1] = f[m] + g[(k - 1) - m]
      <4>1. CASE k - 1 > m
        <5>1. ~(k - 1 <= m) BY <4>1, <2>0, <1>3
        <5> QED BY <2>0, <5>1
      <4>2. CASE k - 1 = m
        <5>1. k - 1 <= m /\ (k - 1) - m = 0 BY <4>2, <2>0, <1>3
        <5>2. m \in 0 .. m BY <1>3
        <5>3. f[m] \in Nat BY <5>2, <1>4
        <5>4. sum[k - 1] = f[m] BY <2>0, <5>1, <4>2
        <5> QED BY <1>4, <5>1, <5>3, <5>4
      <4> QED BY <4>1, <4>2, <2>0, <2>2, <1>3
    <3>5. f[m] \in Nat /\ g[(k - 1) - m] \in Nat /\ WeightOf(c[k]) \in Nat
      <4>1. m \in 0 .. m /\ (k - 1) - m \in 0 .. n BY <1>3, <2>0, <2>2
      <4>2. c[k] \in Item BY <1>3
      <4> QED BY <4>1, <4>2, <1>4, WeightOfType DEF WeightType
    <3> HIDE DEF sum
    <3> QED BY <3>2, <3>3, <3>4, <3>5
  <2> QED BY <1>3, <2>0, <2>1, <2>2
<1>7. sum[0] = 0 BY <1>3, <1>4
<1>8. RunningSum(sum, c)
  <2>1. sum \in [0 .. m + n -> Nat] BY <1>5
  <2> HIDE DEF sum
  <2> QED BY <1>3, <1>6, <1>7, <2>1 DEF RunningSum
<1>9. TotalWeight(c) = sum[m + n]
  <2> HIDE DEF sum
  <2> QED BY <1>3, <1>8, WeightIs
<1>10. sum[m + n] = f[m] + g[n]
  <2>1. m + n \in 0 .. m + n /\ (m + n) - m = n /\ m \in 0 .. m BY <1>3
  <2>2. f[m] \in Nat BY <2>1, <1>4
  <2>3. CASE n = 0
    <3>1. m + n = m /\ g[n] = 0 BY <1>3, <1>4, <2>3
    <3> QED BY <2>1, <2>2, <3>1, <1>3
  <2>4. CASE n > 0
    <3>1. ~(m + n <= m) BY <1>3, <2>4
    <3> QED BY <2>1, <3>1
  <2> QED BY <1>3, <2>3, <2>4
<1> QED BY <1>1, <1>2, <1>9, <1>10 DEF m, n, c

\* Conflicts weigh 1 each.
LEMMA WeightRaw ==
  ASSUME WeightType, NEW list \in Seq(Item), \A k \in 1 .. Len(list) : list[k].raw
  PROVE  TotalWeight(list) = Len(list)
<1> DEFINE sum == [k \in 0 .. Len(list) |-> k]
<1>1. Len(list) \in Nat OBVIOUS
<1>2. sum \in [0 .. Len(list) -> Nat] /\ sum[0] = 0 /\ sum[Len(list)] = Len(list) BY <1>1
<1>3. ASSUME NEW k \in 1 .. Len(list) PROVE sum[k] = sum[k - 1] + WeightOf(list[k])
  <2>1. k - 1 \in 0 .. Len(list) /\ k \in 0 .. Len(list) BY <1>1
  <2>2. WeightOf(list[k]) = 1 BY DEF WeightOf
  <2> QED BY <2>1, <2>2
<1>4. RunningSum(sum, list)
  <2> HIDE DEF sum
  <2> QED BY <1>2, <1>3 DEF RunningSum
<1> HIDE DEF sum
<1> QED BY <1>2, <1>4, WeightIs

\* There are finitely many transactions.
LEMMA TxFinite ==
  ASSUME TxType
  PROVE  IsFiniteSet(Tx)
<1>1. Originals + Adds \in Int BY DEF TxType
<1> QED BY <1>1, FS_Interval DEF Tx

\* The weight of a set is a sum over it.
LEMMA SetWeightSums ==
  ASSUME TxType, WeightType
  PROVE  \E g : Sums(g, Tx, weight) /\ \A S \in SUBSET Tx : SetWeight(S) = g[S]
<1>1. weight \in [Tx -> Nat] BY DEF WeightType
<1>2. PICK g : Sums(g, Tx, weight) BY <1>1, TxFinite, SumExists
<1>3. ASSUME NEW S \in SUBSET Tx PROVE SetWeight(S) = g[S]
  <2>1. IsFiniteSet(S) BY TxFinite, FS_Subset
  <2>2. weight \in [Tx -> Nat] /\ [x \in S |-> weight[x]] \in [S -> Nat] BY <1>1
  <2>3. PICK h : Sums(h, S, [x \in S |-> weight[x]]) BY <2>1, <2>2, SumExists
  <2>4. SumsOn(h, S, weight)
    <3>1. \A s \in SUBSET S : s # {} => Pick(s) \in S BY DEF Pick
    <3>2. h = [s \in SUBSET S |-> h[s]] BY <2>3 DEF Sums
    <3>3. \A s \in SUBSET S :
            h[s] = IF s = {} THEN 0 ELSE weight[Pick(s)] + h[s \ {Pick(s)}]
      BY <2>3, <3>1 DEF Sums
    <3> QED BY <3>2, <3>3 DEF SumsOn
  <2>5. SetWeight(S) = (CHOOSE f : SumsOn(f, S, weight))[S]
    BY DEF SetWeight, MapThenSumSet, MapThenFoldSet, SumsOn, Pick
  <2>6. PICK f : SumsOn(f, S, weight) /\ SetWeight(S) = f[S] BY <2>4, <2>5
  <2>7. f[S] = g[S] BY <1>1, <1>2, <2>6, TxFinite, SumAgrees
  <2> QED BY <2>6, <2>7
<1> QED BY <1>2, <1>3

\* The weight of a set of transactions, one element after the other.
LEMMA SetWeightFacts ==
  ASSUME TxType, WeightType
  PROVE  /\ SetWeight({}) = 0
         /\ \A S \in SUBSET Tx : SetWeight(S) \in Nat
         /\ \A S \in SUBSET Tx : \A x \in S : SetWeight(S) = weight[x] + SetWeight(S \ {x})
<1>1. weight \in [Tx -> Nat] BY DEF WeightType
<1>2. PICK g : Sums(g, Tx, weight) /\ \A S \in SUBSET Tx : SetWeight(S) = g[S]
  BY SetWeightSums
<1>3. \A S \in SUBSET Tx : \A x \in S : g[S] = weight[x] + g[S \ {x}]
  <2>1. Sums(g, Tx, weight) BY <1>2
  <2>2. AddsUp(g, Tx, weight) BY <1>1, <2>1, TxFinite, SumRemove
  <2> QED BY <2>2 DEF AddsUp
<1>4. {} \in SUBSET Tx /\ \A S \in SUBSET Tx : \A x : S \ {x} \in SUBSET Tx OBVIOUS
<1>5. g[{}] = 0 /\ \A S \in SUBSET Tx : g[S] \in Nat BY <1>2, <1>4 DEF Sums
<1> QED BY <1>2, <1>3, <1>4, <1>5

\* More transactions weigh more.
LEMMA SetWeightMonotone ==
  ASSUME TxType, WeightType, NEW T \in SUBSET Tx, NEW U \in SUBSET T
  PROVE  SetWeight(U) <= SetWeight(T)
<1> DEFINE S == {m \in Nat : \A V \in SUBSET T : U \subseteq V /\ Cardinality(V) <= m
                               => SetWeight(U) <= SetWeight(V)}
<1>0. \A V \in SUBSET T : IsFiniteSet(V) /\ Cardinality(V) \in Nat
  <2>1. \A V \in SUBSET T : V \in SUBSET Tx OBVIOUS
  <2>2. \A V \in SUBSET T : IsFiniteSet(V) BY <2>1, TxFinite, FS_Subset
  <2> QED BY <2>2, FS_CardinalityType
<1>1. 0 \in S
  <2>1. \A V \in SUBSET T : Cardinality(V) <= 0 => V = {} BY <1>0, FS_EmptySet
  <2>2. \A V \in SUBSET T : U \subseteq V /\ V = {} => U = V OBVIOUS
  <2>3. SetWeight(U) <= SetWeight(U)
    <3>1. U \in SUBSET Tx OBVIOUS
    <3>2. SetWeight(U) \in Nat BY <3>1, SetWeightFacts
    <3> QED BY <3>2
  <2> QED BY <2>1, <2>2, <2>3
<1>2. ASSUME NEW m \in Nat, m \in S PROVE m + 1 \in S
  <2>1. SUFFICES ASSUME NEW V \in SUBSET T, U \subseteq V, Cardinality(V) <= m + 1
                 PROVE  SetWeight(U) <= SetWeight(V)
    OBVIOUS
  <2>0. U \in SUBSET Tx /\ V \in SUBSET Tx /\ SetWeight(U) \in Nat /\ SetWeight(V) \in Nat
    <3>1. U \in SUBSET Tx /\ V \in SUBSET Tx OBVIOUS
    <3> QED BY <3>1, SetWeightFacts
  <2>2. CASE U = V BY <2>0, <2>2
  <2>3. CASE U # V
    <3>1. PICK x \in V : x \notin U BY <2>1, <2>3
    <3>2. V \ {x} \in SUBSET T /\ U \subseteq V \ {x} BY <2>1, <3>1
    <3>3. Cardinality(V \ {x}) = Cardinality(V) - 1 BY <1>0, <3>1, FS_RemoveElement
    <3>4. Cardinality(V \ {x}) <= m BY <1>0, <2>1, <3>3
    <3>5. SetWeight(U) <= SetWeight(V \ {x}) BY <1>2, <3>2, <3>4
    <3>6. SetWeight(V) = weight[x] + SetWeight(V \ {x}) BY <2>0, <3>1, SetWeightFacts
    <3>7. SetWeight(V \ {x}) \in Nat /\ weight[x] \in Nat
      <4>1. V \ {x} \in SUBSET Tx /\ x \in Tx OBVIOUS
      <4> QED BY <4>1, SetWeightFacts DEF WeightType
    <3> QED BY <2>0, <3>5, <3>6, <3>7
  <2> QED BY <2>2, <2>3
<1>3. \A m \in Nat : m \in S
  <2> HIDE DEF S
  <2> QED BY <1>1, <1>2, SetInduction
<1>4. T \in SUBSET T /\ U \subseteq T OBVIOUS
<1>5. Cardinality(T) \in Nat /\ Cardinality(T) <= Cardinality(T) BY <1>0, <1>4
<1>6. Cardinality(T) \in S BY <1>3, <1>5
<1> QED BY <1>4, <1>5, <1>6

\* collect_mempool_ancestors: the transaction, its ancestors on the list and
\* nothing else.
LEMMA ClosureFacts ==
  ASSUME ParentsType, NEW L \in SUBSET Tx, NEW t \in L
  PROVE  /\ t \in CollectMempoolAncestors(t, L)
         /\ CollectMempoolAncestors(t, L) \subseteq L
         /\ \A x \in CollectMempoolAncestors(t, L) :
              parents[x] \cap L \subseteq CollectMempoolAncestors(t, L)
<1> DEFINE n == Originals + Adds
           A == [x \in Tx |-> {x}]
           P == [x \in Tx |-> parents[x] \cap L]
           Solves(f) == f = [x \in Tx |-> {x} \cup UNION {f[p] : p \in parents[x] \cap L}]
<1>1. n \in Nat /\ Tx = 1 .. n BY DEF ParentsType, TxType, Tx
<1>2. \A x \in 1 .. n : P[x] \subseteq 1 .. x - 1 BY <1>1 DEF ParentsType
<1>3. PICK f : Recurs(f, n, A, P)
  <2> HIDE DEF n, A, P
  <2> QED BY <1>1, <1>2, RecursionExists
<1>4. Solves(f)
  <2>1. \A x \in Tx : A[x] \cup UNION {f[p] : p \in P[x]}
                        = {x} \cup UNION {f[p] : p \in parents[x] \cap L} OBVIOUS
  <2>2. f = [x \in Tx |-> A[x] \cup UNION {f[p] : p \in P[x]}] BY <1>1, <1>3 DEF Recurs
  <2> HIDE DEF A, P
  <2> QED BY <2>1, <2>2
<1>5. CollectMempoolAncestors(t, L) = (CHOOSE u : Solves(u))[t] BY DEF CollectMempoolAncestors
<1>6. PICK up : Solves(up) /\ CollectMempoolAncestors(t, L) = up[t]
  <2> HIDE DEF Solves
  <2> QED BY <1>4, <1>5
<1>7. \A x \in Tx : up[x] = {x} \cup UNION {up[p] : p \in parents[x] \cap L}
  BY <1>6
<1> HIDE DEF Solves
<1> DEFINE S == {m \in Nat : \A x \in L : x <= m =>
                   up[x] \subseteq L /\ \A y \in up[x] : parents[y] \cap L \subseteq up[x]}
<1>8. L \in SUBSET Nat /\ \A x \in L : x > 0 /\ x \in Tx BY <1>1
<1>9. 0 \in S BY <1>8
<1>10. ASSUME NEW m \in Nat, m \in S PROVE m + 1 \in S
  <2>1. SUFFICES ASSUME NEW x \in L, x <= m + 1
                 PROVE  up[x] \subseteq L /\ \A y \in up[x] : parents[y] \cap L \subseteq up[x]
    OBVIOUS
  <2>2. up[x] = {x} \cup UNION {up[p] : p \in parents[x] \cap L} BY <1>7, <1>8
  <2>3. ASSUME NEW p \in parents[x] \cap L
        PROVE  /\ p \in up[p] /\ up[p] \subseteq up[x] /\ up[p] \subseteq L
               /\ \A y \in up[p] : parents[y] \cap L \subseteq up[p]
    <3>1. p \in L /\ p <= m
      <4>1. x \in Tx /\ p \in 1 .. x - 1 BY <1>8 DEF ParentsType
      <4> QED BY <4>1, <1>8, <2>1
    <3>2. p \in up[p] BY <1>7, <1>8, <3>1
    <3> QED BY <2>2, <3>1, <3>2, <1>10
  <2>4. up[x] \subseteq L BY <2>2, <2>3
  <2>5. ASSUME NEW y \in up[x] PROVE parents[y] \cap L \subseteq up[x]
    <3>1. CASE y = x BY <2>3, <3>1
    <3>2. CASE \E p \in parents[x] \cap L : y \in up[p] BY <2>3, <3>2
    <3> QED BY <2>2, <3>1, <3>2
  <2> QED BY <2>4, <2>5
<1>11. \A m \in Nat : m \in S
  <2> HIDE DEF S
  <2> QED BY <1>9, <1>10, SetInduction
<1>12. t \in Nat /\ t \in S /\ t <= t /\ t \in Tx BY <1>8, <1>11
<1>13. t \in up[t] BY <1>7, <1>12
<1> QED BY <1>6, <1>12, <1>13

\* A list of transactions weighs what the set of them does.
LEMMA WeightOfList ==
  ASSUME TxType, WeightType, NEW list \in Seq(Tx),
         \A i, j \in 1 .. Len(list) : i # j => list[i] # list[j]
  PROVE  /\ [k \in DOMAIN list |-> Mempool(list[k])] \in Seq(Item)
         /\ Len([k \in DOMAIN list |-> Mempool(list[k])]) = Len(list)
         /\ TotalWeight([k \in DOMAIN list |-> Mempool(list[k])])
              = SetWeight({list[k] : k \in 1 .. Len(list)})
<1> DEFINE n == Len(list)
           all == [k \in DOMAIN list |-> Mempool(list[k])]
           first(k) == {list[i] : i \in 1 .. k}
           sum == [k \in 0 .. n |-> SetWeight(first(k))]
<1>1. n \in Nat /\ DOMAIN list = 1 .. n /\ \A k \in 1 .. n : list[k] \in Tx OBVIOUS
<1>2. all \in [1 .. n -> Item] BY <1>1 DEF Mempool, Item
<1>3. all \in Seq(Item) /\ Len(all) = n /\ \A k \in 1 .. n : all[k] = Mempool(list[k])
  BY <1>1, <1>2
<1> HIDE DEF all
<1>4. \A k \in 0 .. n : first(k) \in SUBSET Tx BY <1>1
<1>5. ASSUME NEW k \in 1 .. n PROVE sum[k] = sum[k - 1] + WeightOf(all[k])
  <2>1. k \in 0 .. n /\ k - 1 \in 0 .. n /\ list[k] \in first(k) BY <1>1
  <2>2. first(k) \ {list[k]} = first(k - 1)
    <3>1. \A i \in 1 .. k : i \in 1 .. n BY <1>1
    <3>2. \A i \in 1 .. k : i = k \/ (i \in 1 .. k - 1 /\ list[i] # list[k]) BY <1>1, <3>1
    <3>3. \A i \in 1 .. k - 1 : i \in 1 .. k /\ i # k BY <1>1
    <3> QED BY <3>2, <3>3
  <2>3. SetWeight(first(k)) = weight[list[k]] + SetWeight(first(k - 1))
    <3> HIDE DEF first
    <3> QED BY <2>1, <2>2, <1>4, SetWeightFacts
  <2>4. WeightOf(all[k]) = weight[list[k]]
    <3>1. all[k] = Mempool(list[k]) BY <1>3
    <3>2. \A t : WeightOf(Mempool(t)) = weight[t] BY DEF WeightOf, Mempool
    <3> QED BY <3>1, <3>2
  <2>5. SetWeight(first(k - 1)) \in Nat /\ weight[list[k]] \in Nat
    <3> HIDE DEF first
    <3> QED BY <1>1, <1>4, <2>1, SetWeightFacts DEF WeightType
  <2>6. sum[k] = SetWeight(first(k)) /\ sum[k - 1] = SetWeight(first(k - 1)) BY <2>1
  <2> HIDE DEF sum, first
  <2> QED BY <2>3, <2>4, <2>5, <2>6
<1>6. sum \in [0 .. n -> Nat]
  <2> HIDE DEF first
  <2> QED BY <1>4, SetWeightFacts
<1>7. sum[0] = 0 /\ sum[n] = SetWeight(first(n))
  <2>1. 0 \in 0 .. n /\ n \in 0 .. n /\ first(0) = {} BY <1>1
  <2> HIDE DEF first
  <2> QED BY <2>1, SetWeightFacts
<1> HIDE DEF sum, n
<1>8. RunningSum(sum, all) BY <1>3, <1>5, <1>6, <1>7 DEF RunningSum
<1>9. TotalWeight(all) = SetWeight(first(n)) BY <1>3, <1>7, <1>8, WeightIs
<1> QED BY <1>3, <1>9 DEF all, n

(***************************************************************************)
(* Packing a block.                                                        *)
(***************************************************************************)
\* A is of the list, with the parents that are on it.
Closed(A, L) == A \subseteq L /\ \A x \in A : parents[x] \cap L \subseteq A

\* What is taken first is closed and fits.
LEMMA TakeInjectedFacts ==
  ASSUME ParentsType, WeightType, NEW list \in Seq(Tx), NEW budget \in Nat
  PROVE  /\ Closed(TakeInjected(list, budget), Range(list))
         /\ SetWeight(TakeInjected(list, budget)) <= budget
<1> DEFINE n == Len(list)
           L == Range(list)
           Acc == {A \in SUBSET Tx : Closed(A, L) /\ SetWeight(A) <= budget}
           take(sel, t) ==
             IF t \in injected /\ SetWeight(sel \cup CollectMempoolAncestors(t, L)) <= budget
             THEN sel \cup CollectMempoolAncestors(t, L) ELSE sel
           F == [k \in 1 .. n |-> [a \in Acc |-> take(a, list[k])]]
           Solves(f) == f = [s \in SUBSET DOMAIN list |->
                               IF s = {} THEN {} ELSE LET x == Max(s) IN take(f[s \ {x}], list[x])]
<1>1. /\ n \in Nat /\ DOMAIN list = 1 .. n /\ L = {list[k] : k \in 1 .. n}
      /\ L \in SUBSET Tx /\ \A k \in 1 .. n : list[k] \in L
  BY DEF Range
<1>2. ASSUME NEW a \in Acc, NEW k \in 1 .. n PROVE take(a, list[k]) \in Acc
  <2> DEFINE t == list[k]
             c == CollectMempoolAncestors(t, L)
  <2>1. t \in L BY <1>1
  <2>2. c \subseteq L /\ \A x \in c : parents[x] \cap L \subseteq c
    <3> HIDE DEF t, L
    <3> QED BY <1>1, <2>1, ClosureFacts
  <2> HIDE DEF c, t, L
  <2>3. a \cup c \in SUBSET Tx BY <1>1, <2>2
  <2>4. Closed(a \cup c, L) BY <2>2 DEF Closed
  <2> QED BY <2>3, <2>4 DEF c, t
<1>3. {} \in Acc
  <2>1. SetWeight({}) = 0 BY SetWeightFacts DEF ParentsType
  <2> QED BY <2>1 DEF Closed
<1>4. F \in [1 .. n -> [Acc -> Acc]]
  <2> HIDE DEF Acc, take, n
  <2> QED BY <1>2
<1>5. PICK it : IsFold(it, n, Acc, {}, F)
  <2> HIDE DEF F, n, Acc
  <2> QED BY <1>1, <1>3, <1>4, FoldExists
<1>6. TakeInjected(list, budget) = (CHOOSE f : Solves(f))[DOMAIN list]
  BY DEF TakeInjected, FoldLeft, MapThenFoldSet
<1> HIDE DEF take, Acc, L
<1>7. Solves(it)
  <2>1. ASSUME NEW s \in SUBSET (1 .. n), s # {}
        PROVE  it[s] = take(it[s \ {Max(s)}], list[Max(s)])
    <3>1. s \in SUBSET Nat /\ \A x \in s : x <= n BY <1>1
    <3>2. Max(s) \in 1 .. n BY <3>1, <1>1, <2>1, GreatestOf
    <3>3. s \ {Max(s)} \in SUBSET (1 .. n) OBVIOUS
    <3>4. it[s \ {Max(s)}] \in Acc BY <3>3, <1>5 DEF IsFold
    <3> QED BY <1>5, <2>1, <3>2, <3>4 DEF IsFold
  <2>2. \A s \in SUBSET (1 .. n) :
          it[s] = IF s = {} THEN {} ELSE take(it[s \ {Max(s)}], list[Max(s)])
    BY <1>5, <2>1 DEF IsFold
  <2>3. it = [s \in SUBSET (1 .. n) |-> it[s]] BY <1>5 DEF IsFold
  <2> QED BY <1>1, <2>2, <2>3
<1>8. PICK f : Solves(f) /\ TakeInjected(list, budget) = f[1 .. n]
  <2> HIDE DEF Solves, n
  <2> QED BY <1>1, <1>6, <1>7
<1>9. f[{}] = {}
  <2>1. {} \in SUBSET DOMAIN list OBVIOUS
  <2> QED BY <2>1, <1>8
<1>10. ASSUME NEW k \in 1 .. n
      PROVE  f[1 .. k] = take(f[1 .. k - 1], list[k])
  <2>1. /\ 1 .. k \in SUBSET (1 .. n) /\ 1 .. k # {}
        /\ Max(1 .. k) = k /\ (1 .. k) \ {k} = 1 .. k - 1
    BY <1>1, LastOfPrefix
  <2> QED BY <1>1, <1>8, <2>1
<1>11. \A k \in 1 .. n : f[1 .. k - 1] \in Acc => f[1 .. k] = F[k][f[1 .. k - 1]]
  BY <1>10
<1>12. PICK acc : Runs(acc, n, Acc, {}, F) /\ acc[n] = f[1 .. n]
  <2> HIDE DEF F, n, Solves
  <2>2. FoldsUp(f, n, Acc, {}, F) BY <1>9, <1>11 DEF FoldsUp
  <2>3. RunsTo(f[1 .. n], n, Acc, {}, F) BY <1>1, <1>3, <2>2, <1>4, FoldRuns
  <2> QED BY <2>3 DEF RunsTo
<1>13. f[1 .. n] \in Acc
  <2>1. n \in 0 .. n BY <1>1
  <2> QED BY <2>1, <1>12 DEF Runs
<1> QED BY <1>8, <1>13 DEF Acc, L

\* What is selected of the list within the budget, and why no more is.
Selection(list, budget, sel) ==
  /\ Closed(sel, Range(list)) /\ SetWeight(sel) <= budget
  /\ \/ sel = Range(list)
     \/ \E t \in Range(list) \ sel : SetWeight(sel \cup {t}) > budget
  /\ list # <<>> /\ weight[list[1]] <= budget => sel # {}

\* After k transactions of the list.
Filled(list, budget, k, a) ==
  /\ Closed(a.sel, Range(list)) /\ SetWeight(a.sel) <= budget
  /\ ~a.full => \A i \in 1 .. k : list[i] \in a.sel
  /\ a.full => /\ \E t \in Range(list) \ a.sel : SetWeight(a.sel \cup {t}) > budget
               /\ weight[list[1]] <= budget => a.sel # {}

\* One more transaction of the list for FillInOrder.
Filling(list, budget, a, t) ==
  IF a.full \/ t \in a.sel THEN a
  ELSE IF SetWeight(a.sel \cup {t}) > budget THEN [a EXCEPT !.full = TRUE]
  ELSE [a EXCEPT !.sel = @ \cup {t}]

\* One more.
LEMMA FillStep ==
  ASSUME ParentsType, WeightType, NEW list \in Seq(Tx), NEW budget \in Nat,
         \A i, j \in 1 .. Len(list) : list[i] \in parents[list[j]] => i < j,
         NEW k \in 0 .. Len(list) - 1,
         NEW a \in [sel : SUBSET Range(list), full : BOOLEAN],
         Filled(list, budget, k, a)
  PROVE  Filled(list, budget, k + 1, Filling(list, budget, a, list[k + 1]))
<1> DEFINE n == Len(list)
           L == Range(list)
           t == list[k + 1]
           b == Filling(list, budget, a, t)
<1>1. /\ n \in Nat /\ DOMAIN list = 1 .. n /\ L = {list[i] : i \in 1 .. n}
      /\ L \in SUBSET Tx /\ \A i \in 1 .. n : list[i] \in L
  BY DEF Range
<1>2. k + 1 \in 1 .. n /\ k \in Nat /\ t \in L BY <1>1
<1>3. \A i \in 1 .. k + 1 : i \in 1 .. k \/ i = k + 1 BY <1>2
<1>4. a.sel \in SUBSET L /\ a.full \in BOOLEAN OBVIOUS
<1>5. CASE a.full
  <2>1. b = a BY <1>5 DEF Filling
  <2> QED BY <1>5, <2>1 DEF Filled
<1>6. CASE ~a.full /\ t \in a.sel
  <2>1. b = a BY <1>6 DEF Filling
  <2>2. \A i \in 1 .. k + 1 : list[i] \in a.sel BY <1>3, <1>6 DEF Filled
  <2> QED BY <1>6, <2>1, <2>2 DEF Filled
<1>7. CASE ~a.full /\ t \notin a.sel /\ SetWeight(a.sel \cup {t}) > budget
  <2>1. b = [a EXCEPT !.full = TRUE] BY <1>7 DEF Filling
  <2>2. b.sel = a.sel /\ b.full = TRUE BY <2>1
  <2>3. ASSUME weight[list[1]] <= budget, a.sel = {} PROVE FALSE
    <3>1. k = 0
      <4>1. CASE k > 0
        <5>1. 1 \in 1 .. k BY <4>1, <1>2
        <5> QED BY <5>1, <1>7, <2>3 DEF Filled
      <4> QED BY <4>1, <1>2
    <3>2. t = list[1] /\ a.sel \cup {t} = {t} /\ {t} \in SUBSET Tx /\ {t} \ {t} = {} /\ t \in {t}
      BY <3>1, <2>3, <1>1, <1>2
    <3> HIDE DEF t
    <3>3. SetWeight({t}) = weight[t] + SetWeight({}) /\ SetWeight({}) = 0
      BY <3>2, SetWeightFacts DEF ParentsType
    <3>4. weight[t] \in Nat BY <1>1, <1>2 DEF WeightType
    <3> QED BY <1>7, <2>3, <3>2, <3>3, <3>4
  <2> HIDE DEF b, t
  <2> QED BY <1>2, <1>7, <2>2, <2>3 DEF Filled, b, t
<1>8. CASE ~a.full /\ t \notin a.sel /\ ~(SetWeight(a.sel \cup {t}) > budget)
  <2>1. b = [a EXCEPT !.sel = @ \cup {t}] BY <1>8 DEF Filling
  <2>2. b.sel = a.sel \cup {t} /\ b.full = a.full BY <2>1
  <2>3. SetWeight(a.sel \cup {t}) \in Nat
    <3>1. a.sel \cup {t} \in SUBSET Tx BY <1>1, <1>2, <1>4
    <3> HIDE DEF t
    <3> QED BY <3>1, SetWeightFacts DEF ParentsType
  <2>4. parents[t] \cap L \subseteq a.sel
    <3>1. SUFFICES ASSUME NEW p \in parents[t] \cap L PROVE p \in a.sel OBVIOUS
    <3>2. PICK i \in 1 .. n : p = list[i] BY <1>1
    <3>3. i < k + 1 BY <1>2, <3>1, <3>2
    <3>4. i \in 1 .. k BY <3>2, <3>3, <1>2
    <3> QED BY <3>2, <3>4, <1>8 DEF Filled
  <2>5. \A i \in 1 .. k + 1 : list[i] \in a.sel \cup {t} BY <1>3, <1>8 DEF Filled
  <2>6. Closed(a.sel \cup {t}, L)
    <3>1. Closed(a.sel, L) BY DEF Filled
    <3> HIDE DEF t, L
    <3> QED BY <3>1, <2>4, <1>2 DEF Closed
  <2>7. SetWeight(a.sel \cup {t}) <= budget BY <1>8, <2>3
  <2> HIDE DEF b, t
  <2> QED BY <1>8, <2>2, <2>5, <2>6, <2>7 DEF Filled, b, t
<1> QED BY <1>4, <1>5, <1>6, <1>7, <1>8

\* The others follow: the selection is closed, fits, and is all of the list or
\* leaves out one that does not fit.
LEMMA FillInOrderFacts ==
  ASSUME ParentsType, WeightType, NEW list \in Seq(Tx), NEW budget \in Nat, NEW first,
         \A i, j \in 1 .. Len(list) : list[i] \in parents[list[j]] => i < j,
         Closed(first, Range(list)), SetWeight(first) <= budget
  PROVE  Selection(list, budget, FillInOrder(list, budget, first).sel)
<1> DEFINE n == Len(list)
           L == Range(list)
           Acc == [sel : SUBSET L, full : BOOLEAN]
           base == [sel |-> first, full |-> FALSE]
           fill(a, t) == Filling(list, budget, a, t)
           F == [k \in 1 .. n |-> [a \in Acc |-> fill(a, list[k])]]
           Solves(f) == f = [s \in SUBSET DOMAIN list |->
                               IF s = {} THEN base ELSE LET x == Max(s) IN fill(f[s \ {x}], list[x])]
<1>1. /\ n \in Nat /\ DOMAIN list = 1 .. n /\ L = {list[k] : k \in 1 .. n}
      /\ L \in SUBSET Tx /\ \A k \in 1 .. n : list[k] \in L
  BY DEF Range
<1>2. ASSUME NEW a \in Acc, NEW k \in 1 .. n PROVE fill(a, list[k]) \in Acc
  <2>1. list[k] \in L BY <1>1
  <2> HIDE DEF L
  <2>2. [a EXCEPT !.full = TRUE] \in Acc OBVIOUS
  <2>3. [a EXCEPT !.sel = @ \cup {list[k]}] \in Acc BY <2>1
  <2> QED BY <2>2, <2>3 DEF Filling
<1>3. base \in Acc BY DEF Closed
<1>4. F \in [1 .. n -> [Acc -> Acc]]
  <2> HIDE DEF Acc, fill, n
  <2> QED BY <1>2
<1>5. PICK it : IsFold(it, n, Acc, base, F)
  <2> HIDE DEF F, n, Acc, base
  <2> QED BY <1>1, <1>3, <1>4, FoldExists
<1>6. FillInOrder(list, budget, first) = (CHOOSE f : Solves(f))[DOMAIN list]
  BY DEF FillInOrder, FoldLeft, MapThenFoldSet, Filling
<1> HIDE DEF fill, Acc, L, base
<1>7. Solves(it)
  <2>1. ASSUME NEW s \in SUBSET (1 .. n), s # {}
        PROVE  it[s] = fill(it[s \ {Max(s)}], list[Max(s)])
    <3>1. s \in SUBSET Nat /\ \A x \in s : x <= n BY <1>1
    <3>2. Max(s) \in 1 .. n BY <3>1, <1>1, <2>1, GreatestOf
    <3>3. s \ {Max(s)} \in SUBSET (1 .. n) OBVIOUS
    <3>4. it[s \ {Max(s)}] \in Acc BY <3>3, <1>5 DEF IsFold
    <3> QED BY <1>5, <2>1, <3>2, <3>4 DEF IsFold
  <2>2. \A s \in SUBSET (1 .. n) :
          it[s] = IF s = {} THEN base ELSE fill(it[s \ {Max(s)}], list[Max(s)])
    BY <1>5, <2>1 DEF IsFold
  <2>3. it = [s \in SUBSET (1 .. n) |-> it[s]] BY <1>5 DEF IsFold
  <2> QED BY <1>1, <2>2, <2>3
<1>8. PICK f : Solves(f) /\ FillInOrder(list, budget, first) = f[1 .. n]
  <2> HIDE DEF Solves, n
  <2> QED BY <1>1, <1>6, <1>7
<1>9. f[{}] = base
  <2>1. {} \in SUBSET DOMAIN list OBVIOUS
  <2> QED BY <2>1, <1>8
<1>10. ASSUME NEW k \in 1 .. n
      PROVE  f[1 .. k] = fill(f[1 .. k - 1], list[k])
  <2>1. /\ 1 .. k \in SUBSET (1 .. n) /\ 1 .. k # {}
        /\ Max(1 .. k) = k /\ (1 .. k) \ {k} = 1 .. k - 1
    BY <1>1, LastOfPrefix
  <2> QED BY <1>1, <1>8, <2>1
<1>11. \A k \in 1 .. n : f[1 .. k - 1] \in Acc => f[1 .. k] = F[k][f[1 .. k - 1]]
  BY <1>10
<1>12. PICK acc : Runs(acc, n, Acc, base, F) /\ acc[n] = f[1 .. n]
  <2> HIDE DEF F, n, Solves
  <2>2. FoldsUp(f, n, Acc, base, F) BY <1>9, <1>11 DEF FoldsUp
  <2>3. RunsTo(f[1 .. n], n, Acc, base, F) BY <1>1, <1>3, <2>2, <1>4, FoldRuns
  <2> QED BY <2>3 DEF RunsTo
<1> DEFINE S == {k \in Nat : k <= n => Filled(list, budget, k, acc[k])}
<1>13. 0 \in S
  <2>1. acc[0] = base BY <1>12 DEF Runs
  <2>2. base.sel = first /\ base.full = FALSE BY DEF base
  <2> QED BY <2>1, <2>2 DEF Filled
<1>14. ASSUME NEW k \in Nat, k \in S PROVE k + 1 \in S
  <2>1. SUFFICES ASSUME k + 1 <= n PROVE Filled(list, budget, k + 1, acc[k + 1])
    OBVIOUS
  <2>5. /\ k + 1 \in 1 .. n /\ (k + 1) - 1 = k /\ k \in 0 .. n /\ k \in 0 .. n - 1
        /\ k <= n
    BY <1>1, <2>1
  <2>6. Filled(list, budget, k, acc[k]) BY <1>14, <2>5
  <2>2. /\ k + 1 \in 1 .. n /\ (k + 1) - 1 = k /\ k \in 0 .. n /\ k \in 0 .. n - 1
        /\ Filled(list, budget, k, acc[k])
    BY <2>5, <2>6
  <2>3. acc[k] \in Acc BY <2>2, <1>12 DEF Runs
  <2>4. acc[k + 1] = Filling(list, budget, acc[k], list[k + 1])
    BY <1>12, <2>2, <2>3 DEF Runs, fill
  <2> QED BY <2>2, <2>3, <2>4, FillStep DEF Acc, L
<1>15. \A k \in Nat : k \in S
  <2> HIDE DEF S
  <2> QED BY <1>13, <1>14, SetInduction
<1> DEFINE r == FillInOrder(list, budget, first)
<1>16. r \in Acc /\ Filled(list, budget, n, r)
  <2>1. n \in 0 .. n /\ n <= n /\ n \in S BY <1>1, <1>15
  <2>2. Filled(list, budget, n, acc[n]) BY <2>1
  <2>3. acc[n] \in Acc BY <2>1, <1>12 DEF Runs
  <2>4. r = acc[n] BY <1>8, <1>12
  <2> HIDE DEF r
  <2> QED BY <2>2, <2>3, <2>4
<1> HIDE DEF r
<1>17. r.sel \subseteq L /\ r.full \in BOOLEAN BY <1>16 DEF Acc
<1>18. CASE r.full BY <1>16, <1>18 DEF Filled, Selection, r
<1>19. CASE ~r.full
  <2>1. r.sel = L BY <1>1, <1>16, <1>17, <1>19 DEF Filled
  <2>2. list # <<>> => r.sel # {}
    <3>1. list # <<>> => n > 0 OBVIOUS
    <3>2. n > 0 => list[1] \in L BY <1>1
    <3> QED BY <2>1, <3>1, <3>2
  <2> QED BY <1>16, <2>1, <2>2 DEF Filled, Selection, r, L
<1> QED BY <1>17, <1>18, <1>19

\* live_mempool_weighted lists every minable mempool transaction once, parents
\* before children.
LEMMA LiveList ==
  ASSUME ParentsType, mempool \subseteq Tx
  PROVE  /\ LiveMempoolWeighted \in Seq(Tx)
         /\ Range(LiveMempoolWeighted) = mempool \ excluded
         /\ \A i, j \in 1 .. Len(LiveMempoolWeighted) :
              i # j => LiveMempoolWeighted[i] # LiveMempoolWeighted[j]
         /\ \A i, j \in 1 .. Len(LiveMempoolWeighted) :
              LiveMempoolWeighted[i] \in parents[LiveMempoolWeighted[j]] => i < j
<1> DEFINE s == LiveMempoolWeighted
           S == mempool \ excluded
<1>1. Lists(s, S, LiveOrder(S)) BY LiveLists
<1>2. \A i, j \in DOMAIN s : s[i] \in parents[s[j]] => i < j BY ParentsFirst
<1> HIDE DEF s
<1>3. s \in Seq(S) /\ Len(s) \in Nat /\ DOMAIN s = 1 .. Len(s) BY <1>1 DEF Lists
<1>4. s \in Seq(Tx)
  <2>1. s \in [1 .. Len(s) -> Tx] BY <1>3
  <2> QED BY <1>3, <2>1
<1>5. Range(s) = S
  <2>1. \A k \in 1 .. Len(s) : s[k] \in S BY <1>3
  <2>2. \A x \in S : \E k \in 1 .. Len(s) : s[k] = x BY <1>1 DEF Lists
  <2>3. Range(s) = {s[k] : k \in 1 .. Len(s)} BY <1>3 DEF Range
  <2> HIDE DEF S
  <2> QED BY <2>1, <2>2, <2>3
<1>6. ASSUME NEW i \in 1 .. Len(s), NEW j \in 1 .. Len(s), i # j PROVE s[i] # s[j]
  <2>5. \A x \in Tx : Count(x) \in Nat BY CountType
  <2>6. \A x \in Tx : x \in Nat BY DEF ParentsType, TxType, Tx
  <2>0. \A x \in Tx : Count(x) \in Nat /\ x \in Nat BY <2>5, <2>6
  <2>1. \A x \in S : <<x, x>> \notin LiveOrder(S) BY <2>0 DEF LiveOrder
  <2>2. i < j \/ j < i BY <1>6, <1>3
  <2>3. <<s[i], s[j]>> \in LiveOrder(S) \/ <<s[j], s[i]>> \in LiveOrder(S)
    BY <1>1, <2>2 DEF Lists
  <2>4. s[i] \in S /\ s[j] \in S BY <1>3
  <2> QED BY <2>1, <2>3, <2>4
<1>7. \A i, j \in 1 .. Len(s) : s[i] \in parents[s[j]] => i < j BY <1>2, <1>3
<1> QED BY <1>4, <1>5, <1>6, <1>7 DEF s

\* The packed transactions: a selection, parents first.
Packs(packed, list, budget) ==
  /\ packed \in Seq(Tx)
  /\ \A i, j \in 1 .. Len(packed) : i # j => packed[i] # packed[j]
  /\ Selection(list, budget, {packed[k] : k \in 1 .. Len(packed)})
  /\ \A j \in 1 .. Len(packed) : \A p \in parents[packed[j]] \cap Range(list) :
       \E i \in 1 .. j - 1 : packed[i] = p

\* pack_prioritized_by_weight returns such a selection.
LEMMA PackPrioritizedFacts ==
  ASSUME ParentsType, WeightType, NEW list \in Seq(Tx), NEW budget \in Nat,
         \A i, j \in 1 .. Len(list) : i # j => list[i] # list[j],
         \A i, j \in 1 .. Len(list) : list[i] \in parents[list[j]] => i < j
  PROVE  Packs(PackPrioritized(list, budget), list, budget)
<1> DEFINE first == TakeInjected(list, budget)
           sel == FillInOrder(list, budget, first).sel
           P == {k \in DOMAIN list : list[k] \in sel}
           packed == PackPrioritized(list, budget)
<1>1. Closed(first, Range(list)) /\ SetWeight(first) <= budget BY TakeInjectedFacts
<1>2. Selection(list, budget, sel)
  <2> HIDE DEF first
  <2> QED BY <1>1, FillInOrderFacts
<1> HIDE DEF first
<1>3. packed = [n \in DOMAIN Ascending(P) |-> list[Ascending(P)[n]]]
  BY DEF PackPrioritized, Kept, first
<1> HIDE DEF sel, packed
<1>4. P \in SUBSET (1 .. Len(list)) /\ Len(list) \in Nat OBVIOUS
<1>5. packed \in Seq(Tx) /\ IsKept(packed, list, P)
  <2> HIDE DEF P
  <2> QED BY <1>3, <1>4, KeptPositions
<1>6. PICK slot \in [1 .. Len(packed) -> P] :
        /\ \A i, j \in 1 .. Len(packed) : i < j => slot[i] < slot[j]
        /\ \A p \in P : \E n \in 1 .. Len(packed) : slot[n] = p
        /\ \A n \in 1 .. Len(packed) : packed[n] = list[slot[n]]
  BY <1>5 DEF IsKept
<1>7. \A n \in 1 .. Len(packed) : slot[n] \in P /\ slot[n] \in 1 .. Len(list) /\ list[slot[n]] \in sel
  BY <1>6
<1>8. \A t \in sel : \E n \in 1 .. Len(packed) : packed[n] = t
  <2>1. SUFFICES ASSUME NEW t \in sel PROVE \E n \in 1 .. Len(packed) : packed[n] = t OBVIOUS
  <2>2. PICK k \in 1 .. Len(list) : list[k] = t
    <3>1. sel \subseteq Range(list) BY <1>2 DEF Selection, Closed
    <3> QED BY <3>1 DEF Range
  <2>3. k \in P BY <2>2
  <2> HIDE DEF P
  <2> QED BY <2>2, <2>3, <1>6
<1>9. {packed[k] : k \in 1 .. Len(packed)} = sel
  <2> HIDE DEF P
  <2>1. \A k \in 1 .. Len(packed) : packed[k] \in sel BY <1>6, <1>7
  <2> QED BY <2>1, <1>8
<1>10. Len(packed) \in Nat BY <1>5
<1>11. ASSUME NEW i \in 1 .. Len(packed), NEW j \in 1 .. Len(packed), i # j
       PROVE  packed[i] # packed[j]
  <2>1. i < j \/ j < i BY <1>11, <1>10
  <2>2. slot[i] # slot[j]
    <3>1. slot[i] \in Nat /\ slot[j] \in Nat BY <1>7, <1>4
    <3> QED BY <2>1, <3>1, <1>6
  <2> HIDE DEF P
  <2> QED BY <2>2, <1>6, <1>7
<1>12. ASSUME NEW j \in 1 .. Len(packed), NEW p \in parents[packed[j]] \cap Range(list)
       PROVE  \E i \in 1 .. j - 1 : packed[i] = p
  <2>1. packed[j] \in sel BY <1>6, <1>7
  <2>2. p \in sel BY <2>1, <1>2 DEF Selection, Closed
  <2>3. PICK i \in 1 .. Len(packed) : packed[i] = p BY <2>2, <1>8
  <2>4. slot[i] < slot[j]
    <3>1. list[slot[i]] = p /\ list[slot[j]] = packed[j] BY <1>6, <2>3
    <3> HIDE DEF P
    <3> QED BY <3>1, <1>7
  <2>5. i < j
    <3>1. slot[i] \in Nat /\ slot[j] \in Nat BY <1>7, <1>4
    <3>2. ~(j < i) BY <3>1, <2>4, <1>6
    <3>3. i # j BY <3>1, <2>4
    <3> QED BY <3>2, <3>3, <1>10
  <2>6. i \in 1 .. j - 1 BY <2>5, <1>10
  <2> QED BY <2>3, <2>6
<1> QED BY <1>2, <1>5, <1>9, <1>11, <1>12 DEF Packs, packed

\* A prefix that fits, not empty if the first item fits, and all of the list
\* or as much as fits.
LEMMA WeightPrefixFacts ==
  ASSUME WeightType, NEW list \in Seq(Item), NEW budget \in Nat
  PROVE  \E k \in 0 .. Len(list) :
           /\ WeightPrefix(list, budget) = SubSeq(list, 1, k)
           /\ TotalWeight(SubSeq(list, 1, k)) <= budget
           /\ list # <<>> /\ WeightOf(list[1]) <= budget => k >= 1
           /\ TotalWeight(list) <= budget => k = Len(list)
<1> DEFINE n == Len(list)
           fits == {k \in 0 .. n : TotalWeight(SubSeq(list, 1, k)) <= budget}
           good == {k \in fits : 0 .. k \subseteq fits}
<1>1. PICK acc : RunningSum(acc, list) /\ TotalWeight(list) = acc[n] BY RunningWeight
<1>2. n \in Nat /\ \A k \in 1 .. n : list[k] \in Item OBVIOUS
<1>3. \A k \in 0 .. n : TotalWeight(SubSeq(list, 1, k)) = acc[k] BY <1>1, WeightOfPrefix
<1>4. fits = {k \in 0 .. n : acc[k] <= budget} BY <1>3
<1>5. acc[0] = 0 /\ \A k \in 0 .. n : acc[k] \in Nat BY <1>1 DEF RunningSum
<1>6. 0 \in fits BY <1>2, <1>4, <1>5
<1> HIDE DEF fits
<1>7. 0 \in good
  <2>1. 0 .. 0 = {0} OBVIOUS
  <2> QED BY <1>6, <2>1
<1>8. good \in SUBSET Nat /\ \A k \in good : k <= n /\ k \in fits BY <1>2, <1>4
<1> HIDE DEF good
<1>9. Max(good) \in good /\ \A k \in good : k <= Max(good) BY <1>2, <1>7, <1>8, GreatestOf
<1> DEFINE m == Max(good)
<1>10. m \in 0 .. n /\ acc[m] <= budget BY <1>4, <1>8, <1>9
<1>11. WeightPrefix(list, budget) = SubSeq(list, 1, m) BY DEF WeightPrefix, fits, good
<1>12. ASSUME list # <<>>, WeightOf(list[1]) <= budget PROVE m >= 1
  <2>1. 1 \in 1 .. n /\ 1 \in 0 .. n BY <1>12, <1>2
  <2>2. acc[1] = acc[0] + WeightOf(list[1])
    <3>1. 1 - 1 = 0 OBVIOUS
    <3> QED BY <1>1, <2>1, <3>1 DEF RunningSum
  <2>3. WeightOf(list[1]) \in Nat BY <1>2, <2>1, WeightOfType DEF WeightType
  <2>4. 1 \in fits BY <1>4, <1>5, <1>12, <2>1, <2>2, <2>3
  <2>5. 0 .. 1 = {0, 1} OBVIOUS
  <2>6. 1 \in good BY <1>6, <2>4, <2>5 DEF good
  <2> QED BY <2>6, <1>9, <1>10
<1>13. ASSUME TotalWeight(list) <= budget PROVE m = n
  <2> DEFINE S == {k \in Nat : k <= n => acc[n - k] <= budget}
  <2>1. 0 \in S BY <1>1, <1>2, <1>13
  <2>2. ASSUME NEW k \in Nat, k \in S PROVE k + 1 \in S
    <3>1. SUFFICES ASSUME k + 1 <= n PROVE acc[n - (k + 1)] <= budget OBVIOUS
    <3>2. n - k \in 1 .. n /\ (n - k) - 1 = n - (k + 1) /\ acc[n - k] <= budget
      BY <1>2, <2>2, <3>1
    <3>3. acc[n - k] = acc[n - (k + 1)] + WeightOf(list[n - k])
      BY <1>1, <3>2 DEF RunningSum
    <3>4. acc[n - k] \in Nat /\ acc[n - (k + 1)] \in Nat /\ WeightOf(list[n - k]) \in Nat
      <4>1. n - k \in 0 .. n /\ n - (k + 1) \in 0 .. n BY <1>2, <3>1
      <4> QED BY <4>1, <1>2, <1>5, <3>2, WeightOfType DEF WeightType
    <3> QED BY <3>2, <3>3, <3>4
  <2>3. \A k \in Nat : k \in S
    <3> HIDE DEF S
    <3> QED BY <2>1, <2>2, SetInduction
  <2>4. \A k \in 0 .. n : acc[k] <= budget
    <3>1. SUFFICES ASSUME NEW k \in 0 .. n PROVE acc[k] <= budget OBVIOUS
    <3>2. n - k \in Nat /\ n - k <= n /\ n - (n - k) = k BY <1>2
    <3>3. n - k \in S BY <2>3, <3>2
    <3> QED BY <3>2, <3>3
  <2>5. fits = 0 .. n /\ n \in 0 .. n BY <1>2, <1>4, <2>4
  <2>6. n \in good BY <2>5 DEF good
  <2> QED BY <2>6, <1>9, <1>10, <1>2
<1> HIDE DEF m
<1>14. TotalWeight(SubSeq(list, 1, m)) <= budget BY <1>3, <1>10
<1> QED BY <1>10, <1>11, <1>12, <1>13, <1>14 DEF n, m

\* The share of a block: within the block's limit, enough for the first item,
\* and in the last block as much as there is.
LEMMA BalancedBudgetFacts ==
  ASSUME WeightType, Budget >= 1, NEW list \in Seq(Item), NEW left \in Nat \ {0}
  PROVE  /\ BalancedWeightBudget(list, left) \in 0 .. Budget
         /\ list # <<>> => WeightOf(list[1]) <= BalancedWeightBudget(list, left)
         /\ left = 1 => \/ BalancedWeightBudget(list, left) = Budget
                        \/ TotalWeight(list) <= BalancedWeightBudget(list, left)
<1>1. CASE list = <<>>
  <2>1. BalancedWeightBudget(list, left) = 0 BY <1>1 DEF BalancedWeightBudget
  <2>2. TotalWeight(list) = 0 BY <1>1, WeightEmpty
  <2> QED BY <1>1, <2>1, <2>2 DEF WeightType
<1>2. CASE list # <<>>
  <2> DEFINE w == WeightOf(list[1])
             total == TotalWeight(list)
             share == CeilDiv(total, left)
  <2>1. w \in 1 .. Budget
    <3>1. list[1] \in Item BY <1>2
    <3> QED BY <3>1, WeightOfType DEF WeightType
  <2>2. total \in Nat BY WeightNat
  <2> HIDE DEF w, total
  <2>3. share \in Int /\ (left = 1 => share = total)
    <3>1. (total + left - 1) \div left \in Int BY <2>2
    <3>2. left = 1 => (total + left - 1) \div left = total BY <2>2
    <3> QED BY <3>1, <3>2 DEF CeilDiv
  <2> HIDE DEF share
  <2>4. BalancedWeightBudget(list, left) = MinOf(MaxOf(share, w), Budget)
    BY <1>2 DEF BalancedWeightBudget, share, w, total
  <2>5. /\ MinOf(MaxOf(share, w), Budget) \in 0 .. Budget
        /\ w <= MinOf(MaxOf(share, w), Budget)
        /\ MinOf(MaxOf(share, w), Budget) = Budget \/ share <= MinOf(MaxOf(share, w), Budget)
    BY <2>1, <2>3 DEF MinOf, MaxOf, WeightType
  <2> QED BY <2>3, <2>4, <2>5 DEF w, total
<1> QED BY <1>1, <1>2

(***************************************************************************)
(* The inductive invariant.                                                *)
(***************************************************************************)
\* The types: new transactions are numbered as they are injected, one block
\* per index, and one more for every lost answer.
BlockTypes ==
  /\ ReplacementConstants /\ ParentsType /\ WeightType
  /\ mempool \subseteq Tx /\ wallet \subseteq 1 .. Originals /\ pct \in 0 .. 100
  /\ excluded \subseteq Tx
  /\ Cardinality(injected) \in 0 .. Adds
  /\ injected = Originals + 1 .. Originals + Cardinality(injected)
  /\ chain \in Seq(Seq(Item)) /\ items \in Seq(Item)
  /\ replacements \in Seq(1 .. Orphaned) /\ pending \in Seq(1 .. Orphaned)
  /\ index \in 0 .. ReorgDepth + 1 /\ failures \in 0 .. MaxFailures
  /\ Len(chain) \in index .. index + failures
  /\ pc \in {"plan", "inject", "select", "mine", "ladder", "succeeded", "failed"}

\* Nothing is mined before the plan is made and the fresh ones are there.
Beginning ==
  pc \in {"plan", "inject"} =>
    /\ mempool \subseteq 1 .. Originals + Cardinality(injected)
    /\ chain = <<>> /\ index = 0

\* A conflict in a block was taken from the pending ones; an excluded original
\* is in none.
ItemOK(i) ==
  IF i.raw THEN i.id \in Range(replacements) /\ i.id \notin Range(pending)
  ELSE i.id \notin excluded

\* The conflicts still to be mined are distinct and of the plan, and their
\* originals are out of the mempool's list; a raw transaction anywhere is one
\* of the plan.
PlanKept ==
  /\ \A i, j \in 1 .. Len(pending) : i # j => pending[i] # pending[j]
  /\ Range(pending) \subseteq Range(replacements)
  /\ Range(replacements) \subseteq excluded
  /\ \A i \in OnChain : ItemOK(i)
  /\ \A i \in Range(items) : ItemOK(i)

\* The mempool is closed under unconfirmed parents.
ClosedPool == \A t \in mempool : \A p \in parents[t] : p \in mempool \/ Mempool(p) \in OnChain

\* Every conflict is pending, mined, or in the block being mined.
NoneLost ==
  \A t \in Range(replacements) :
    t \in Range(pending) \/ Raw(t) \in OnChain \/ Raw(t) \in Range(items)

\* The conflicts of the block that is being made.
RawItems == {i \in Range(items) : i.raw}

\* The last block has everything, or there is something that does not fit.
LastSelected ==
  \/ \A t \in seen \ excluded : Mempool(t) \in Range(items)
  \/ \E t \in seen \ excluded : /\ Mempool(t) \notin Range(items)
                                /\ TotalWeight(items) + weight[t] > Budget
\* The last block has no room for some transaction that is left.
Full == \E t \in mempool \ excluded : TotalWeight(Last(chain)) + weight[t] > Budget

\* The block that is being made: it fits; until it is handed over no conflict
\* of it is mined and it is one generateblock takes, with at least one
\* transaction of those that were seen; after a refusal or a lost answer its
\* conflicts are all mined, or none is and they are not the whole block.
Block ==
  /\ pc \in {"mine", "ladder"} => TotalWeight(items) <= Budget /\ index <= ReorgDepth
  /\ pc \notin {"mine", "ladder"} => items = <<>>
  /\ pc = "mine" => /\ RawItems \cap OnChain = {} /\ mempool \subseteq seen
                    /\ PackedIsMinable /\ EveryBlockMakesProgress
                    /\ index = ReorgDepth => LastSelected
  /\ pc = "ladder" => \/ RawItems \subseteq OnChain
                      \/ RawItems \cap OnChain = {} /\ RawItems # Range(items)

\* Why a leftover means that the last block is full: without a fault the last
\* selection is from the mempool as it is, and is mined as it is.
LastFull ==
  /\ pc = "mine" /\ failures = 0 => seen = mempool
  /\ pc = "ladder" /\ failures = 0 => Entangled
  /\ pc \in {"succeeded", "failed"} => index = ReorgDepth + 1
  /\ index = ReorgDepth + 1 /\ failures = 0 /\ mempool \ excluded # {} /\ ~Entangled => Full

\* The inductive invariant.
BlocksInv ==
  BlockTypes /\ Beginning /\ PlanKept /\ ClosedPool /\ NoneLost /\ Block /\ LastFull

\* The elements of a sequence.
LEMMA RangeOf ==
  ASSUME NEW D, NEW s \in Seq(D)
  PROVE  Range(s) \subseteq D /\ Range(s) = {s[k] : k \in 1 .. Len(s)}
BY DEF Range

\* The inductive invariant implies both properties of the run.
LEMMA BlocksInvImplies ==
  ASSUME BlocksInv
  PROVE  ReplacementInvariant /\ EveryBlockMakesProgress
<1> USE DEF BlocksInv
<1>1. BlocksTypeOK
  <2>1. injected \subseteq Tx \ (1 .. Originals)
    <3>1. Originals \in Nat /\ Adds \in Nat BY DEF BlockTypes, ParentsType, TxType
    <3>2. /\ Cardinality(injected) \in 0 .. Adds
          /\ injected = Originals + 1 .. Originals + Cardinality(injected)
      BY DEF BlockTypes
    <3> QED BY <3>1, <3>2 DEF Tx
  <2>2. Range(replacements) \subseteq 1 .. Orphaned
    <3>1. replacements \in Seq(1 .. Orphaned) BY DEF BlockTypes
    <3> QED BY <3>1, RangeOf
  <2>3. Range(pending) \subseteq Range(replacements) BY DEF PlanKept
  <2>4. Len(chain) \in index .. index + failures + 1 BY DEF BlockTypes, ReplacementConstants
  <2> QED BY <2>1, <2>2, <2>3, <2>4 DEF BlockTypes, BlocksTypeOK
<1>2. PackedIsMinable BY DEF Block, PackedIsMinable
<1>3. EveryBlockMakesProgress BY DEF Block, EveryBlockMakesProgress
<1>4. LeftoverMeansFull BY DEF LastFull, LeftoverMeansFull, Full
<1>5. ConflictsLand
  <2>1. SUFFICES ASSUME pc \in {"select", "succeeded", "failed"}, NEW k \in DOMAIN replacements,
                        replacements[k] \notin Range(pending)
                 PROVE  Raw(replacements[k]) \in OnChain
    BY DEF ConflictsLand
  <2>2. items = <<>> BY <2>1 DEF Block
  <2>3. Range(items) = {} BY <2>2 DEF Range
  <2>4. replacements[k] \in Range(replacements) BY DEF Range
  <2> QED BY <2>1, <2>3, <2>4 DEF NoneLost
<1> QED BY <1>1, <1>2, <1>3, <1>4, <1>5 DEF ReplacementInvariant

\* The initial states satisfy it.
LEMMA BlocksInvInit ==
  ASSUME ReplacementConstants, BlocksInit
  PROVE  BlocksInv
<1> USE DEF BlocksInit
<1>0. /\ Originals \in Nat \ {0} /\ ReorgDepth \in Nat \ {0} /\ Budget \in Nat \ {0}
      /\ Orphaned \in Nat /\ Adds \in Nat /\ MaxFailures \in Nat /\ Orphaned <= Originals
      /\ Weights \subseteq 1 .. Budget /\ Pcts \subseteq 0 .. 100
  BY DEF ReplacementConstants
<1>1. Tx \in SUBSET Nat /\ 1 .. Originals \subseteq Tx BY <1>0 DEF Tx
<1>2. ParentsType
  <2>1. parents \in [Tx -> SUBSET Tx]
    <3>1. \A p \in 1 .. Originals - 1 : {p} \in SUBSET Tx BY <1>0 DEF Tx
    <3> QED BY <3>1
  <2>2. \A t \in Tx : parents[t] \subseteq 1 .. t - 1
    <3>1. SUFFICES ASSUME NEW t \in Tx, NEW p \in parents[t] PROVE p \in 1 .. t - 1 OBVIOUS
    <3>2. t \in 1 .. Originals BY <3>1
    <3>3. p \in Nat /\ p >= 1
      <4>1. p \in Tx BY <2>1
      <4> QED BY <4>1, <1>0 DEF Tx
    <3>4. p < t BY <3>2
    <3> QED BY <3>2, <3>3, <3>4
  <2> QED BY <1>0, <2>1, <2>2 DEF ParentsType, TxType
<1>3. WeightType
  <2>1. 1 \in 1 .. Budget BY <1>0
  <2> QED BY <1>0, <2>1 DEF WeightType
<1>4. Cardinality(injected) = 0 /\ Originals + 1 .. Originals + 0 = {} BY <1>0, FS_EmptySet
<1>5. BlockTypes
  <2>1. injected = Originals + 1 .. Originals + Cardinality(injected) BY <1>4
  <2> QED BY <1>0, <1>1, <1>2, <1>3, <1>4, <2>1 DEF BlockTypes
<1>6. Range(<<>>) = {} /\ OnChain = {} BY DEF Range, OnChain
<1>7. Beginning BY <1>0, <1>4 DEF Beginning
<1>8. PlanKept BY <1>6 DEF PlanKept
<1>9. ClosedPool
  <2>1. SUFFICES ASSUME NEW t \in 1 .. Originals, NEW p \in parents[t] PROVE p \in 1 .. Originals
    BY DEF ClosedPool
  <2>2. t \in Tx BY <1>1
  <2>3. p \in 1 .. t - 1 BY <1>2, <2>2 DEF ParentsType
  <2> QED BY <1>0, <2>3
<1>10. NoneLost BY <1>6 DEF NoneLost
<1>11. Block BY DEF Block
<1>12. LastFull BY <1>0 DEF LastFull
<1> QED BY <1>5, <1>7, <1>8, <1>9, <1>10, <1>11, <1>12 DEF BlocksInv

\* What a transaction takes with it is closed under children.
LEMMA DescendantsClosed ==
  ASSUME ParentsType, NEW S
  PROVE  /\ WithDescendants(S) \subseteq Tx
         /\ S \cap Tx \subseteq WithDescendants(S)
         /\ \A t \in Tx : \A p \in parents[t] :
              p \in WithDescendants(S) => t \in WithDescendants(S)
<1>1. ASSUME NEW t \in Tx, NEW p \in parents[t], p \in WithDescendants(S)
      PROVE  t \in WithDescendants(S)
  <2>1. p \in S \/ Ancestors[p] \cap S # {} BY <1>1 DEF WithDescendants
  <2>2. p \in Ancestors[t] /\ Ancestors[p] \subseteq Ancestors[t] BY AncestorsEquation
  <2>3. Ancestors[t] \cap S # {} BY <2>1, <2>2
  <2> QED BY <2>3 DEF WithDescendants
<1> QED BY <1>1 DEF WithDescendants

\* An item is a raw transaction or one of the mempool.
LEMMA ItemIs ==
  ASSUME NEW i \in Item
  PROVE  i.id \in Tx /\ i.raw \in BOOLEAN /\ (i.raw => i = Raw(i.id)) /\ (~i.raw => i = Mempool(i.id))
BY DEF Item, Raw, Mempool

\* A block on the chain.
LEMMA ChainGrows ==
  ASSUME chain \in Seq(Seq(Item)), NEW list \in Seq(Item), chain' = Append(chain, list)
  PROVE  /\ chain' \in Seq(Seq(Item)) /\ Len(chain') = Len(chain) + 1
         /\ Last(chain') = list /\ OnChain' = OnChain \cup Range(list)
<1> DEFINE n == Len(chain)
<1>1. /\ chain' \in Seq(Seq(Item)) /\ Len(chain') = n + 1 /\ chain'[n + 1] = list
      /\ n \in Nat /\ \A i \in 1 .. n : chain'[i] = chain[i]
      /\ DOMAIN chain = 1 .. n /\ DOMAIN chain' = 1 .. n + 1
  OBVIOUS
<1>2. Last(chain') = list BY <1>1 DEF Last
<1>3. OnChain' = UNION {Range(chain'[i]) : i \in 1 .. n + 1} BY <1>1 DEF OnChain
<1>4. OnChain = UNION {Range(chain[i]) : i \in 1 .. n} BY <1>1 DEF OnChain
<1>5. \A i \in 1 .. n + 1 : i \in 1 .. n \/ i = n + 1 BY <1>1
<1>6. \A i \in 1 .. n : i \in 1 .. n + 1 BY <1>1
<1>7. n + 1 \in 1 .. n + 1 BY <1>1
<1> HIDE DEF n
<1>8. OnChain' \subseteq OnChain \cup Range(list) BY <1>1, <1>3, <1>4, <1>5
<1>9. OnChain \cup Range(list) \subseteq OnChain' BY <1>1, <1>3, <1>4, <1>6, <1>7
<1> QED BY <1>1, <1>2, <1>8, <1>9 DEF n

\* What is connected leaves a closed mempool.
LEMMA ConnectFacts ==
  ASSUME BlockTypes, ClosedPool, NEW list \in Seq(Item), Connect(list), UNCHANGED parents
  PROVE  /\ chain' \in Seq(Seq(Item)) /\ Len(chain') = Len(chain) + 1 /\ Last(chain') = list
         /\ OnChain' = OnChain \cup Range(list)
         /\ mempool' \subseteq mempool /\ ClosedPool'
<1>1. chain' = Append(chain, list) BY DEF Connect
<1>2. /\ chain' \in Seq(Seq(Item)) /\ Len(chain') = Len(chain) + 1 /\ Last(chain') = list
      /\ OnChain' = OnChain \cup Range(list)
  BY <1>1, ChainGrows DEF BlockTypes
<1> DEFINE pool == {item.id : item \in {i \in Range(list) : ~i.raw}}
           raws == {item.id : item \in {i \in Range(list) : i.raw}}
<1>3. mempool' = mempool \ (pool \cup WithDescendants(raws)) BY DEF Connect
<1>4. \A p \in pool : Mempool(p) \in Range(list)
  <2>1. \A i \in Range(list) : i \in Item BY DEF Range
  <2> QED BY <2>1, ItemIs
<1> HIDE DEF pool, raws
<1>5. ClosedPool'
  <2>1. SUFFICES ASSUME NEW t \in mempool', NEW p \in parents[t]
                 PROVE  p \in mempool' \/ Mempool(p) \in OnChain'
    BY DEF ClosedPool
  <2>2. t \in mempool /\ t \in Tx /\ t \notin WithDescendants(raws) BY <1>3 DEF BlockTypes
  <2>3. p \notin WithDescendants(raws) BY <2>1, <2>2, DescendantsClosed DEF BlockTypes
  <2>4. p \in mempool \/ Mempool(p) \in OnChain BY <2>1, <2>2 DEF ClosedPool
  <2> QED BY <1>2, <1>3, <1>4, <2>3, <2>4
<1> QED BY <1>2, <1>3, <1>5

(***************************************************************************)
(* The steps up to the selection of a block.                               *)
(***************************************************************************)
\* Weights depend on the transactions only.
LEMMA WeightUnchanged ==
  ASSUME UNCHANGED weight
  PROVE  \A list : TotalWeight(list)' = TotalWeight(list)
BY DEF TotalWeight, WeightOf, FoldLeft, MapThenFoldSet

\* Ancestors depend on the spending relation only.
LEMMA AncestorsUnchanged ==
  ASSUME UNCHANGED parents
  PROVE  Ancestors' = Ancestors
BY DEF Ancestors

\* What is mined depends on the chain only.
LEMMA OnChainUnchanged ==
  ASSUME UNCHANGED chain
  PROVE  OnChain' = OnChain
BY DEF OnChain

\* Entanglement depends on the spending relation and the exclusions only.
LEMMA EntangledUnchanged ==
  ASSUME UNCHANGED <<parents, excluded>>
  PROVE  Entangled' = Entangled
BY AncestorsUnchanged DEF Entangled

\* A sequence over a set is one over a larger set.
LEMMA SeqWider ==
  ASSUME NEW A, NEW B, A \subseteq B, NEW s \in Seq(A)
  PROVE  s \in Seq(B)
<1>1. s \in [1 .. Len(s) -> B] /\ Len(s) \in Nat OBVIOUS
<1> QED BY <1>1

\* What an action that leaves the plan and the blocks alone keeps.
LEMMA PlanUnchanged ==
  ASSUME PlanKept, NoneLost, UNCHANGED <<chain, replacements, excluded, pending, items>>
  PROVE  PlanKept' /\ NoneLost'
BY OnChainUnchanged DEF PlanKept, NoneLost, ItemOK

\* The transactions keep their types when they do not change.
LEMMA TypesUnchanged ==
  ASSUME ParentsType, WeightType, UNCHANGED <<parents, weight>>
  PROVE  ParentsType' /\ WeightType'
BY DEF ParentsType, WeightType, TxType

\* select_double_spend_count is a number.
LEMMA SelectedCountType ==
  ASSUME NEW e \in Nat, NEW p \in 0 .. 100
  PROVE  SelectedCount(e, p) \in Nat
<1>1. MinOf(p, 100) = p BY DEF MinOf
<1>2. e * p \in Nat OBVIOUS
<1>3. (e * p) \div 100 \in Int
  <2> DEFINE x == e * p
  <2>1. x \in Nat BY <1>2
  <2> HIDE DEF x
  <2>2. x \div 100 \in Int BY <2>1
  <2> QED BY <2>2 DEF x
<1> DEFINE y == (e * p) \div 100
<1>4. SelectedCount(e, p) = IF e = 0 \/ p = 0 THEN 0 ELSE MaxOf(y, 1)
  BY <1>1 DEF SelectedCount
<1> HIDE DEF y
<1>5. y \in Int BY <1>3 DEF y
<1> QED BY <1>4, <1>5 DEF MaxOf

\* The first n of a set, in order.
LEMMA FirstOfFacts ==
  ASSUME NEW m \in Nat, NEW S \in SUBSET (1 .. m), NEW n \in Nat
  PROVE  /\ FirstOf(S, n) \in Seq(S)
         /\ \A i, j \in 1 .. Len(FirstOf(S, n)) : i # j => FirstOf(S, n)[i] # FirstOf(S, n)[j]
<1> DEFINE s == Ascending(S)
           k == MinOf(n, Cardinality(S))
<1>1. IsFiniteSet(S) /\ Cardinality(S) \in Nat
  <2>0. m \in Int /\ 1 \in Int OBVIOUS
  <2>1. IsFiniteSet(1 .. m) BY <2>0, FS_Interval
  <2>2. IsFiniteSet(S) BY <2>1, FS_Subset
  <2> QED BY <2>2, FS_CardinalityType
<1>2. S \in SUBSET Nat OBVIOUS
<1>3. Lists(s, S, Less(S)) BY <1>1, <1>2, AscendingLists
<1>4. k \in 0 .. Cardinality(S) BY <1>1 DEF MinOf
<1>5. FirstOf(S, n) = SubSeq(s, 1, k) BY DEF FirstOf
<1> HIDE DEF s, k
<1>6. s \in Seq(S) /\ Len(s) = Cardinality(S) BY <1>3 DEF Lists
<1>7. /\ SubSeq(s, 1, k) \in Seq(S) /\ Len(SubSeq(s, 1, k)) = k
      /\ \A i \in 1 .. k : SubSeq(s, 1, k)[i] = s[i]
  BY <1>4, <1>6
<1>8. ASSUME NEW i \in 1 .. k, NEW j \in 1 .. k, i # j PROVE s[i] # s[j]
  <2>1. i \in 1 .. Len(s) /\ j \in 1 .. Len(s) /\ (i < j \/ j < i) BY <1>4, <1>6, <1>8, <1>1
  <2>2. <<s[i], s[j]>> \in Less(S) \/ <<s[j], s[i]>> \in Less(S) BY <1>3, <2>1 DEF Lists
  <2>3. s[i] \in S /\ s[j] \in S
    <3> HIDE DEF k
    <3> QED BY <1>6, <2>1
  <2>4. s[i] \in Nat /\ s[j] \in Nat BY <1>2, <2>3
  <2> QED BY <2>2, <2>3, <2>4 DEF Less
<1> QED BY <1>5, <1>7, <1>8

\* Choosing the transactions to replace keeps the invariant.
LEMMA BuildPlanKeeps ==
  ASSUME BlocksInv, BuildPlan
  PROVE  BlocksInv'
<1> USE DEF BlocksInv
<1>1. PICK signable \in {Eligible} \cup {Eligible \ {t} : t \in Eligible}, read \in BOOLEAN :
         /\ failures' = failures + (IF signable = Eligible THEN 0 ELSE 1) + (IF read THEN 0 ELSE 1)
         /\ failures' <= MaxFailures
         /\ replacements' = FirstOf(signable, SelectedCount(Cardinality(Eligible), pct))
         /\ excluded' = (IF read THEN WithDescendants(Range(replacements')) \cap mempool
                                 ELSE Range(replacements'))
         /\ pending' = replacements'
  BY DEF BuildPlan
<1>2. /\ pc = "plan" /\ pc' = "inject"
      /\ UNCHANGED <<parents, weight, wallet, pct, mempool, chain, injected, index, items, seen>>
  BY DEF BuildPlan, given
<1>3. /\ Originals \in Nat \ {0} /\ ReorgDepth \in Nat \ {0} /\ Budget \in Nat \ {0}
      /\ Orphaned \in Nat /\ Adds \in Nat /\ MaxFailures \in Nat /\ Orphaned <= Originals
  BY DEF BlockTypes, ReplacementConstants
<1>4. signable \in SUBSET (1 .. Orphaned) /\ signable \subseteq mempool
  <2>1. Eligible \in SUBSET (1 .. Orphaned) /\ Eligible \subseteq mempool BY DEF Eligible
  <2> QED BY <2>1
<1>5. SelectedCount(Cardinality(Eligible), pct) \in Nat
  <2>0. Orphaned \in Int /\ 1 \in Int BY <1>3
  <2>1. IsFiniteSet(1 .. Orphaned) BY <2>0, FS_Interval
  <2>2. Eligible \in SUBSET (1 .. Orphaned) BY DEF Eligible
  <2>3. Cardinality(Eligible) \in Nat BY <2>1, <2>2, FS_Subset, FS_CardinalityType
  <2>4. pct \in 0 .. 100 BY DEF BlockTypes
  <2> QED BY <2>3, <2>4, SelectedCountType
<1>6. /\ replacements' \in Seq(signable)
      /\ \A i, j \in 1 .. Len(replacements') : i # j => replacements'[i] # replacements'[j]
  <2> DEFINE c == SelectedCount(Cardinality(Eligible), pct)
  <2>1. c \in Nat BY <1>5
  <2>2. replacements' = FirstOf(signable, c) BY <1>1
  <2> HIDE DEF c
  <2>3. /\ FirstOf(signable, c) \in Seq(signable)
        /\ \A i, j \in 1 .. Len(FirstOf(signable, c)) :
             i # j => FirstOf(signable, c)[i] # FirstOf(signable, c)[j]
    BY <1>3, <1>4, <2>1, FirstOfFacts
  <2> QED BY <2>2, <2>3
<1>7. Range(replacements') \subseteq signable BY <1>6, RangeOf
<1>8. replacements' \in Seq(1 .. Orphaned)
  <2>1. \A A, B, s : A \subseteq B /\ s \in Seq(A) => s \in Seq(B) BY SeqWider
  <2> QED BY <1>4, <1>6, <2>1
<1>9. Range(replacements') \subseteq excluded' /\ excluded' \subseteq Tx
  <2>1. Range(replacements') \subseteq mempool /\ mempool \subseteq Tx BY <1>4, <1>7 DEF BlockTypes
  <2>2. Range(replacements') \subseteq WithDescendants(Range(replacements'))
    <3> DEFINE R == Range(replacements')
    <3>1. R \subseteq Tx BY <2>1
    <3> HIDE DEF R
    <3>2. R \cap Tx \subseteq WithDescendants(R) BY DescendantsClosed DEF BlockTypes
    <3> QED BY <3>1, <3>2 DEF R
  <2> QED BY <1>1, <2>1, <2>2
<1>10. failures' \in 0 .. MaxFailures /\ failures' >= failures /\ failures \in Nat
  <2>1. failures \in 0 .. MaxFailures BY DEF BlockTypes
  <2> QED BY <1>1, <1>3, <2>1
<1>11. Beginning' BY <1>2 DEF Beginning
<1>12. BlockTypes'
  <2>1. ParentsType' /\ WeightType' BY <1>2, TypesUnchanged DEF BlockTypes
  <2>2. Len(chain') \in index' .. index' + failures'
    <3>1. index \in Nat /\ Len(chain) \in index .. index + failures BY <1>3 DEF BlockTypes
    <3> QED BY <1>2, <1>10, <3>1
  <2> QED BY <2>1, <2>2, <1>1, <1>2, <1>8, <1>9, <1>10 DEF BlockTypes, ReplacementConstants
<1>13. OnChain' = {} /\ OnChain = {}
  <2>1. chain = <<>> BY <1>2 DEF Beginning
  <2> QED BY <2>1, <1>2 DEF OnChain
<1>14. items' = <<>> /\ Range(items') = {}
  <2>1. items = <<>> BY <1>2 DEF Block
  <2> QED BY <2>1, <1>2 DEF Range
<1>15. PlanKept' BY <1>1, <1>6, <1>9, <1>13, <1>14 DEF PlanKept
<1>16. ClosedPool' BY <1>2, OnChainUnchanged DEF ClosedPool
<1>17. NoneLost' BY <1>1 DEF NoneLost
<1>18. Block' BY <1>2, <1>14 DEF Block
<1>19. LastFull' BY <1>2, <1>3 DEF LastFull, Beginning
<1> QED BY <1>11, <1>12, <1>15, <1>16, <1>17, <1>18, <1>19

\* So does a new transaction of the job,
LEMMA InjectTransactionKeeps ==
  ASSUME BlocksInv, InjectTransaction
  PROVE  BlocksInv'
<1> USE DEF BlocksInv
<1> DEFINE m == Cardinality(injected)
           t == Originals + m + 1
<1>1. /\ pc = "inject" /\ pc' = pc /\ m < Adds
      /\ UNCHANGED <<weight, wallet, pct, chain, replacements, excluded, pending, index,
                     items, seen, pc, failures>>
  BY DEF InjectTransaction
<1>2. PICK ps \in {{}} \cup {{p} : p \in mempool \cap (wallet \cup injected)} :
             /\ parents' = [parents EXCEPT ![t] = ps]
             /\ injected' = injected \cup {t}
             /\ mempool' = mempool \cup {t}
  BY DEF InjectTransaction
<1>3. /\ Originals \in Nat \ {0} /\ ReorgDepth \in Nat \ {0} /\ Budget \in Nat \ {0}
      /\ Adds \in Nat /\ m \in Nat /\ m \in 0 .. Adds /\ injected = Originals + 1 .. Originals + m
  BY DEF BlockTypes, ReplacementConstants
<1>4. mempool \subseteq 1 .. Originals + m /\ chain = <<>> /\ index = 0 BY <1>1 DEF Beginning
<1>5. Cardinality(injected') = m + 1
  <2>1. IsFiniteSet(injected) BY <1>3, FS_Interval
  <2>2. t \notin injected BY <1>3
  <2> HIDE DEF t
  <2> QED BY <1>2, <2>1, <2>2, FS_AddElement
<1>6. injected' = Originals + 1 .. Originals + (m + 1) BY <1>2, <1>3
<1>7. t \in Tx BY <1>1, <1>3 DEF Tx
<1>8. ps \subseteq mempool BY <1>2
<1>9. \A p \in ps : p \in Tx /\ p \in 1 .. t - 1
  <2>1. \A p \in ps : p \in 1 .. Originals + m BY <1>4, <1>8
  <2> QED BY <2>1, <1>1, <1>3 DEF Tx
<1>10. mempool' \subseteq 1 .. Originals + (m + 1) /\ mempool' \subseteq Tx
  <2>1. mempool \subseteq Tx BY DEF BlockTypes
  <2>2. \A x \in 1 .. Originals + m : x \in 1 .. Originals + (m + 1) BY <1>3
  <2>3. t \in 1 .. Originals + (m + 1) BY <1>3
  <2> HIDE DEF t
  <2> QED BY <1>2, <1>4, <1>7, <2>1, <2>2, <2>3
<1> HIDE DEF t, m
<1>11. ParentsType'
  <2>1. parents \in [Tx -> SUBSET Tx] /\ \A x \in Tx : parents[x] \subseteq 1 .. x - 1
    BY DEF BlockTypes, ParentsType
  <2>2. parents' \in [Tx -> SUBSET Tx] BY <1>2, <1>7, <1>9, <2>1
  <2>3. \A x \in Tx : parents'[x] \subseteq 1 .. x - 1 BY <1>2, <1>7, <1>9, <2>1
  <2> QED BY <2>2, <2>3 DEF BlockTypes, ParentsType, TxType
<1>12. BlockTypes'
  <2>1. WeightType' BY <1>1 DEF BlockTypes, WeightType
  <2>2. Cardinality(injected') \in 0 .. Adds BY <1>1, <1>3, <1>5
  <2> QED BY <2>1, <2>2, <1>1, <1>5, <1>6, <1>10, <1>11 DEF BlockTypes, ReplacementConstants
<1>13. Beginning' BY <1>1, <1>4, <1>5, <1>10 DEF Beginning
<1>14. PlanKept' /\ NoneLost' BY <1>1, PlanUnchanged
<1>15. ClosedPool'
  <2>1. SUFFICES ASSUME NEW x \in mempool', NEW p \in parents'[x] PROVE p \in mempool'
    BY DEF ClosedPool
  <2>2. OnChain = {} BY <1>4 DEF OnChain
  <2>3. parents \in [Tx -> SUBSET Tx] BY DEF BlockTypes, ParentsType
  <2>4. CASE x = t BY <1>2, <1>7, <1>8, <2>1, <2>3, <2>4
  <2>5. CASE x # t
    <3>1. x \in mempool /\ parents'[x] = parents[x] BY <1>2, <2>3, <2>5
    <3> QED BY <1>2, <2>1, <2>2, <3>1 DEF ClosedPool
  <2> QED BY <2>4, <2>5
<1>16. Block' BY <1>1 DEF Block
<1>17. LastFull' BY <1>1, <1>3, <1>4 DEF LastFull
<1> QED BY <1>12, <1>13, <1>14, <1>15, <1>16, <1>17

\* the end of the injection,
LEMMA EndInjectionKeeps ==
  ASSUME BlocksInv, EndInjection
  PROVE  BlocksInv'
<1> USE DEF BlocksInv
<1>1. /\ pc = "inject" /\ pc' = "select"
      /\ UNCHANGED <<parents, weight, wallet, pct, mempool, chain, replacements, excluded,
                     injected, pending, index, items, seen>>
  BY DEF EndInjection, given
<1>2. /\ Originals \in Nat \ {0} /\ ReorgDepth \in Nat \ {0} /\ Adds \in Nat /\ MaxFailures \in Nat
      /\ failures \in 0 .. MaxFailures /\ index = 0 /\ Len(chain) \in index .. index + failures
  BY <1>1 DEF BlockTypes, ReplacementConstants, Beginning
<1>3. failures' \in 0 .. MaxFailures /\ failures' >= failures BY <1>2 DEF EndInjection
<1>4. BlockTypes'
  <2>1. ParentsType' /\ WeightType' BY <1>1, TypesUnchanged DEF BlockTypes
  <2>2. Len(chain') \in index' .. index' + failures' BY <1>1, <1>2, <1>3
  <2> QED BY <1>1, <1>3, <2>1, <2>2 DEF BlockTypes, ReplacementConstants
<1>5. Beginning' BY <1>1 DEF Beginning
<1>6. PlanKept' /\ NoneLost' BY <1>1, PlanUnchanged
<1>7. ClosedPool' BY <1>1, OnChainUnchanged DEF ClosedPool
<1>8. Block' BY <1>1 DEF Block
<1>9. LastFull' BY <1>1, <1>2 DEF LastFull
<1> QED BY <1>4, <1>5, <1>6, <1>7, <1>8, <1>9

\* the verdict on the new transactions,
LEMMA VerifyKeeps ==
  ASSUME BlocksInv, VerifyNewTransactions
  PROVE  BlocksInv'
<1> USE DEF BlocksInv
<1>1. /\ pc = "select" /\ pc' \in {"succeeded", "failed"} /\ index = ReorgDepth + 1
      /\ UNCHANGED <<parents, weight, wallet, pct, mempool, chain, replacements, excluded,
                     injected, pending, index, items, seen, failures>>
  BY DEF VerifyNewTransactions, given
<1>4. BlockTypes'
  <2>1. ParentsType' /\ WeightType' BY <1>1, TypesUnchanged DEF BlockTypes
  <2> QED BY <1>1, <2>1 DEF BlockTypes, ReplacementConstants
<1>5. Beginning' BY <1>1 DEF Beginning
<1>6. PlanKept' /\ NoneLost' BY <1>1, PlanUnchanged
<1>7. ClosedPool' BY <1>1, OnChainUnchanged DEF ClosedPool
<1>8. Block' BY <1>1 DEF Block
<1>9. LastFull'
  <2>1. Entangled' = Entangled BY <1>1, EntangledUnchanged
  <2>2. Full' = Full BY <1>1, WeightUnchanged DEF Full
  <2> QED BY <1>1, <2>1, <2>2 DEF LastFull
<1> QED BY <1>4, <1>5, <1>6, <1>7, <1>8, <1>9

\* and an eviction while blocks are mined.
LEMMA EvictKeeps ==
  ASSUME BlocksInv, Evict
  PROVE  BlocksInv'
<1> USE DEF BlocksInv
<1>1. /\ pc \in {"select", "mine", "ladder"} /\ failures < MaxFailures /\ failures' = failures + 1
      /\ UNCHANGED <<parents, weight, wallet, pct, chain, replacements, excluded,
                     injected, pending, index, items, seen, pc>>
  BY DEF Evict, given
<1>2. PICK t \in mempool : mempool' = mempool \ WithDescendants({t}) BY DEF Evict
<1>3. /\ MaxFailures \in Nat /\ failures \in 0 .. MaxFailures /\ Len(chain) \in index .. index + failures
      /\ ReorgDepth \in Nat /\ index \in 0 .. ReorgDepth + 1
  BY DEF BlockTypes, ReplacementConstants
<1>4. BlockTypes'
  <2>1. ParentsType' /\ WeightType' BY <1>1, TypesUnchanged DEF BlockTypes
  <2>2. Len(chain') \in index' .. index' + failures' BY <1>1, <1>3
  <2>3. failures' \in 0 .. MaxFailures BY <1>1, <1>3
  <2>4. mempool' \subseteq Tx BY <1>2 DEF BlockTypes
  <2> QED BY <1>1, <2>1, <2>2, <2>3, <2>4 DEF BlockTypes, ReplacementConstants
<1>5. Beginning' BY <1>1 DEF Beginning
<1>6. PlanKept' /\ NoneLost' BY <1>1, PlanUnchanged
<1>7. ClosedPool'
  <2>1. SUFFICES ASSUME NEW x \in mempool', NEW p \in parents[x]
                 PROVE  p \in mempool' \/ Mempool(p) \in OnChain
    BY <1>1, OnChainUnchanged DEF ClosedPool
  <2>2. x \in mempool /\ x \in Tx /\ x \notin WithDescendants({t}) BY <1>2 DEF BlockTypes
  <2>3. p \notin WithDescendants({t}) BY <2>1, <2>2, DescendantsClosed DEF BlockTypes
  <2> QED BY <1>2, <2>1, <2>2, <2>3 DEF ClosedPool
<1>8. Block'
  <2>1. mempool' \subseteq mempool /\ t \in mempool /\ t \notin mempool'
    <3>1. t \in WithDescendants({t})
      <4>1. {t} \cap Tx \subseteq WithDescendants({t}) BY DescendantsClosed DEF BlockTypes
      <4> QED BY <4>1 DEF BlockTypes
    <3> QED BY <1>2, <3>1
  <2>2. pc = "mine" => seen # mempool' /\ mempool' \subseteq seen BY <2>1 DEF Block
  <2>3. pc = "mine" => PackedIsMinable' BY <1>1, <2>2 DEF PackedIsMinable
  <2>4. OnChain' = OnChain /\ RawItems' = RawItems BY <1>1, OnChainUnchanged DEF RawItems
  <2>5. TotalWeight(items)' = TotalWeight(items) BY <1>1, WeightUnchanged
  <2>6. LastSelected' = LastSelected BY <1>1, <2>5 DEF LastSelected
  <2>7. EveryBlockMakesProgress' = EveryBlockMakesProgress BY <1>1 DEF EveryBlockMakesProgress
  <2> QED BY <1>1, <2>2, <2>3, <2>4, <2>5, <2>6, <2>7 DEF Block
<1>9. LastFull' BY <1>1, <1>3 DEF LastFull
<1> QED BY <1>4, <1>5, <1>6, <1>7, <1>8, <1>9

(***************************************************************************)
(* Selecting a block.                                                      *)
(***************************************************************************)
\* What a block is given of the mempool and of the conflicts.
Chosen(list, taken, packed) ==
  /\ taken \in 0 .. Len(pending)
  /\ packed \in Seq(Tx) /\ \A i, j \in 1 .. Len(packed) : i # j => packed[i] # packed[j]
  /\ list = [k \in 1 .. taken |-> Raw(pending[k])] \o [k \in DOMAIN packed |-> Mempool(packed[k])]
  /\ {packed[k] : k \in 1 .. Len(packed)} \subseteq mempool \ excluded
  /\ \A j \in 1 .. Len(packed) : \A p \in parents[packed[j]] \cap (mempool \ excluded) :
       \E i \in 1 .. j - 1 : packed[i] = p
  /\ TotalWeight(list) <= Budget
  /\ mempool \ excluded # {} => list # <<>>
  /\ index = ReorgDepth =>
       \/ {packed[k] : k \in 1 .. Len(packed)} = mempool \ excluded
       \/ \E t \in mempool \ excluded : /\ t \notin {packed[k] : k \in 1 .. Len(packed)}
                                        /\ TotalWeight(list) + weight[t] > Budget

\* What Select chooses: a first part of the pending conflicts, then what was
\* packed of the mempool.
LEMMA SelectChooses ==
  ASSUME BlocksInv, Select
  PROVE  \E taken, packed : /\ Chosen(items', taken, packed)
                            /\ pending' = SubSeq(pending, taken + 1, Len(pending))
<1> USE DEF BlocksInv
<1> DEFINE live == LiveMempoolWeighted
           conflicts == [k \in DOMAIN pending |-> Raw(pending[k])]
           pool == [k \in DOMAIN live |-> Mempool(live[k])]
           budget == BalancedWeightBudget(conflicts \o pool, BlocksLeft)
           chosen == WeightPrefix(conflicts, budget)
           packed == PackPrioritized(live, budget - TotalWeight(chosen))
           rest == [k \in DOMAIN packed |-> Mempool(packed[k])]
<1>1. /\ pc = "select" /\ index < ReorgDepth + 1
      /\ items' = chosen \o rest
      /\ pending' = SubSeq(pending, Len(chosen) + 1, Len(pending))
  BY DEF Select
<1>2. /\ Originals \in Nat \ {0} /\ ReorgDepth \in Nat \ {0} /\ Budget \in Nat \ {0}
      /\ Orphaned \in Nat /\ Adds \in Nat /\ Orphaned <= Originals /\ index \in 0 .. ReorgDepth + 1
      /\ ParentsType /\ WeightType /\ TxType /\ mempool \subseteq Tx /\ pending \in Seq(1 .. Orphaned)
  BY DEF BlockTypes, ReplacementConstants, ParentsType
<1>3. 1 .. Orphaned \subseteq Tx BY <1>2 DEF Tx
<1>4. /\ live \in Seq(Tx) /\ Range(live) = mempool \ excluded
      /\ \A i, j \in 1 .. Len(live) : i # j => live[i] # live[j]
      /\ \A i, j \in 1 .. Len(live) : live[i] \in parents[live[j]] => i < j
  BY <1>2, LiveList
<1> HIDE DEF live
<1>5. /\ conflicts \in Seq(Item) /\ Len(conflicts) = Len(pending)
      /\ \A k \in 1 .. Len(conflicts) : conflicts[k] = Raw(pending[k]) /\ conflicts[k].raw
  <2>1. Len(pending) \in Nat /\ DOMAIN pending = 1 .. Len(pending) BY <1>2
  <2>2. \A k \in 1 .. Len(pending) : pending[k] \in Tx
    <3>1. pending \in Seq(Tx) BY <1>2, <1>3, SeqWider
    <3> QED BY <3>1
  <2>3. conflicts \in [1 .. Len(pending) -> Item] BY <2>1, <2>2 DEF Raw, Item
  <2>4. conflicts \in Seq(Item) /\ Len(conflicts) = Len(pending) BY <2>1, <2>3
  <2>5. \A k \in 1 .. Len(pending) : conflicts[k] = Raw(pending[k]) BY <2>1
  <2>6. \A x : Raw(x).raw BY DEF Raw
  <2> HIDE DEF conflicts
  <2> QED BY <2>4, <2>5, <2>6
<1>6. /\ pool \in Seq(Item) /\ Len(pool) = Len(live)
      /\ TotalWeight(pool) = SetWeight(mempool \ excluded)
  <2>1. Range(live) = {live[k] : k \in 1 .. Len(live)} BY <1>4, RangeOf
  <2> QED BY <1>2, <1>4, <2>1, WeightOfList
<1>7. \A k \in 1 .. Len(live) : pool[k] = Mempool(live[k]) BY <1>4
<1> HIDE DEF conflicts, pool
<1>8. /\ conflicts \o pool \in Seq(Item)
      /\ TotalWeight(conflicts \o pool) = TotalWeight(conflicts) + SetWeight(mempool \ excluded)
  BY <1>2, <1>5, <1>6, WeightConcat
<1>9. BlocksLeft \in Nat \ {0} /\ (index = ReorgDepth => BlocksLeft = 1) BY <1>1, <1>2 DEF BlocksLeft
<1>10. /\ budget \in 0 .. Budget
       /\ conflicts \o pool # <<>> => WeightOf((conflicts \o pool)[1]) <= budget
       /\ index = ReorgDepth => budget = Budget \/ TotalWeight(conflicts \o pool) <= budget
  <2> DEFINE c == conflicts \o pool
             b == BlocksLeft
  <2>1. c \in Seq(Item) /\ b \in Nat \ {0} /\ (index = ReorgDepth => b = 1) /\ Budget >= 1
    BY <1>2, <1>8, <1>9
  <2> HIDE DEF c, b
  <2>2. /\ BalancedWeightBudget(c, b) \in 0 .. Budget
        /\ c # <<>> => WeightOf(c[1]) <= BalancedWeightBudget(c, b)
        /\ b = 1 => \/ BalancedWeightBudget(c, b) = Budget
                    \/ TotalWeight(c) <= BalancedWeightBudget(c, b)
    BY <1>2, <2>1, BalancedBudgetFacts
  <2>3. budget = BalancedWeightBudget(c, b) BY DEF c, b
  <2> HIDE DEF budget
  <2> QED BY <2>1, <2>2, <2>3 DEF c
<1> HIDE DEF budget
<1>11. budget \in Nat BY <1>2, <1>10
<1>12. PICK taken \in 0 .. Len(conflicts) :
         /\ chosen = SubSeq(conflicts, 1, taken)
         /\ TotalWeight(SubSeq(conflicts, 1, taken)) <= budget
         /\ conflicts # <<>> /\ WeightOf(conflicts[1]) <= budget => taken >= 1
         /\ TotalWeight(conflicts) <= budget => taken = Len(conflicts)
  BY <1>2, <1>5, <1>11, WeightPrefixFacts
<1> HIDE DEF chosen
<1>13. /\ chosen \in Seq(Item) /\ Len(chosen) = taken
       /\ chosen = [k \in 1 .. taken |-> Raw(pending[k])]
  <2>1. chosen \in Seq(Item) /\ Len(chosen) = taken BY <1>5, <1>12
  <2>2. chosen = [k \in 1 .. taken |-> conflicts[k]] BY <1>5, <1>12
  <2>3. \A k \in 1 .. taken : conflicts[k] = Raw(pending[k]) BY <1>5, <1>12
  <2> QED BY <2>1, <2>2, <2>3
<1>14. TotalWeight(chosen) = taken /\ taken <= budget /\ taken \in Nat
  <2>1. \A k \in 1 .. Len(chosen) : chosen[k].raw
    <3>1. \A x : Raw(x).raw BY DEF Raw
    <3> QED BY <1>13, <3>1
  <2>2. TotalWeight(chosen) = Len(chosen) BY <1>2, <1>13, <2>1, WeightRaw
  <2>3. Len(conflicts) \in Nat BY <1>5
  <2>4. TotalWeight(chosen) <= budget BY <1>12
  <2> QED BY <1>12, <1>13, <2>2, <2>3, <2>4
<1> DEFINE left == budget - TotalWeight(chosen)
<1>15. left \in Nat /\ left = budget - taken BY <1>11, <1>14
<1>16. Packs(packed, live, left)
  <2> HIDE DEF left
  <2>1. Packs(PackPrioritized(live, left), live, left) BY <1>2, <1>4, <1>15, PackPrioritizedFacts
  <2> QED BY <2>1 DEF left
<1> HIDE DEF packed, left
<1> DEFINE sel == {packed[k] : k \in 1 .. Len(packed)}
<1>17. /\ packed \in Seq(Tx) /\ \A i, j \in 1 .. Len(packed) : i # j => packed[i] # packed[j]
       /\ \A j \in 1 .. Len(packed) : \A p \in parents[packed[j]] \cap (mempool \ excluded) :
            \E i \in 1 .. j - 1 : packed[i] = p
       /\ Selection(live, left, sel)
  BY <1>4, <1>16 DEF Packs
<1>18. rest \in Seq(Item) /\ Len(rest) = Len(packed) /\ TotalWeight(rest) = SetWeight(sel)
  BY <1>2, <1>17, WeightOfList
<1> HIDE DEF sel, rest
<1>19. /\ sel \subseteq mempool \ excluded /\ sel \subseteq Tx /\ SetWeight(sel) <= left
       /\ \/ sel = mempool \ excluded
          \/ \E t \in (mempool \ excluded) \ sel : SetWeight(sel \cup {t}) > left
       /\ live # <<>> /\ weight[live[1]] <= left => sel # {}
  BY <1>2, <1>4, <1>17 DEF Selection, Closed
<1>20. SetWeight(sel) \in Nat BY <1>2, <1>19, SetWeightFacts
<1>21. TotalWeight(chosen \o rest) = taken + SetWeight(sel)
  BY <1>2, <1>13, <1>14, <1>18, WeightConcat
<1>22. TotalWeight(chosen \o rest) <= Budget BY <1>10, <1>2, <1>11, <1>14, <1>15, <1>19, <1>20, <1>21
<1>23. ASSUME mempool \ excluded # {} PROVE chosen \o rest # <<>>
  <2>1. live # <<>>
    <3>1. Range(<<>>) = {} BY DEF Range
    <3> QED BY <1>4, <1>23, <3>1
  <2>2. CASE pending # <<>>
    <3>1. conflicts # <<>> /\ Len(conflicts) > 0
      <4>1. Len(pending) # 0 BY <1>2, <2>2
      <4> QED BY <1>5, <4>1
    <3>2. conflicts \o pool # <<>> /\ (conflicts \o pool)[1] = conflicts[1]
      BY <1>5, <1>6, <3>1
    <3>3. taken >= 1 BY <1>10, <1>12, <3>1, <3>2
    <3>4. Len(chosen \o rest) >= 1 BY <1>13, <1>14, <1>18, <3>3
    <3> QED BY <3>4
  <2>3. CASE pending = <<>>
    <3>1. conflicts = <<>> /\ taken = 0
      <4>1. Len(pending) = 0 BY <2>3
      <4> QED BY <1>5, <1>12, <4>1
    <3>2. Len(live) > 0 /\ Len(live) \in Nat /\ live[1] \in Tx BY <1>4, <2>1
    <3>3. pool[1] = Mempool(live[1]) /\ Len(pool) > 0 BY <1>6, <1>7, <3>2
    <3>4. conflicts \o pool = pool /\ pool # <<>> BY <1>6, <3>1, <3>3
    <3>5. WeightOf(Mempool(live[1])) = weight[live[1]] BY DEF WeightOf, Mempool
    <3>6. weight[live[1]] <= budget BY <1>10, <3>3, <3>4, <3>5
    <3>7. sel # {} BY <1>11, <1>15, <1>19, <2>1, <3>1, <3>6
    <3>8. Len(packed) > 0 BY <1>17, <3>7 DEF sel
    <3>9. Len(chosen \o rest) > 0 BY <1>13, <1>14, <1>17, <1>18, <3>8
    <3> QED BY <3>9
  <2> QED BY <2>2, <2>3
<1>24. ASSUME index = ReorgDepth
       PROVE  \/ sel = mempool \ excluded
              \/ \E t \in mempool \ excluded :
                   t \notin sel /\ TotalWeight(chosen \o rest) + weight[t] > Budget
  <2>1. SUFFICES ASSUME sel # mempool \ excluded
                 PROVE  \E t \in mempool \ excluded :
                          t \notin sel /\ TotalWeight(chosen \o rest) + weight[t] > Budget
    OBVIOUS
  <2>2. PICK t \in (mempool \ excluded) \ sel : SetWeight(sel \cup {t}) > left BY <1>19, <2>1
  <2>3. SetWeight(sel \cup {t}) = weight[t] + SetWeight(sel) /\ weight[t] \in Nat
    <3>1. sel \cup {t} \in SUBSET Tx /\ t \in sel \cup {t} /\ (sel \cup {t}) \ {t} = sel /\ t \in Tx
      BY <1>2, <1>19, <2>2
    <3> QED BY <1>2, <3>1, SetWeightFacts DEF WeightType
  <2>4. CASE budget = Budget
    <3>1. taken + SetWeight(sel) + weight[t] > Budget
      BY <1>2, <1>14, <1>15, <1>20, <2>2, <2>3, <2>4
    <3> QED BY <1>21, <2>2, <3>1
  <2>5. CASE TotalWeight(conflicts \o pool) <= budget
    <3>1. SetWeight(mempool \ excluded) \in Nat /\ TotalWeight(conflicts) \in Nat
      <4>1. mempool \ excluded \in SUBSET Tx BY <1>2
      <4> QED BY <1>2, <1>5, <4>1, SetWeightFacts, WeightNat
    <3>2. taken = Len(conflicts) BY <1>8, <1>11, <1>12, <2>5, <3>1
    <3>3. TotalWeight(conflicts) = Len(conflicts) BY <1>2, <1>5, WeightRaw
    <3>4. SetWeight(mempool \ excluded) <= left
      BY <1>8, <1>11, <1>14, <1>15, <2>5, <3>1, <3>2, <3>3
    <3>5. SetWeight(sel \cup {t}) <= SetWeight(mempool \ excluded)
      <4>1. mempool \ excluded \in SUBSET Tx /\ sel \cup {t} \in SUBSET (mempool \ excluded)
        BY <1>2, <1>19, <2>2
      <4> QED BY <1>2, <4>1, SetWeightMonotone
    <3> QED BY <1>15, <1>20, <2>2, <2>3, <3>1, <3>4, <3>5
  <2> QED BY <1>10, <1>24, <2>4, <2>5
<1>25. Chosen(chosen \o rest, taken, packed)
  <2>1. taken \in 0 .. Len(pending) BY <1>5, <1>12
  <2>2. chosen \o rest
          = [k \in 1 .. taken |-> Raw(pending[k])] \o [k \in DOMAIN packed |-> Mempool(packed[k])]
    BY <1>13 DEF rest
  <2> QED BY <1>17, <1>19, <1>22, <1>23, <1>24, <2>1, <2>2 DEF Chosen, sel
<1> QED BY <1>1, <1>13, <1>25

\* Whether a list is minable depends on the transactions, mempool and chain.
LEMMA MinableUnchanged ==
  ASSUME UNCHANGED <<parents, weight, mempool, chain>>
  PROVE  \A list : Minable(list)' = Minable(list)
BY WeightUnchanged, OnChainUnchanged DEF Minable

\* Raw and mempool items are different, and one for each transaction.
LEMMA MempoolIs ==
  ASSUME NEW a, NEW b
  PROVE  /\ Mempool(a).id = a /\ Raw(a).id = a /\ Raw(a).raw /\ ~Mempool(a).raw
         /\ Mempool(a) # Raw(b) /\ (Mempool(a) = Mempool(b) => a = b) /\ (Raw(a) = Raw(b) => a = b)
BY DEF Mempool, Raw

\* A sequence without its first n elements.
LEMMA Rest ==
  ASSUME NEW D, NEW s \in Seq(D), NEW n \in 0 .. Len(s)
  PROVE  /\ SubSeq(s, n + 1, Len(s)) \in Seq(D)
         /\ Len(SubSeq(s, n + 1, Len(s))) = Len(s) - n
         /\ \A k \in 1 .. Len(s) - n : SubSeq(s, n + 1, Len(s))[k] = s[n + k]
<1> DEFINE m == Len(s)
<1>1. m \in Nat /\ n \in Nat /\ n <= m OBVIOUS
<1>2. SubSeq(s, n + 1, m) \in Seq(D) /\ Len(SubSeq(s, n + 1, m)) = m - n OBVIOUS
<1>3. ASSUME NEW k \in 1 .. m - n PROVE SubSeq(s, n + 1, m)[k] = s[n + k]
  <2>1. (n + 1) + k - 1 = n + k /\ k \in 1 .. m - (n + 1) + 1 BY <1>1
  <2> QED BY <2>1
<1> QED BY <1>2, <1>3

\* What is at which place of a chosen list.
LEMMA ChosenItems ==
  ASSUME BlockTypes, NEW list, NEW taken, NEW packed, Chosen(list, taken, packed)
  PROVE  /\ list \in Seq(Item) /\ Len(list) = taken + Len(packed)
         /\ taken \in Nat /\ Len(packed) \in Nat
         /\ \A k \in 1 .. taken : k \in 1 .. Len(list) /\ list[k] = Raw(pending[k])
         /\ \A k \in 1 .. Len(packed) : /\ taken + k \in 1 .. Len(list)
                                        /\ list[taken + k] = Mempool(packed[k])
         /\ \A k \in 1 .. Len(list) : \/ k \in 1 .. taken
                                      \/ k - taken \in 1 .. Len(packed) /\ k = taken + (k - taken)
<1> DEFINE a == [k \in 1 .. taken |-> Raw(pending[k])]
           b == [k \in DOMAIN packed |-> Mempool(packed[k])]
<1>1. /\ taken \in 0 .. Len(pending) /\ packed \in Seq(Tx) /\ list = a \o b
      /\ \A i, j \in 1 .. Len(packed) : i # j => packed[i] # packed[j]
  BY DEF Chosen
<1>2. taken \in Nat /\ Len(packed) \in Nat /\ DOMAIN packed = 1 .. Len(packed)
  <2>1. Len(pending) \in Nat BY DEF BlockTypes
  <2> QED BY <1>1, <2>1
<1>3. \A k \in 1 .. taken : pending[k] \in Tx
  <2>1. pending \in Seq(1 .. Orphaned) /\ 1 .. Orphaned \subseteq Tx
    <3>1. pending \in Seq(1 .. Orphaned) /\ ReplacementConstants BY DEF BlockTypes
    <3> QED BY <3>1 DEF ReplacementConstants, Tx
  <2>2. pending \in Seq(Tx) BY <2>1, SeqWider
  <2>3. \A k \in 1 .. taken : k \in 1 .. Len(pending) BY <1>1, <2>2
  <2> QED BY <2>2, <2>3
<1>4. a \in Seq(Item) /\ Len(a) = taken
  <2>1. a \in [1 .. taken -> Item] BY <1>3 DEF Raw, Item
  <2> QED BY <1>2, <2>1
<1>5. b \in Seq(Item) /\ Len(b) = Len(packed)
  <2>1. b \in [1 .. Len(packed) -> Item]
    <3>1. \A k \in 1 .. Len(packed) : packed[k] \in Tx BY <1>1
    <3> QED BY <1>2, <3>1 DEF Mempool, Item
  <2> QED BY <1>2, <2>1
<1>6. \A k \in 1 .. taken : a[k] = Raw(pending[k]) OBVIOUS
<1>7. \A k \in 1 .. Len(packed) : b[k] = Mempool(packed[k]) BY <1>2
<1> HIDE DEF a, b
<1>8. /\ a \o b \in Seq(Item) /\ Len(a \o b) = taken + Len(packed)
      /\ \A k \in 1 .. taken : (a \o b)[k] = a[k]
      /\ \A k \in 1 .. Len(packed) : (a \o b)[taken + k] = b[k]
  BY <1>2, <1>4, <1>5
<1>9. \A k \in 1 .. taken : k \in 1 .. taken + Len(packed) BY <1>2
<1>10. \A k \in 1 .. Len(packed) : taken + k \in 1 .. taken + Len(packed) BY <1>2
<1>11. \A k \in 1 .. taken + Len(packed) :
         \/ k \in 1 .. taken
         \/ k - taken \in 1 .. Len(packed) /\ k = taken + (k - taken)
  BY <1>2
<1> QED BY <1>1, <1>2, <1>6, <1>7, <1>8, <1>9, <1>10, <1>11

\* The chosen list can be mined, unless a kept transaction spends from an
\* excluded one.
LEMMA ChosenMinable ==
  ASSUME BlocksInv, NEW list, NEW taken, NEW packed, Chosen(list, taken, packed), ~Overtaken
  PROVE  Minable(list)
<1> USE DEF BlocksInv
<1>1. /\ list \in Seq(Item) /\ Len(list) = taken + Len(packed)
      /\ taken \in Nat /\ Len(packed) \in Nat
      /\ \A k \in 1 .. taken : k \in 1 .. Len(list) /\ list[k] = Raw(pending[k])
      /\ \A k \in 1 .. Len(packed) : /\ taken + k \in 1 .. Len(list)
                                     /\ list[taken + k] = Mempool(packed[k])
      /\ \A k \in 1 .. Len(list) : \/ k \in 1 .. taken
                                   \/ k - taken \in 1 .. Len(packed) /\ k = taken + (k - taken)
  BY ChosenItems
<1>2. \A k \in 1 .. Len(packed) : packed[k] \in mempool /\ packed[k] \notin excluded
  BY DEF Chosen
<1>3. ASSUME NEW k \in 1 .. taken
      PROVE  /\ pending[k] \in Range(pending) /\ pending[k] \in excluded
             /\ {Raw(pending[k]), Mempool(pending[k])} \cap OnChain = {}
             /\ Mempool(pending[k]) \notin Range(list)
  <2>1. k \in 1 .. Len(pending) /\ DOMAIN pending = 1 .. Len(pending)
    <3>1. taken \in 0 .. Len(pending) /\ pending \in Seq(1 .. Orphaned) BY DEF Chosen, BlockTypes
    <3> QED BY <3>1
  <2>2. pending[k] \in Range(pending) BY <2>1 DEF Range
  <2>3. pending[k] \in excluded BY <2>2 DEF PlanKept
  <2>4. Raw(pending[k]) \notin OnChain BY <2>2, MempoolIs DEF PlanKept, ItemOK
  <2>5. Mempool(pending[k]) \notin OnChain BY <2>3, MempoolIs DEF PlanKept, ItemOK
  <2>6. ASSUME Mempool(pending[k]) \in Range(list) PROVE FALSE
    <3>1. PICK j \in 1 .. Len(list) : list[j] = Mempool(pending[k]) BY <1>1, <2>6 DEF Range
    <3>2. ~(j \in 1 .. taken) BY <1>1, <3>1, MempoolIs
    <3>3. j - taken \in 1 .. Len(packed) /\ list[j] = Mempool(packed[j - taken])
      BY <1>1, <3>2
    <3>4. packed[j - taken] = pending[k] BY <3>1, <3>3, MempoolIs
    <3> QED BY <1>2, <2>3, <3>3, <3>4
  <2> QED BY <2>2, <2>3, <2>4, <2>5, <2>6
<1>4. ASSUME NEW k \in 1 .. Len(packed)
      PROVE  /\ packed[k] \in mempool
             /\ \A p \in parents[packed[k]] :
                  \/ Mempool(p) \in OnChain
                  \/ \E j \in 1 .. taken + k - 1 : list[j] = Mempool(p)
  <2>1. packed[k] \in mempool /\ packed[k] \notin excluded BY <1>2
  <2>2. SUFFICES ASSUME NEW p \in parents[packed[k]], Mempool(p) \notin OnChain
                 PROVE  \E j \in 1 .. taken + k - 1 : list[j] = Mempool(p)
    BY <2>1
  <2>3. p \in mempool BY <2>1, <2>2 DEF ClosedPool
  <2>4. p \notin excluded
    <3>1. packed[k] \in Tx BY <2>1 DEF BlockTypes
    <3>2. p \in Ancestors[packed[k]] BY <3>1, AncestorsEquation DEF BlockTypes
    <3> QED BY <2>1, <3>2 DEF Overtaken
  <2>5. PICK i \in 1 .. k - 1 : packed[i] = p BY <2>3, <2>4 DEF Chosen
  <2>6. i \in 1 .. Len(packed) /\ taken + i \in 1 .. taken + k - 1 BY <1>1, <2>5
  <2>7. list[taken + i] = Mempool(p) BY <1>1, <2>5, <2>6
  <2> QED BY <2>6, <2>7
<1>5. ASSUME NEW k \in DOMAIN list
      PROVE  IF list[k].raw
             THEN /\ {Raw(list[k].id), Mempool(list[k].id)} \cap OnChain = {}
                  /\ Mempool(list[k].id) \notin Range(list)
             ELSE /\ list[k].id \in mempool
                  /\ \A p \in parents[list[k].id] :
                       \/ Mempool(p) \in OnChain
                       \/ \E j \in 1 .. k - 1 : list[j] = Mempool(p)
  <2>0. k \in 1 .. Len(list) BY <1>1
  <2>1. CASE k \in 1 .. taken
    <3>1. list[k] = Raw(pending[k]) BY <1>1, <2>1
    <3>2. list[k].raw /\ list[k].id = pending[k] BY <3>1, MempoolIs
    <3> QED BY <1>3, <2>1, <3>2
  <2>2. CASE k - taken \in 1 .. Len(packed) /\ k = taken + (k - taken)
    <3> DEFINE i == k - taken
    <3>1. i \in 1 .. Len(packed) /\ k = taken + i /\ k - 1 = taken + i - 1 BY <1>1, <2>0, <2>2
    <3> HIDE DEF i
    <3>2. list[k] = Mempool(packed[i]) BY <1>1, <3>1
    <3>3. ~list[k].raw /\ list[k].id = packed[i] BY <3>2, MempoolIs
    <3>4. \A p \in parents[packed[i]] :
            \/ Mempool(p) \in OnChain \/ \E j \in 1 .. k - 1 : list[j] = Mempool(p)
      BY <1>4, <3>1
    <3> QED BY <1>4, <3>1, <3>3, <3>4
  <2> QED BY <1>1, <2>0, <2>1, <2>2
<1>6. TotalWeight(list) <= Budget BY DEF Chosen
<1> QED BY <1>5, <1>6 DEF Minable

\* Selecting the transactions of the next block keeps the invariant.
LEMMA SelectKeeps ==
  ASSUME BlocksInv, Select
  PROVE  BlocksInv'
<1> USE DEF BlocksInv
<1>1. /\ pc = "select" /\ pc' = "mine" /\ seen' = mempool /\ index < ReorgDepth + 1
      /\ UNCHANGED <<parents, weight, wallet, pct, mempool, chain, replacements, excluded,
                     injected, index, failures>>
  BY DEF Select, given
<1>2. PICK taken, packed : /\ Chosen(items', taken, packed)
                           /\ pending' = SubSeq(pending, taken + 1, Len(pending))
  BY SelectChooses
<1>3. /\ items' \in Seq(Item) /\ Len(items') = taken + Len(packed)
      /\ taken \in Nat /\ Len(packed) \in Nat
      /\ \A k \in 1 .. taken : k \in 1 .. Len(items') /\ items'[k] = Raw(pending[k])
      /\ \A k \in 1 .. Len(packed) : /\ taken + k \in 1 .. Len(items')
                                     /\ items'[taken + k] = Mempool(packed[k])
      /\ \A k \in 1 .. Len(items') : \/ k \in 1 .. taken
                                     \/ k - taken \in 1 .. Len(packed) /\ k = taken + (k - taken)
  BY <1>2, ChosenItems
<1>4. /\ pending \in Seq(1 .. Orphaned) /\ Len(pending) \in Nat /\ DOMAIN pending = 1 .. Len(pending)
      /\ taken \in 0 .. Len(pending) /\ ReorgDepth \in Nat /\ index \in 0 .. ReorgDepth + 1
  BY <1>2 DEF BlockTypes, Chosen, ReplacementConstants
<1>5. /\ pending' \in Seq(1 .. Orphaned) /\ Len(pending') = Len(pending) - taken
      /\ \A k \in 1 .. Len(pending') : pending'[k] = pending[taken + k]
  <2> DEFINE D == 1 .. Orphaned
  <2>1. pending \in Seq(D) /\ taken \in 0 .. Len(pending) BY <1>4
  <2> HIDE DEF D
  <2>2. /\ SubSeq(pending, taken + 1, Len(pending)) \in Seq(D)
        /\ Len(SubSeq(pending, taken + 1, Len(pending))) = Len(pending) - taken
        /\ \A k \in 1 .. Len(pending) - taken :
             SubSeq(pending, taken + 1, Len(pending))[k] = pending[taken + k]
    BY <2>1, Rest
  <2> QED BY <1>2, <2>2 DEF D
<1>6. \A k \in 1 .. Len(pending') : taken + k \in 1 .. Len(pending) BY <1>4, <1>5
<1>7. \A k \in 1 .. Len(pending) : k \in 1 .. taken \/ k - taken \in 1 .. Len(pending')
  BY <1>4, <1>5
<1>8. Range(pending) = {pending[k] : k \in 1 .. Len(pending)}
      /\ Range(pending') = {pending'[k] : k \in 1 .. Len(pending')}
  BY <1>4, <1>5, RangeOf
<1>9. \A k \in 1 .. taken : pending[k] \notin Range(pending') /\ pending[k] \in Range(pending)
  <2>1. SUFFICES ASSUME NEW k \in 1 .. taken, NEW j \in 1 .. Len(pending') 
                 PROVE  pending[k] # pending'[j] /\ pending[k] \in Range(pending)
    <3>1. \A k \in 1 .. taken : k \in 1 .. Len(pending) BY <1>4
    <3> QED BY <1>8, <3>1
  <2>2. k \in 1 .. Len(pending) /\ taken + j \in 1 .. Len(pending) /\ k # taken + j
    BY <1>3, <1>4, <1>5
  <2>3. pending[k] # pending[taken + j] BY <2>2 DEF PlanKept
  <2> QED BY <1>5, <1>8, <2>2, <2>3
<1>10. Range(pending') \subseteq Range(pending) BY <1>5, <1>6, <1>8
<1>11. \A t \in Range(pending) : t \in Range(pending') \/ \E k \in 1 .. taken : t = pending[k]
  <2>1. SUFFICES ASSUME NEW k \in 1 .. Len(pending), ~(k \in 1 .. taken)
                 PROVE  pending[k] \in Range(pending')
    BY <1>8
  <2>2. k - taken \in 1 .. Len(pending') /\ taken + (k - taken) = k BY <1>3, <1>7, <2>1
  <2>3. pending'[k - taken] = pending[k] BY <1>5, <2>2
  <2> QED BY <1>8, <2>2, <2>3
<1>12. \A k \in 1 .. Len(packed) : packed[k] \in mempool /\ packed[k] \notin excluded
  BY <1>2 DEF Chosen
<1>13. Range(items') = {items'[k] : k \in 1 .. Len(items')} BY <1>3, RangeOf
<1>14. \A k \in 1 .. taken : Raw(pending[k]) \in Range(items') BY <1>3, <1>13
<1>15. \A i \in Range(items') : \/ \E k \in 1 .. taken : i = Raw(pending[k])
                                \/ \E k \in 1 .. Len(packed) : i = Mempool(packed[k])
  <2>1. SUFFICES ASSUME NEW n \in 1 .. Len(items')
                 PROVE  \/ \E k \in 1 .. taken : items'[n] = Raw(pending[k])
                        \/ \E k \in 1 .. Len(packed) : items'[n] = Mempool(packed[k])
    BY <1>13
  <2>2. CASE n \in 1 .. taken BY <1>3, <2>2
  <2>3. CASE n - taken \in 1 .. Len(packed) /\ n = taken + (n - taken) BY <1>3, <2>3
  <2> QED BY <1>3, <2>2, <2>3
<1>16. \A k \in 1 .. Len(packed) : Mempool(packed[k]) \in Range(items') BY <1>3, <1>13
<1>17. OnChain' = OnChain BY <1>1, OnChainUnchanged
<1>18. Range(items) = {}
  <2>1. items = <<>> BY <1>1 DEF Block
  <2> QED BY <2>1 DEF Range
<1>19. BlockTypes'
  <2>1. ParentsType' /\ WeightType' BY <1>1, TypesUnchanged DEF BlockTypes
  <2> QED BY <1>1, <1>3, <1>5, <2>1 DEF BlockTypes, ReplacementConstants
<1>20. Beginning' BY <1>1 DEF Beginning
<1>21. PlanKept'
  <2>1. \A i, j \in 1 .. Len(pending') : i # j => pending'[i] # pending'[j]
    <3>1. SUFFICES ASSUME NEW i \in 1 .. Len(pending'), NEW j \in 1 .. Len(pending'), i # j
                   PROVE  pending[taken + i] # pending[taken + j]
      BY <1>5
    <3>2. taken + i # taken + j BY <1>3, <1>4, <1>5, <3>1
    <3> QED BY <1>6, <3>1, <3>2 DEF PlanKept
  <2>2. \A i \in OnChain : ItemOK(i)' BY <1>1, <1>10 DEF PlanKept, ItemOK
  <2>3. \A i : (\E k \in 1 .. taken : i = Raw(pending[k])) => ItemOK(i)'
    BY <1>1, <1>9, MempoolIs DEF PlanKept, ItemOK
  <2>4. \A i : (\E k \in 1 .. Len(packed) : i = Mempool(packed[k])) => ItemOK(i)'
    BY <1>1, <1>12, MempoolIs DEF ItemOK
  <2>5. \A i \in Range(items') : ItemOK(i)' BY <1>15, <2>3, <2>4
  <2> QED BY <1>1, <1>10, <1>17, <2>1, <2>2, <2>5 DEF PlanKept
<1>22. ClosedPool' BY <1>1, <1>17 DEF ClosedPool
<1>23. NoneLost' BY <1>1, <1>11, <1>14, <1>17, <1>18 DEF NoneLost
<1>24. TotalWeight(items)' = TotalWeight(items') BY <1>1, WeightUnchanged
<1>25. RawItems' \cap OnChain' = {}
  <2>1. SUFFICES ASSUME NEW i \in Range(items'), i.raw, i \in OnChain PROVE FALSE
    BY <1>17 DEF RawItems
  <2>2. PICK k \in 1 .. taken : i = Raw(pending[k]) BY <1>15, <2>1, MempoolIs
  <2>3. i.id \in Range(pending) BY <1>9, <2>2, MempoolIs
  <2> QED BY <2>1, <2>3 DEF PlanKept, ItemOK
<1>26. PackedIsMinable'
  <2>1. Overtaken' = Overtaken BY <1>1, AncestorsUnchanged DEF Overtaken
  <2>2. ~Overtaken => Minable(items') BY <1>2, ChosenMinable
  <2>3. Minable(items)' = Minable(items') BY <1>1, MinableUnchanged
  <2> QED BY <2>1, <2>2, <2>3 DEF PackedIsMinable
<1>27. EveryBlockMakesProgress' BY <1>1, <1>2 DEF EveryBlockMakesProgress, Chosen
<1>28. ASSUME index = ReorgDepth PROVE LastSelected'
  <2> DEFINE sel == {packed[k] : k \in 1 .. Len(packed)}
  <2>1. \/ sel = mempool \ excluded
        \/ \E t \in mempool \ excluded : t \notin sel /\ TotalWeight(items') + weight[t] > Budget
    BY <1>2, <1>28 DEF Chosen
  <2>2. \A t : t \in sel => Mempool(t) \in Range(items') BY <1>16
  <2>3. \A t : Mempool(t) \in Range(items') => t \in sel
    <3>1. SUFFICES ASSUME NEW t, Mempool(t) \in Range(items') PROVE t \in sel OBVIOUS
    <3>2. PICK k \in 1 .. Len(packed) : Mempool(t) = Mempool(packed[k]) BY <1>15, <3>1, MempoolIs
    <3> QED BY <3>2, MempoolIs
  <2> HIDE DEF sel
  <2> QED BY <1>1, <1>24, <2>1, <2>2, <2>3 DEF LastSelected
<1>29. Block'
  <2>1. TotalWeight(items') <= Budget BY <1>2 DEF Chosen
  <2>2. index' <= ReorgDepth BY <1>1, <1>4
  <2> QED BY <1>1, <1>24, <1>25, <1>26, <1>27, <1>28, <2>1, <2>2 DEF Block
<1>30. LastFull' BY <1>1, <1>4 DEF LastFull
<1> QED BY <1>19, <1>20, <1>21, <1>22, <1>23, <1>29, <1>30

(***************************************************************************)
(* Mining the selected block.                                              *)
(***************************************************************************)
\* A list of conflicts that are not mined yet can be mined.
LEMMA RawMinable ==
  ASSUME BlocksInv, RawItems \cap OnChain = {}, NEW list \in Seq(Item),
         Range(list) \subseteq RawItems, TotalWeight(list) <= Budget
  PROVE  Minable(list)
<1> USE DEF BlocksInv
<1>1. ASSUME NEW i \in RawItems
      PROVE  /\ i.raw /\ i = Raw(i.id) /\ i.id \in excluded
             /\ {Raw(i.id), Mempool(i.id)} \cap OnChain = {}
             /\ Mempool(i.id) \notin RawItems
  <2>1. i \in Range(items) /\ i.raw /\ i \in Item
    <3>1. items \in Seq(Item) BY DEF BlockTypes
    <3>2. Range(items) \subseteq Item BY <3>1, RangeOf
    <3> QED BY <3>2 DEF RawItems
  <2>2. i = Raw(i.id) BY <2>1, ItemIs
  <2>3. i.id \in excluded BY <2>1 DEF PlanKept, ItemOK
  <2>4. Mempool(i.id) \notin OnChain BY <2>3, MempoolIs DEF PlanKept, ItemOK
  <2>5. Mempool(i.id) \notin RawItems BY MempoolIs DEF RawItems
  <2> QED BY <2>1, <2>2, <2>3, <2>4, <2>5
<1>2. \A k \in DOMAIN list : list[k] \in RawItems BY DEF Range
<1> QED BY <1>1, <1>2 DEF Minable

\* The blocks after one more was mined: what does not depend on the next step.
LEMMA ConnectKeeps ==
  ASSUME BlocksInv, NEW list \in Seq(Item), Range(list) \subseteq Range(items), Connect(list),
         UNCHANGED <<parents, weight, replacements, excluded, pending>>,
         items' = items \/ items' = <<>>
  PROVE  /\ PlanKept' /\ ClosedPool' /\ mempool' \subseteq mempool
         /\ chain' \in Seq(Seq(Item)) /\ Len(chain') = Len(chain) + 1 /\ Last(chain') = list
         /\ OnChain' = OnChain \cup Range(list) /\ items' \in Seq(Item)
<1> USE DEF BlocksInv
<1>1. /\ chain' \in Seq(Seq(Item)) /\ Len(chain') = Len(chain) + 1 /\ Last(chain') = list
      /\ OnChain' = OnChain \cup Range(list)
      /\ mempool' \subseteq mempool /\ ClosedPool'
  BY ConnectFacts
<1>2. Range(<<>>) = {} BY DEF Range
<1>3. Range(items') \subseteq Range(items) BY <1>2
<1>4. items' \in Seq(Item)
  <2>1. items \in Seq(Item) /\ <<>> \in Seq(Item) BY DEF BlockTypes
  <2> QED BY <2>1
<1>5. PlanKept' BY <1>1, <1>3 DEF PlanKept, ItemOK
<1> QED BY <1>1, <1>4, <1>5

\* So does handing the block to generateblock, whether it is taken or not and
\* whether its answer arrives or not.
LEMMA MineExactKeeps ==
  ASSUME BlocksInv, MineExact
  PROVE  BlocksInv'
<1> USE DEF BlocksInv
<1>1. PICK answered \in BOOLEAN :
         /\ failures' = failures + (IF answered THEN 0 ELSE 1)
         /\ failures' <= MaxFailures
         /\ IF Minable(items) THEN Connect(items) ELSE answered /\ UNCHANGED <<chain, mempool>>
         /\ IF answered /\ Minable(items) THEN NextBlock
            ELSE pc' = "ladder" /\ UNCHANGED <<items, seen, index>>
  BY DEF MineExact
<1>2. /\ pc = "mine"
      /\ UNCHANGED <<parents, weight, wallet, pct, replacements, excluded, injected, pending>>
  BY DEF MineExact, given
<1>3. /\ MaxFailures \in Nat /\ failures \in 0 .. MaxFailures /\ ReorgDepth \in Nat
      /\ index \in 0 .. ReorgDepth + 1
      /\ Len(chain) \in index .. index + failures /\ Len(chain) \in Nat
      /\ items \in Seq(Item) /\ mempool \subseteq Tx /\ excluded \subseteq Tx
  <2>1. /\ MaxFailures \in Nat /\ failures \in 0 .. MaxFailures /\ ReorgDepth \in Nat
        /\ index \in 0 .. ReorgDepth + 1
    BY DEF BlockTypes, ReplacementConstants
  <2>2. Len(chain) \in index .. index + failures /\ chain \in Seq(Seq(Item)) BY DEF BlockTypes
  <2>3. items \in Seq(Item) /\ mempool \subseteq Tx /\ excluded \subseteq Tx BY DEF BlockTypes
  <2>4. Len(chain) \in Nat BY <2>2
  <2> QED BY <2>1, <2>2, <2>3, <2>4
<1>4. /\ RawItems \cap OnChain = {} /\ mempool \subseteq seen /\ index <= ReorgDepth
      /\ PackedIsMinable /\ (index = ReorgDepth => LastSelected) /\ TotalWeight(items) <= Budget
      /\ failures = 0 => seen = mempool
  BY <1>2 DEF Block, LastFull
<1>5. ParentsType' /\ WeightType' BY <1>2, TypesUnchanged DEF BlockTypes
<1>6. Beginning' BY <1>1, <1>2 DEF Beginning, NextBlock
<1>7. Range(<<>>) = {} BY DEF Range
<1>8. CASE Minable(items)
  <2>1. Connect(items) /\ (items' = items \/ items' = <<>>) BY <1>1, <1>8 DEF NextBlock
  <2>2. /\ PlanKept' /\ ClosedPool' /\ mempool' \subseteq mempool
        /\ chain' \in Seq(Seq(Item)) /\ Len(chain') = Len(chain) + 1 /\ Last(chain') = items
        /\ OnChain' = OnChain \cup Range(items) /\ items' \in Seq(Item)
    BY <1>2, <1>3, <2>1, ConnectKeeps
  <2>3. NoneLost' BY <1>2, <2>2 DEF NoneLost
  <2>4. CASE answered
    <3>1. /\ items' = <<>> /\ index' = index + 1 /\ pc' = "select" /\ failures' = failures
      BY <1>1, <1>3, <1>8, <2>4 DEF NextBlock
    <3>2. BlockTypes'
      <4>1. /\ Len(chain') \in index' .. index' + failures' /\ index' \in 0 .. ReorgDepth + 1
            /\ failures' \in 0 .. MaxFailures
        BY <1>3, <1>4, <2>2, <3>1
      <4>2. mempool' \subseteq Tx BY <1>3, <2>2
      <4> QED BY <1>2, <1>5, <2>2, <3>1, <4>1, <4>2 DEF BlockTypes, ReplacementConstants
    <3>3. Block' BY <3>1 DEF Block
    <3>4. ASSUME index' = ReorgDepth + 1, failures' = 0, mempool' \ excluded # {}, ~Entangled
          PROVE  Full'
      <4>1. index = ReorgDepth /\ seen = mempool BY <1>3, <1>4, <3>1, <3>4
      <4> DEFINE pool == {item.id : item \in {i \in Range(items) : ~i.raw}}
                 raws == {item.id : item \in {i \in Range(items) : i.raw}}
      <4>2. mempool' = mempool \ (pool \cup WithDescendants(raws)) BY <2>1 DEF Connect
      <4>3. \A t : Mempool(t) \in Range(items) => t \in pool
        <5>1. SUFFICES ASSUME NEW t, Mempool(t) \in Range(items) PROVE t \in pool OBVIOUS
        <5>2. ~Mempool(t).raw /\ Mempool(t).id = t BY MempoolIs
        <5> QED BY <5>1, <5>2
      <4>4. \A t \in pool : Mempool(t) \in Range(items)
        <5>1. Range(items) \subseteq Item BY <1>3, RangeOf
        <5> QED BY <5>1, ItemIs
      <4>5. raws \subseteq excluded BY DEF PlanKept, ItemOK
      <4> HIDE DEF pool, raws
      <4>6. PICK t \in mempool \ excluded : /\ Mempool(t) \notin Range(items)
                                            /\ TotalWeight(items) + weight[t] > Budget
        <5>1. CASE \A t \in seen \ excluded : Mempool(t) \in Range(items)
          BY <3>4, <4>1, <4>2, <4>3, <5>1
        <5> QED BY <1>4, <4>1, <5>1 DEF LastSelected
      <4>7. t \notin WithDescendants(raws)
        <5>1. t \in Tx \ excluded BY <1>3, <4>6
        <5>2. Ancestors[t] \cap excluded = {} BY <3>4, <5>1 DEF Entangled
        <5> QED BY <4>5, <4>6, <5>2 DEF WithDescendants
      <4>8. t \in mempool' BY <4>2, <4>4, <4>6, <4>7
      <4>9. TotalWeight(Last(chain))' = TotalWeight(items) BY <1>2, <2>2, WeightUnchanged
      <4> QED BY <1>2, <4>6, <4>8, <4>9 DEF Full
    <3>5. LastFull'
      <4>1. Entangled' = Entangled BY <1>2, EntangledUnchanged
      <4> QED BY <1>2, <3>1, <3>4, <4>1 DEF LastFull
    <3> QED BY <1>6, <2>2, <2>3, <3>2, <3>3, <3>5
  <2>5. CASE ~answered
    <3>1. /\ pc' = "ladder" /\ UNCHANGED <<items, seen, index>> /\ failures' = failures + 1
      BY <1>1, <1>3, <2>5
    <3>2. BlockTypes'
      <4>1. /\ Len(chain') \in index' .. index' + failures' /\ index' \in 0 .. ReorgDepth + 1
            /\ failures' \in 0 .. MaxFailures
        BY <1>1, <1>3, <2>2, <3>1
      <4>2. mempool' \subseteq Tx BY <1>3, <2>2
      <4> QED BY <1>2, <1>5, <2>2, <3>1, <4>1, <4>2 DEF BlockTypes, ReplacementConstants
    <3>3. Block'
      <4>1. RawItems' \subseteq OnChain' BY <2>2, <3>1 DEF RawItems
      <4>2. TotalWeight(items)' = TotalWeight(items) BY <1>2, <3>1, WeightUnchanged
      <4> QED BY <1>4, <3>1, <4>1, <4>2 DEF Block
    <3>4. LastFull' BY <1>3, <1>4, <3>1 DEF LastFull
    <3> QED BY <1>6, <2>2, <2>3, <3>2, <3>3, <3>4
  <2> QED BY <2>4, <2>5
<1>9. CASE ~Minable(items)
  <2>1. /\ answered /\ UNCHANGED <<chain, mempool, items, seen, index>>
        /\ pc' = "ladder" /\ failures' = failures
    BY <1>1, <1>3, <1>9
  <2>2. BlockTypes' BY <1>2, <1>5, <2>1 DEF BlockTypes, ReplacementConstants
  <2>3. PlanKept' /\ NoneLost' BY <1>2, <2>1, PlanUnchanged
  <2>4. ClosedPool' BY <1>2, <2>1, OnChainUnchanged DEF ClosedPool
  <2>5. Block'
    <3>1. RawItems # Range(items) BY <1>3, <1>4, <1>9, RawMinable
    <3>2. OnChain' = OnChain /\ RawItems' = RawItems BY <2>1, OnChainUnchanged DEF RawItems
    <3>3. TotalWeight(items)' = TotalWeight(items) BY <1>2, <2>1, WeightUnchanged
    <3> QED BY <1>4, <2>1, <3>1, <3>2, <3>3 DEF Block
  <2>6. LastFull'
    <3>1. Entangled' = Entangled BY <1>2, EntangledUnchanged
    <3>2. ASSUME failures = 0 PROVE Entangled
      <4>1. Overtaken BY <1>2, <1>4, <1>9, <3>2 DEF PackedIsMinable
      <4> QED BY <1>3, <4>1 DEF Overtaken, Entangled
    <3> QED BY <1>3, <1>4, <2>1, <3>1, <3>2 DEF LastFull
  <2> QED BY <1>6, <2>2, <2>3, <2>4, <2>5, <2>6
<1> QED BY <1>8, <1>9

(***************************************************************************)
(* Salvaging a block that was not mined.                                   *)
(***************************************************************************)
\* Every item weighs something.
LEMMA WeightAtLeast ==
  ASSUME WeightType, NEW list \in Seq(Item)
  PROVE  Len(list) <= TotalWeight(list)
<1>1. PICK acc : RunningSum(acc, list) /\ TotalWeight(list) = acc[Len(list)] BY RunningWeight
<1> DEFINE S == {k \in Nat : k <= Len(list) => k <= acc[k]}
<1>2. 0 \in S BY <1>1 DEF RunningSum
<1>3. ASSUME NEW k \in Nat, k \in S PROVE k + 1 \in S
  <2>1. SUFFICES ASSUME k + 1 <= Len(list) PROVE k + 1 <= acc[k + 1] OBVIOUS
  <2>2. k + 1 \in 1 .. Len(list) /\ (k + 1) - 1 = k /\ k \in 0 .. Len(list) /\ k <= acc[k]
    BY <1>3, <2>1
  <2>3. acc[k + 1] = acc[k] + WeightOf(list[k + 1]) /\ acc[k] \in Nat
    BY <1>1, <2>2 DEF RunningSum
  <2>4. WeightOf(list[k + 1]) \in Nat /\ WeightOf(list[k + 1]) >= 1
    <3>1. list[k + 1] \in Item BY <2>2
    <3> QED BY <3>1, WeightOfType DEF WeightType
  <2> QED BY <2>2, <2>3, <2>4
<1>4. \A k \in Nat : k \in S
  <2> HIDE DEF S
  <2> QED BY <1>2, <1>3, SetInduction
<1>5. Len(list) \in Nat OBVIOUS
<1> QED BY <1>1, <1>4, <1>5

\* A ladder of up to three rungs and the last.
Ladder(a, b, c, f, r, s, e) ==
  (IF a THEN <<f>> ELSE <<>>) \o (IF b THEN <<r>> ELSE <<>>) \o (IF c THEN <<s>> ELSE <<>>) \o <<e>>

\* q with x at its end, if b.
Extended(p, q, b, x, D) ==
  /\ p \in Seq(D) /\ Len(p) \in Nat /\ Len(q) \in Nat /\ Len(q) <= Len(p)
  /\ b => Len(p) = Len(q) + 1
  /\ \A k \in 1 .. Len(q) : p[k] = q[k]
  /\ b => p[Len(q) + 1] = x

\* Adding one rung to the ladder or leaving it out.
LEMMA ExtendedBy ==
  ASSUME NEW D, NEW q \in Seq(D), NEW b \in BOOLEAN, NEW x \in D
  PROVE  Extended(q \o (IF b THEN <<x>> ELSE <<>>), q, b, x, D)
<1>1. CASE b
  <2>1. <<x>> \in Seq(D) /\ Len(<<x>>) = 1 OBVIOUS
  <2>2. Extended(q \o <<x>>, q, b, x, D) BY <1>1, <2>1 DEF Extended
  <2> QED BY <1>1, <2>2
<1>2. CASE ~b
  <2>1. q \o <<>> = q OBVIOUS
  <2>2. Extended(q \o <<>>, q, b, x, D) BY <1>2, <2>1 DEF Extended
  <2> QED BY <1>2, <2>2
<1> QED BY <1>1, <1>2

\* The ladder ends in the empty block, begins with what is still in the
\* mempool if that is a rung, and comes to the conflicts alone before anything
\* without them.
LEMMA LadderShape ==
  ASSUME NEW a \in BOOLEAN, NEW b \in BOOLEAN, NEW c \in BOOLEAN, NEW f, NEW r, NEW s, NEW e,
         NEW L, L = Ladder(a, b, c, f, r, s, e)
  PROVE  /\ Len(L) \in Nat \ {0} /\ DOMAIN L = 1 .. Len(L)
         /\ \A k \in DOMAIN L : L[k] \in {f, r, s, e}
         /\ L[Len(L)] = e
         /\ a => L[1] = f
         /\ b => \E m \in DOMAIN L : L[m] = r /\ \A k \in DOMAIN L : k < m => L[k] = f
<1> DEFINE D == {f, r, s, e}
           A == IF a THEN <<f>> ELSE <<>>
           B == A \o (IF b THEN <<r>> ELSE <<>>)
           C == B \o (IF c THEN <<s>> ELSE <<>>)
<1>1. f \in D /\ r \in D /\ s \in D /\ e \in D OBVIOUS
<1> HIDE DEF D
<1>2. A \in Seq(D) /\ Len(A) \in 0 .. 1 /\ (a => Len(A) = 1 /\ A[1] = f) /\ (~a => Len(A) = 0)
  BY <1>1
<1> HIDE DEF A
<1>3. Extended(B, A, b, r, D) BY <1>1, <1>2, ExtendedBy
<1>4. B \in Seq(D) BY <1>3 DEF Extended
<1> HIDE DEF B
<1>5. Extended(C, B, c, s, D) BY <1>1, <1>4, ExtendedBy
<1>6. C \in Seq(D) BY <1>5 DEF Extended
<1> HIDE DEF C
<1>7. /\ L \in Seq(D) /\ Len(L) = Len(C) + 1 /\ L[Len(C) + 1] = e
      /\ \A k \in 1 .. Len(C) : L[k] = C[k]
  <2>1. L = C \o <<e>> BY DEF A, B, C, Ladder
  <2>2. <<e>> \in Seq(D) /\ Len(<<e>>) = 1 BY <1>1
  <2> QED BY <1>6, <2>1, <2>2
<1>8. /\ Len(A) \in Nat /\ Len(B) \in Nat /\ Len(C) \in Nat /\ Len(A) <= Len(B) /\ Len(B) <= Len(C)
      /\ b => Len(B) = Len(A) + 1
  BY <1>3, <1>5 DEF Extended
<1>9. Len(L) \in Nat \ {0} /\ DOMAIN L = 1 .. Len(L) BY <1>7, <1>8
<1>10. \A k \in DOMAIN L : L[k] \in {f, r, s, e} BY <1>7 DEF D
<1>11. L[Len(L)] = e BY <1>7
<1>12. \A k \in 1 .. Len(B) : L[k] = B[k]
  <2>1. \A k \in 1 .. Len(B) : k \in 1 .. Len(C) BY <1>8
  <2> QED BY <2>1, <1>5, <1>7 DEF Extended
<1>13. \A k \in 1 .. Len(A) : L[k] = A[k]
  <2>1. \A k \in 1 .. Len(A) : k \in 1 .. Len(B) BY <1>8
  <2> QED BY <2>1, <1>3, <1>12 DEF Extended
<1>14. ASSUME a PROVE L[1] = f
  <2>1. 1 \in 1 .. Len(A) BY <1>2, <1>14
  <2> QED BY <1>2, <1>13, <1>14, <2>1
<1>15. ASSUME b PROVE \E m \in DOMAIN L : L[m] = r /\ \A k \in DOMAIN L : k < m => L[k] = f
  <2> DEFINE m == Len(A) + 1
  <2>1. m \in 1 .. Len(B) /\ m \in 1 .. Len(L) BY <1>7, <1>8, <1>15
  <2>2. L[m] = r
    <3>1. B[m] = r BY <1>3, <1>15 DEF Extended
    <3> QED BY <1>12, <2>1, <3>1
  <2>3. \A k \in 1 .. Len(L) : k < m => k = 1 /\ a
    <3>1. CASE a BY <1>2, <1>9, <3>1
    <3>2. CASE ~a BY <1>2, <1>9, <3>2
    <3> QED BY <3>1, <3>2
  <2> QED BY <1>9, <1>14, <2>1, <2>2, <2>3
<1> QED BY <1>9, <1>10, <1>11, <1>14, <1>15

\* What Kept leaves of a sequence, as a set.
LEMMA KeptRange ==
  ASSUME NEW r, NEW q, NEW P \in SUBSET (1 .. Len(q)), IsKept(r, q, P)
  PROVE  Range(r) = {q[k] : k \in P}
<1>1. PICK slot \in [1 .. Len(r) -> P] :
        /\ \A p \in P : \E n \in 1 .. Len(r) : slot[n] = p
        /\ \A n \in 1 .. Len(r) : r[n] = q[slot[n]]
  BY DEF IsKept
<1>2. DOMAIN r = 1 .. Len(r) BY DEF IsKept
<1>3. \A n \in 1 .. Len(r) : slot[n] \in P BY <1>1
<1>4. Range(r) = {r[n] : n \in 1 .. Len(r)} BY <1>2 DEF Range
<1>5. \A n \in 1 .. Len(r) : r[n] \in {q[k] : k \in P} BY <1>1, <1>3
<1>6. \A k \in P : \E n \in 1 .. Len(r) : r[n] = q[k]
  <2>1. SUFFICES ASSUME NEW k \in P PROVE \E n \in 1 .. Len(r) : r[n] = q[k] OBVIOUS
  <2>2. PICK n \in 1 .. Len(r) : slot[n] = k BY <1>1
  <2>3. r[n] = q[k] BY <1>1, <2>2
  <2> QED BY <2>3
<1> QED BY <1>4, <1>5, <1>6

\* The rung that is mined: it holds nothing new, and every conflict that is
\* not on the chain.
LEMMA SalvageRung ==
  ASSUME BlocksInv, pc = "ladder"
  PROVE  LET list == Rungs[Min({k \in DOMAIN Rungs : Minable(Rungs[k])})]
         IN  /\ list \in Seq(Item) /\ Range(list) \subseteq Range(items)
             /\ RawItems \subseteq OnChain \cup Range(list)
<1> USE DEF BlocksInv
<1> DEFINE n == Len(items)
           Pf == {k \in DOMAIN items : items[k].raw \/ items[k].id \in mempool}
           Pr == {k \in DOMAIN items : items[k].raw}
           filtered == Kept(items, LAMBDA i : i.raw \/ i.id \in mempool)
           raw == Kept(items, LAMBDA i : i.raw)
           Ps == {k \in DOMAIN filtered : ~filtered[k].raw}
           rest == Kept(filtered, LAMBDA i : ~i.raw)
           a == Len(filtered) < Len(items) /\ filtered # <<>>
           b == raw # <<>> /\ Len(raw) < Len(filtered)
           c == raw # <<>> /\ rest # <<>>
<1>1. items \in Seq(Item) /\ n \in Nat /\ DOMAIN items = 1 .. n /\ WeightType /\ Budget \in Nat
      /\ TotalWeight(items) <= Budget
  BY DEF BlockTypes, Block, WeightType
<1>2. Pf \in SUBSET (1 .. n) /\ Pr \in SUBSET Pf /\ Pr \in SUBSET (1 .. n) BY <1>1
<1>3. filtered = [k \in DOMAIN Ascending(Pf) |-> items[Ascending(Pf)[k]]] BY DEF Kept
<1>4. raw = [k \in DOMAIN Ascending(Pr) |-> items[Ascending(Pr)[k]]] BY DEF Kept
<1>5. rest = [k \in DOMAIN Ascending(Ps) |-> filtered[Ascending(Ps)[k]]] BY DEF Kept
<1>6. Rungs = Ladder(a, b, c, filtered, raw, rest, <<>>) BY DEF Rungs, Ladder
<1>7. Range(items) = {items[k] : k \in 1 .. n} BY <1>1, RangeOf
<1>8. RawItems = {items[k] : k \in Pr} BY <1>1, <1>7 DEF RawItems
<1>9. \A i \in {items[k] : k \in Pr} : i.raw OBVIOUS
<1>10. \A k \in 1 .. n : k \notin Pr => ~items[k].raw
  <2>1. SUFFICES ASSUME NEW k \in 1 .. n, items[k].raw PROVE k \in Pr OBVIOUS
  <2>2. k \in DOMAIN items BY <1>1
  <2> QED BY <2>1, <2>2
<1> HIDE DEF Pf, Pr, filtered, raw, rest
<1>11. filtered \in Seq(Item) /\ IsKept(filtered, items, Pf) BY <1>1, <1>2, <1>3, KeptPositions
<1>12. raw \in Seq(Item) /\ IsKept(raw, items, Pr) BY <1>1, <1>2, <1>4, KeptPositions
<1>13. rest \in Seq(Item) /\ IsKept(rest, filtered, Ps)
  <2>1. Ps \in SUBSET (1 .. Len(filtered)) BY <1>11
  <2> HIDE DEF Ps
  <2> QED BY <1>5, <1>11, <2>1, KeptPositions
<1>14. /\ Range(filtered) = {items[k] : k \in Pf} /\ Range(raw) = RawItems
       /\ Range(rest) \subseteq Range(filtered)
  <2>1. Range(filtered) = {items[k] : k \in Pf}
    <3>1. Pf \in SUBSET (1 .. Len(items)) /\ IsKept(filtered, items, Pf) BY <1>2, <1>11
    <3> HIDE DEF BlocksInv
    <3> QED BY <3>1, KeptRange
  <2>2. Range(raw) = {items[k] : k \in Pr}
    <3>1. Pr \in SUBSET (1 .. Len(items)) /\ IsKept(raw, items, Pr) BY <1>2, <1>12
    <3> HIDE DEF BlocksInv
    <3> QED BY <3>1, KeptRange
  <2>3. Range(rest) = {filtered[k] : k \in Ps}
    <3>1. Ps \in SUBSET (1 .. Len(filtered)) BY <1>11
    <3> HIDE DEF Ps
    <3> QED BY <3>1, <1>13, KeptRange
  <2>4. Range(rest) \subseteq Range(filtered) BY <2>3 DEF Range
  <2> QED BY <1>8, <2>1, <2>2, <2>4
<1>15. /\ Range(filtered) \subseteq Range(items) /\ RawItems \subseteq Range(filtered)
       /\ RawItems \subseteq Range(items) /\ Range(rest) \subseteq Range(items)
       /\ Range(<<>>) = {}
  <2>1. Range(<<>>) = {} BY DEF Range
  <2>2. Range(filtered) \subseteq Range(items) BY <1>2, <1>7, <1>14
  <2>3. RawItems \subseteq Range(filtered) BY <1>2, <1>8, <1>14
  <2> QED BY <1>14, <2>1, <2>2, <2>3
<1>16. a \in BOOLEAN /\ b \in BOOLEAN /\ c \in BOOLEAN OBVIOUS
<1> HIDE DEF a, b, c
<1> DEFINE K == {k \in DOMAIN Rungs : Minable(Rungs[k])}
           m == Min(K)
<1>17. /\ Len(Rungs) \in Nat \ {0} /\ DOMAIN Rungs = 1 .. Len(Rungs)
       /\ \A k \in DOMAIN Rungs : Rungs[k] \in {filtered, raw, rest, <<>>}
       /\ Rungs[Len(Rungs)] = <<>>
       /\ a => Rungs[1] = filtered
       /\ b => \E j \in DOMAIN Rungs :
                 Rungs[j] = raw /\ \A k \in DOMAIN Rungs : k < j => Rungs[k] = filtered
  BY <1>6, <1>16, LadderShape
<1>18. Minable(<<>>)
  <2>1. TotalWeight(<<>>) = 0 BY <1>1, WeightEmpty
  <2> QED BY <1>1, <2>1 DEF Minable
<1>19. m \in K /\ \A k \in K : m <= k
  <2>1. Len(Rungs) \in K BY <1>17, <1>18
  <2>2. K \in SUBSET Nat BY <1>17
  <2> HIDE DEF K
  <2> QED BY <2>1, <2>2, LeastOf
<1>20. m \in DOMAIN Rungs /\ Rungs[m] \in {filtered, raw, rest, <<>>} BY <1>17, <1>19
<1> HIDE DEF m
<1>21. Rungs[m] \in Seq(Item) /\ Range(Rungs[m]) \subseteq Range(items)
  <2>1. <<>> \in Seq(Item) OBVIOUS
  <2> QED BY <1>11, <1>12, <1>13, <1>14, <1>15, <1>20, <2>1
<1>22. RawItems \subseteq OnChain \cup Range(Rungs[m])
  <2>1. SUFFICES ASSUME ~(RawItems \subseteq OnChain) PROVE RawItems \subseteq Range(Rungs[m])
    OBVIOUS
  <2>2. RawItems \cap OnChain = {} /\ RawItems # Range(items) /\ RawItems # {}
    BY <2>1 DEF Block
  <2>3. raw # <<>> /\ Len(raw) \in Nat BY <1>12, <1>14, <1>15, <2>2
  <2>4. Minable(raw)
    <3>1. TotalWeight(raw) = Len(raw)
      <4>1. \A k \in 1 .. Len(raw) : raw[k].raw
        <5>1. \A k \in 1 .. Len(raw) : raw[k] \in Range(raw) BY <1>12 DEF Range
        <5> QED BY <5>1, <1>8, <1>9, <1>14
      <4> QED BY <1>1, <1>12, <4>1, WeightRaw
    <3>2. Len(raw) <= n BY <1>12 DEF IsKept
    <3>3. n <= TotalWeight(items) BY <1>1, WeightAtLeast
    <3>4. TotalWeight(items) \in Nat BY <1>1, WeightNat
    <3>5. TotalWeight(raw) <= Budget BY <1>1, <2>3, <3>1, <3>2, <3>3, <3>4
    <3> QED BY <1>12, <1>14, <2>2, <3>5, RawMinable
  <2>5. CASE b
    <3>1. PICK j \in DOMAIN Rungs :
            Rungs[j] = raw /\ \A k \in DOMAIN Rungs : k < j => Rungs[k] = filtered
      BY <1>17, <2>5
    <3>2. m <= j BY <1>19, <2>4, <3>1
    <3>3. m = j \/ m < j BY <1>17, <1>20, <3>1, <3>2
    <3>4. Rungs[m] = raw \/ Rungs[m] = filtered BY <1>20, <3>1, <3>3
    <3> QED BY <1>14, <1>15, <3>4
  <2>6. CASE ~b
    <3>1. /\ Len(filtered) = Cardinality(Pf) /\ Len(raw) = Cardinality(Pr)
          /\ Len(filtered) \in Nat /\ Len(filtered) <= n
          /\ Len(filtered) = n => Pf = 1 .. n
      BY <1>11, <1>12 DEF IsKept
    <3>2. Len(filtered) <= Len(raw) BY <2>3, <2>6, <3>1 DEF b
    <3>3. Pr = Pf
      <4>1. IsFiniteSet(1 .. n)
        <5>1. 1 \in Int /\ n \in Int BY <1>1
        <5> QED BY <5>1, FS_Interval
      <4>2. IsFiniteSet(Pf) BY <1>2, <4>1, FS_Subset
      <4>3. Cardinality(Pr) <= Cardinality(Pf) /\ (Cardinality(Pr) = Cardinality(Pf) => Pr = Pf)
        BY <1>2, <4>2, FS_Subset
      <4> QED BY <2>3, <3>1, <3>2, <4>3
    <3>4. Pf # 1 .. n BY <1>7, <1>8, <2>2, <3>3
    <3>5. Len(filtered) < n BY <1>1, <3>1, <3>4
    <3>6. filtered = raw BY <1>3, <1>4, <3>3
    <3>7. a BY <2>3, <3>5, <3>6 DEF a
    <3>8. Rungs[1] = raw /\ 1 \in K BY <1>17, <2>4, <3>6, <3>7
    <3>9. m <= 1 BY <1>19, <3>8
    <3>10. m = 1 BY <1>17, <1>20, <3>9
    <3> QED BY <1>14, <3>8, <3>10
  <2> QED BY <2>5, <2>6
<1> QED BY <1>21, <1>22 DEF m

\* So does the ladder.
LEMMA SalvageKeeps ==
  ASSUME BlocksInv, Salvage
  PROVE  BlocksInv'
<1> USE DEF BlocksInv
<1> DEFINE list == Rungs[Min({k \in DOMAIN Rungs : Minable(Rungs[k])})]
<1>1. /\ pc = "ladder" /\ Connect(list)
      /\ items' = <<>> /\ index' = index + 1 /\ pc' = "select"
      /\ UNCHANGED <<parents, weight, wallet, pct, replacements, excluded, injected, pending, failures>>
  BY DEF Salvage, NextBlock, given
<1>2. /\ list \in Seq(Item) /\ Range(list) \subseteq Range(items)
      /\ RawItems \subseteq OnChain \cup Range(list)
  BY <1>1, SalvageRung
<1> HIDE DEF list
<1>3. /\ MaxFailures \in Nat /\ failures \in 0 .. MaxFailures /\ ReorgDepth \in Nat /\ index \in 0 .. ReorgDepth + 1
      /\ Len(chain) \in index .. index + failures /\ Len(chain) \in Nat
      /\ mempool \subseteq Tx /\ index <= ReorgDepth
  BY <1>1 DEF BlockTypes, ReplacementConstants, Block
<1>4. /\ PlanKept' /\ ClosedPool' /\ mempool' \subseteq mempool
      /\ chain' \in Seq(Seq(Item)) /\ Len(chain') = Len(chain) + 1 /\ Last(chain') = list
      /\ OnChain' = OnChain \cup Range(list) /\ items' \in Seq(Item)
  BY <1>1, <1>2, ConnectKeeps
<1>5. BlockTypes'
  <2>1. ParentsType' /\ WeightType' BY <1>1, TypesUnchanged DEF BlockTypes
  <2>2. Len(chain') \in index' .. index' + failures' /\ index' \in 0 .. ReorgDepth + 1
    BY <1>1, <1>3, <1>4
  <2>3. mempool' \subseteq Tx BY <1>3, <1>4
  <2> QED BY <1>1, <1>4, <2>1, <2>2, <2>3 DEF BlockTypes, ReplacementConstants
<1>6. Beginning' BY <1>1 DEF Beginning
<1>7. NoneLost'
  <2>1. SUFFICES ASSUME NEW t \in Range(replacements)
                 PROVE  t \in Range(pending) \/ Raw(t) \in OnChain'
    BY <1>1 DEF NoneLost
  <2>2. Raw(t) \in Range(items) => Raw(t) \in RawItems BY MempoolIs DEF RawItems
  <2> QED BY <1>2, <1>4, <2>1, <2>2 DEF NoneLost
<1>8. Block' BY <1>1 DEF Block
<1>9. LastFull'
  <2>1. Entangled' = Entangled BY <1>1, EntangledUnchanged
  <2> QED BY <1>1, <2>1 DEF LastFull
<1> QED BY <1>4, <1>5, <1>6, <1>7, <1>8, <1>9

(***************************************************************************)
(* The theorems.                                                           *)
(***************************************************************************)
\* Every step keeps the invariant.
LEMMA BlocksInvStep ==
  ASSUME BlocksInv, [BlocksNext]_blocksVars
  PROVE  BlocksInv'
<1>1. CASE UNCHANGED blocksVars
  <2>1. UNCHANGED <<parents, weight, wallet, pct, mempool, chain, replacements, excluded,
                    injected, pending, index, items, seen, pc, failures>>
    BY <1>1 DEF blocksVars
  <2>2. ParentsType' /\ WeightType' BY <2>1, TypesUnchanged DEF BlocksInv, BlockTypes
  <2>3. BlockTypes' BY <2>1, <2>2 DEF BlocksInv, BlockTypes, ReplacementConstants
  <2>4. PlanKept' /\ NoneLost' BY <2>1, PlanUnchanged DEF BlocksInv
  <2>5. Beginning' /\ ClosedPool' BY <2>1, OnChainUnchanged DEF BlocksInv, Beginning, ClosedPool
  <2>6. OnChain' = OnChain /\ RawItems' = RawItems BY <2>1, OnChainUnchanged DEF RawItems
  <2>7. \A list : TotalWeight(list)' = TotalWeight(list) BY <2>1, WeightUnchanged
  <2>8. \A list : Minable(list)' = Minable(list) BY <2>1, MinableUnchanged
  <2>9. LastSelected' = LastSelected /\ Full' = Full BY <2>1, <2>7 DEF LastSelected, Full
  <2>10. Overtaken' = Overtaken /\ Entangled' = Entangled
    BY <2>1, AncestorsUnchanged DEF Overtaken, Entangled
  <2>11. PackedIsMinable' = PackedIsMinable /\ EveryBlockMakesProgress' = EveryBlockMakesProgress
    BY <2>1, <2>8, <2>10 DEF PackedIsMinable, EveryBlockMakesProgress
  <2>12. TotalWeight(items)' = TotalWeight(items) BY <2>1, <2>7
  <2>13. Block' BY <2>1, <2>6, <2>9, <2>11, <2>12 DEF BlocksInv, Block
  <2>14. LastFull' BY <2>1, <2>9, <2>10 DEF BlocksInv, LastFull
  <2> QED BY <2>3, <2>4, <2>5, <2>13, <2>14 DEF BlocksInv
<1>2. CASE BuildPlan BY <1>2, BuildPlanKeeps
<1>3. CASE InjectTransaction BY <1>3, InjectTransactionKeeps
<1>4. CASE EndInjection BY <1>4, EndInjectionKeeps
<1>5. CASE Select BY <1>5, SelectKeeps
<1>6. CASE MineExact BY <1>6, MineExactKeeps
<1>7. CASE Salvage BY <1>7, SalvageKeeps
<1>8. CASE VerifyNewTransactions BY <1>8, VerifyKeeps
<1>9. CASE Evict BY <1>9, EvictKeeps
<1> QED BY <1>1, <1>2, <1>3, <1>4, <1>5, <1>6, <1>7, <1>8, <1>9 DEF BlocksNext

\* The inductive invariant holds.
THEOREM BlocksInvHolds ==
  BlocksSpec => []BlocksInv
<1>1. BlocksInit => BlocksInv BY BlocksInvInit, ReplacementAssumption
<1>2. BlocksInv /\ [BlocksNext]_blocksVars => BlocksInv' BY BlocksInvStep
<1> QED BY <1>1, <1>2, PTL DEF BlocksSpec

\* Types and the number of blocks; the list handed to generateblock is one it
\* takes unless the mempool changed or a child of an excluded transaction got
\* in; transactions are left over only if the last block is full; a conflict
\* given to a block is mined in it.
THEOREM ReplacementInvariantHolds ==
  BlocksSpec => []ReplacementInvariant
<1>1. BlocksInv => ReplacementInvariant BY BlocksInvImplies
<1> QED BY <1>1, BlocksInvHolds, PTL

\* While anything is left to mine, every replacement block is given at least
\* one transaction.
THEOREM BlocksProgress ==
  BlocksSpec => []EveryBlockMakesProgress
<1>1. BlocksInv => EveryBlockMakesProgress BY BlocksInvImplies
<1> QED BY <1>1, BlocksInvHolds, PTL
=============================================================================
