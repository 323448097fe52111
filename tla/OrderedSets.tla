---------------------------- MODULE OrderedSets ----------------------------
(***************************************************************************)
(* Finite sets as sequences, for the modules that follow the order of a    *)
(* vector the code sorts.                                                  *)
(***************************************************************************)
EXTENDS Naturals, Sequences, FiniteSets

\* The elements of S, least first in a strict order.
InOrder(S, before(_, _)) ==
    [k \in 1 .. Cardinality(S) |->
        CHOOSE x \in S : Cardinality({y \in S : before(y, x)}) = k - 1]

\* Numbers, smallest first.
Ascending(S) == InOrder(S, LAMBDA i, j : i < j)

\* The elements of a sequence that pass a test, in their order: SelectSeq, by
\* the positions it keeps.
Kept(seq, test(_)) ==
    LET at == Ascending({k \in DOMAIN seq : test(seq[k])})
    IN  [n \in DOMAIN at |-> seq[at[n]]]

MinOf(a, b) == IF a <= b THEN a ELSE b
MaxOf(a, b) == IF a >= b THEN a ELSE b
CeilDiv(a, b) == (a + b - 1) \div b
=============================================================================
