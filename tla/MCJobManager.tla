---------------------------- MODULE MCJobManager ----------------------------
(***************************************************************************)
(* Instances of JobManager: which requests clients make is what tells the  *)
(* runs apart.                                                             *)
(***************************************************************************)
EXTENDS JobManager, TLC

CONSTANTS j1, j2, j3, n1

JobSymmetry == Permutations(Jobs)

Request(kind, n) == [kind |-> kind, node |-> n]

\* Every kind of job, the network ones on one node.
AllRequests == {Request(k, n1) : k \in Kinds}
=============================================================================
