--------------------------- MODULE MCNetworkAgent ---------------------------
(***************************************************************************)
(* Values of the constants of NetworkAgent for TLC.                        *)
(***************************************************************************)
EXTENDS NetworkAgent

Acquire(rid, id, owner, impairment, ttl) ==
  [rid |-> rid, op |-> "acquire", id |-> id, owner |-> owner,
   impairment |-> impairment, ttl |-> ttl]
Renewal(rid, id, ttl) == [rid |-> rid, op |-> "renew", id |-> id, ttl |-> ttl]
ReleaseOf(rid, id) == [rid |-> rid, op |-> "release", id |-> id]

\* Two jobs on one node: a partition and a degradation, a second owner for
\* the first lease, and a request identifier used twice.
TwoJobs ==
  { Acquire("a1", "l1", "jobA", "partition", 2),
    Acquire("a2", "l2", "jobB", "netem", 1),
    Acquire("a3", "l1", "jobB", "partition", 1),
    Acquire("a4", "l1", "jobA", "partition", 1),
    Renewal("n1", "l1", 2), Renewal("n1", "l2", 1),
    ReleaseOf("r1", "l1"), ReleaseOf("r2", "l2") }

=============================================================================
