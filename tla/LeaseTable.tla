----------------------------- MODULE LeaseTable -----------------------------
(***************************************************************************)
(* The table of pause leases, HashMap<String, LeaseEntry>, that the mining *)
(* and the spam worker keep in the same way.  A lease is a record with its *)
(* owner and the time left until its deadline: "deadline > now" is         *)
(* "left > 0", and ageing every entry is the passage of time.              *)
(***************************************************************************)
EXTENDS Naturals

EmptyTable == [l \in {} |-> l]

ExpireLeases(table) ==
  [l \in {m \in DOMAIN table : table[m].left > 0} |-> table[l]]

Insert(table, id, lease) ==
  [l \in DOMAIN table \cup {id} |-> IF l = id THEN lease ELSE table[l]]

Remove(table, id) == [l \in DOMAIN table \ {id} |-> table[l]]

\* Mutant of PauseRequested: the manual pause is forgotten.
PauseRequestedByLease(state, table) == DOMAIN table # {}

PauseRequested(state, table) == state = "paused" \/ DOMAIN table # {}

\* Mutant of RestoredTable: a timed-out acquire leaves its entry behind.
NoRollback(table, a) == table

\* rollback_unacquired_lease before its expiry: undo the insertion of the
\* acquire call a unless the entry has changed since.
RestoredTable(table, a) ==
  IF a.id \in DOMAIN table /\ table[a.id] = a.lease
  THEN IF a.previous = {}
       THEN Remove(table, a.id)
       ELSE Insert(table, a.id, CHOOSE p \in a.previous : TRUE)
  ELSE table

\* The expiry that follows happens only when something was restored.
RollbackTable(table, a) ==
  IF a.id \in DOMAIN table /\ table[a.id] = a.lease
  THEN ExpireLeases(RestoredTable(table, a))
  ELSE table

Less(n) == IF n = 0 THEN 0 ELSE n - 1

\* Mutant of Aged: the remaining time does not saturate.
AgedBelowZero(lease) == [lease EXCEPT !.left = @ - 1]

Aged(lease) == [lease EXCEPT !.left = Less(@)]

=============================================================================
