------------------------------ MODULE PauseGate ------------------------------
(***************************************************************************)
(* What a worker's pause control promises its clients, free of threads,    *)
(* phases and clocks.  Clients hold leases (a job's pause) or the manual   *)
(* pause; the worker is busy while it works on the chain.  A pause is      *)
(* granted only to a worker at rest, and only an ungated worker starts.    *)
(***************************************************************************)
CONSTANT Leases

VARIABLES
  held,    \* the leases that were acknowledged and have not lapsed
  manual,  \* the manual pause was acknowledged and not withdrawn
  busy     \* the worker has work outstanding

gate == <<held, manual, busy>>

Init == held = {} /\ manual = FALSE /\ busy = FALSE

Grant(l) ==
  /\ ~busy
  /\ held' = held \cup {l}
  /\ UNCHANGED <<manual, busy>>

GrantManual ==
  /\ ~busy
  /\ manual' = TRUE
  /\ UNCHANGED <<held, busy>>

\* Release of one lease, or expiry of any number of them.
Lapse ==
  /\ held' \subseteq held
  /\ UNCHANGED <<manual, busy>>

WithdrawManual ==
  /\ manual' = FALSE
  /\ UNCHANGED <<held, busy>>

Begin ==
  /\ held = {} /\ ~manual
  /\ busy' = TRUE
  /\ UNCHANGED <<held, manual>>

End ==
  /\ busy' = FALSE
  /\ UNCHANGED <<held, manual>>

\* A new worker process knows of no pause and has no work.
Restart ==
  /\ held' = {} /\ manual' = FALSE /\ busy' = FALSE

Next ==
  \/ \E l \in Leases : Grant(l)
  \/ GrantManual \/ Lapse \/ WithdrawManual \/ Begin \/ End \/ Restart

Spec == Init /\ [][Next]_gate

=============================================================================
