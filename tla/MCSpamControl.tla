--------------------------- MODULE MCSpamControl ---------------------------
(***************************************************************************)
(* Values of the constants of SpamControl for TLC.                         *)
(***************************************************************************)
EXTENDS SpamControl

On(load) == [enabled |-> TRUE, load |-> load]
Off(load) == [enabled |-> FALSE, load |-> load]

MCInitialPolicy == On(1)

\* The control plane leaves the policy alone.
NoPolicyRequests == {}

\* Spam switched off, on again with a higher load, and the rollback of either.
MCPolicyRequests ==
  { [generation |-> 2, policy |-> On(2), rollback |-> FALSE],
    [generation |-> 1, policy |-> Off(1), rollback |-> FALSE],
    [generation |-> 0, policy |-> On(1), rollback |-> TRUE] }

=============================================================================
