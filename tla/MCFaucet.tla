------------------------------ MODULE MCFaucet ------------------------------
(***************************************************************************)
(* Small instances of Faucet for TLC.                                      *)
(***************************************************************************)
EXTENDS Faucet

\* node2 is richer in total; node3 can only pay with both of its coins; and
\* two pairs in which no payment leaves the reserve: too little, and one
\* coin that holds it all.
MCFunds == {[node2 |-> <<5, 3, 1>>, node3 |-> <<4, 4>>],
            [node2 |-> <<2, 2>>, node3 |-> <<6, 3>>],
            [node2 |-> <<3, 1>>, node3 |-> <<2>>],
            [node2 |-> <<7>>, node3 |-> <<1>>]}
=============================================================================
