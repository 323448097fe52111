--------------------------- MODULE MCConfigApply ---------------------------
(***************************************************************************)
(* Values of the constants of ConfigApply for TLC.                         *)
(***************************************************************************)
EXTENDS ConfigApply

Configuration(mining, spam) == [w \in Workers |-> IF w = "mining" THEN mining ELSE spam]

\* From the boot policies, one worker's changes or both do.
MixedConfigurations == {Configuration("a", "b"), Configuration("b", "b")}

=============================================================================
