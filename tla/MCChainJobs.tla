---------------------------- MODULE MCChainJobs ----------------------------
(***************************************************************************)
(* Small instances of ChainJobs for TLC.                                   *)
(***************************************************************************)
EXTENDS ChainJobs
=============================================================================
