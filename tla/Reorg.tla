-------------------------------- MODULE Reorg --------------------------------
(***************************************************************************)
(* The reorganisation: one miner invalidates block 1, mines Depth + 1      *)
(* blocks in its place and more until node1 has adopted them.  An error    *)
(* once the miner may have been changed leads to a recovery that repeats   *)
(* until miner and node1 agree; a restart recovers with what was saved,    *)
(* and can do nothing but compare if that is not the block.                *)
(***************************************************************************)
EXTENDS ChainNodes

CONSTANT MaxExtra   \* further blocks to win the race: 10 in the code

ASSUME ExtraConstant == MaxExtra \in Nat

Target == "node2"   \* node3 behaves alike

Mining(i) == <<"mine", i>>
Racing(i) == <<"race", i>>
Extending(i) == <<"extend", i>>

Adopted == active[Target] = active["node1"]

\* Inspection and the wait for a new timestamp, in which an abort is free.
PrepareReorg ==
  /\ at = Step("idle")
  /\ \/ Go(Step("prepared")) /\ NoFault
     \/ Go(Step("fail")) /\ Fault
  /\ UNCHANGED <<nodeVars, outcome, context, saved, leased, abort, foreign>>

\* The observer's save of the block is only logged when it fails.
AnnounceInvalidation ==
  /\ at = Step("prepared")
  /\ IF abort THEN Go(Step("aborted")) /\ NoFault /\ UNCHANGED <<context, saved>>
     ELSE Persist("prepared", Step("mutate"), Step("mutate"))
  /\ UNCHANGED <<nodeVars, outcome, leased, abort, foreign>>

InvalidateTarget ==
  /\ at = Step("mutate")
  /\ Call(invalidateblock(Target), Mining(1), Step("recover"))
  /\ UNCHANGED <<outcome, context, saved, leased, abort, foreign>>

\* An abort is only noted from here on.
MineReplacement(i) ==
  /\ at = Mining(i)
  /\ Call(generateblock(Target),
          IF i = Depth + 1 THEN Racing(0) ELSE Mining(i + 1), Step("recover"))
  /\ UNCHANGED <<outcome, context, saved, leased, abort, foreign>>

\* Mutant of NetworkAdopts: the replacement counts as adopted when it is the
\* longer one.
LongerIsAdopted == Len(active[Target]) > Len(active["node1"]) \/ Adopted

NetworkAdopts == Adopted

\* Three seconds are enough for blocks to reach node1, or this is a fault.
WaitedFor(effect, next) ==
  IF Unheard(Target, "node1")
  THEN effect /\ Go(next) /\ Fault
  ELSE Call(effect, next, Step("recover"))

\* ensure_network_adopts: the witness agrees, or one more block, or an error.
Race(i) ==
  /\ at = Racing(i)
  /\ \/ NetworkAdopts /\ Go(Step("verify")) /\ NoFault /\ UNCHANGED nodeVars
     \/ /\ ~NetworkAdopts /\ i < MaxExtra
        /\ WaitedFor(generateblock(Target), Racing(i + 1))
     \/ /\ ~NetworkAdopts /\ i = MaxExtra /\ ~Unheard(Target, "node1")
        /\ Go(Step("recover")) /\ NoFault /\ UNCHANGED nodeVars
     \/ Go(Step("recover")) /\ Fault /\ UNCHANGED nodeVars
  /\ UNCHANGED <<outcome, context, saved, leased, abort, foreign>>

\* verify_new_transaction_requirement fails the job after the fact.
VerifyTransactions ==
  /\ at = Step("verify")
  /\ \/ Go(IF abort THEN Step("aborted") ELSE Step("succeed")) /\ NoFault
     \/ Go(Step("recover")) /\ Fault
  /\ UNCHANGED <<nodeVars, outcome, context, saved, leased, abort, foreign>>

-----------------------------------------------------------------------------
\* recover: in the executor until it succeeds, and in the job's recovery.

AfterRecovery == IF outcome = "none" THEN Step("fail") ELSE Step("release")

\* Mutant of RecoverReorg: the block stays invalid on the miner.
RecoverWithoutReconsider ==
  /\ at = Step("recover")
  /\ \/ Adopted /\ Go(AfterRecovery)
     \/ ~Adopted /\ context = "prepared" /\ Go(Extending(0))
  /\ NoFault
  /\ UNCHANGED <<nodeVars, outcome, context, saved, leased, abort, foreign>>

RecoverReorg ==
  /\ at = Step("recover")
  /\ \/ Adopted /\ Go(AfterRecovery) /\ NoFault /\ UNCHANGED nodeVars
     \/ /\ ~Adopted /\ context = "prepared"
        /\ Call(reconsiderblock(Target), Extending(0), Step("recover"))
  /\ UNCHANGED <<outcome, context, saved, leased, abort, foreign>>

\* The miner's blocks are not behind node1's: one more, up to MaxExtra.
Extend(i) ==
  /\ at = Extending(i)
  /\ IF Adopted THEN Go(AfterRecovery) /\ NoFault /\ UNCHANGED nodeVars
     ELSE IF i = MaxExtra THEN Go(Step("recover")) /\ NoFault /\ UNCHANGED nodeVars
     ELSE IF Len(active[Target]) >= Len(active["node1"])
          THEN WaitedFor(generateblock(Target), Extending(i + 1))
          ELSE Go(Extending(i + 1)) /\ NoFault /\ UNCHANGED nodeVars
  /\ UNCHANGED <<outcome, context, saved, leased, abort, foreign>>

ReorgStep ==
  \/ PrepareReorg \/ AnnounceInvalidation \/ InvalidateTarget
  \/ \E i \in 1..Depth + 1 : MineReplacement(i)
  \/ \E i \in 0..MaxExtra : Race(i) \/ Extend(i)
  \/ VerifyTransactions \/ RecoverReorg
=============================================================================
