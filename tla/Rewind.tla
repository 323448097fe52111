------------------------------- MODULE Rewind -------------------------------
(***************************************************************************)
(* The coordinated rewind: block 1 is invalidated on node2, node3 and      *)
(* node1, one after the other, each time verified and saved.  Whatever     *)
(* fails, or an abort, reconsiders it on all three.  A restart recovers    *)
(* from the saved context: a rewind that is complete stays, any other is   *)
(* undone.                                                                 *)
(***************************************************************************)
EXTENDS ChainNodes

InvalidationOrder == <<"node2", "node3", "node1">>
RestoreOrder == <<"node1", "node2", "node3">>

Invalidating(i) == <<"invalidate", i>>
Verifying(i) == <<"verify", i>>
Restoring(i) == <<"restore", i>>

\* common_tip, and the context that names target, boundary and original tip.
PrepareRewind ==
  /\ at = Step("idle") /\ CommonTip
  /\ Persist("prepared", Step("prepared"), Step("fail"))
  /\ UNCHANGED <<nodeVars, outcome, leased, abort, foreign>>

\* An abort before the first mutation has nothing to undo.
BeginInvalidation ==
  /\ at = Step("prepared")
  /\ IF abort THEN Persist("resolved", Step("aborted"), Step("fail"))
     ELSE Go(Invalidating(1)) /\ NoFault /\ UNCHANGED <<context, saved>>
  /\ UNCHANGED <<nodeVars, outcome, leased, abort, foreign>>

\* Between the nodes, and once more after the last, the job looks for an
\* abort.
Invalidate(i) ==
  /\ at = Invalidating(i) /\ i <= 3
  /\ IF abort THEN Go(Restoring(1)) /\ NoFault /\ UNCHANGED nodeVars
     ELSE Call(invalidateblock(InvalidationOrder[i]), Verifying(i), Restoring(1))
  /\ UNCHANGED <<outcome, context, saved, leased, abort, foreign>>

VerifyInvalidated(i) ==
  /\ at = Verifying(i)
  /\ IF active[InvalidationOrder[i]] = <<>>
     THEN Persist(context, Invalidating(i + 1), Restoring(1))
     ELSE Go(Restoring(1)) /\ NoFault /\ UNCHANGED <<context, saved>>
  /\ UNCHANGED <<nodeVars, outcome, leased, abort, foreign>>

\* wait_for_exact_tip; the wait is finite.
WaitForExactTip ==
  /\ at = Invalidating(4)
  /\ \/ ~abort /\ TipsEqual(<<>>) /\ Go(Step("resolve")) /\ NoFault
     \/ (abort \/ ~TipsEqual(<<>>)) /\ Go(Restoring(1)) /\ NoFault
     \/ Go(Restoring(1)) /\ Fault
  /\ UNCHANGED <<nodeVars, outcome, context, saved, leased, abort, foreign>>

\* The context is resolved.  A save that fails here, or a node that does not
\* answer the closing questions, fails a job whose rewind stands.
ResolveRewind ==
  /\ at = Step("resolve")
  /\ \/ Persist("resolved", Step("succeed"), Step("fail"))
     \/ context' = "resolved" /\ saved' = "resolved" /\ Go(Step("fail")) /\ Fault
  /\ UNCHANGED <<nodeVars, outcome, leased, abort, foreign>>

\* rollback_once.  An error starts it over, in the loop of
\* rollback_until_safe or in the recovery's next round.
Restore(i) ==
  /\ at = Restoring(i) /\ i <= 3
  /\ \/ reconsiderblock(RestoreOrder[i]) /\ Persist(context, Restoring(i + 1),
                                                    Restoring(1))
     \/ UNCHANGED <<nodeVars, context, saved>> /\ Go(Restoring(1)) /\ Fault
  /\ UNCHANGED <<outcome, leased, abort, foreign>>

WaitForOriginal ==
  /\ at = Restoring(4)
  /\ IF CommonChainContains(Original)
     THEN Persist("resolved", IF outcome # "none" THEN Step("release")
                              ELSE IF abort THEN Step("aborted") ELSE Step("fail"),
                  Restoring(1))
     ELSE Go(Restoring(1)) /\ NoFault /\ UNCHANGED <<context, saved>>
  /\ UNCHANGED <<nodeVars, outcome, leased, abort, foreign>>

-----------------------------------------------------------------------------
\* recover, after ensure_recovery_leases.

\* Mutant of CompletedRewindIsSafe: one node alone is asked.
Node2Rewound == ~GoesThrough(active["node2"], Original)

\* completed_rewind_is_safe: the nodes agree on a chain without the original
\* tip.
CompletedRewindIsSafe ==
  \/ TipsEqual(<<>>)
  \/ CommonTip /\ ~CommonChainContains(Original)

RecoverRewind ==
  /\ at = Step("recover")
  /\ IF context = "none"
     THEN Go(Step("release")) /\ NoFault /\ UNCHANGED <<context, saved>>
     ELSE IF CompletedRewindIsSafe
          THEN Persist("resolved", Step("release"), Step("recover"))
     ELSE Go(Restoring(1)) /\ NoFault /\ UNCHANGED <<context, saved>>
  /\ UNCHANGED <<nodeVars, outcome, leased, abort, foreign>>

RewindStep ==
  \/ PrepareRewind \/ BeginInvalidation \/ WaitForExactTip \/ ResolveRewind
  \/ \E i \in 1..3 : Invalidate(i) \/ VerifyInvalidated(i) \/ Restore(i)
  \/ WaitForOriginal \/ RecoverRewind
=============================================================================
