----------------------------- MODULE ChainJobs -----------------------------
(***************************************************************************)
(* A rewind or a reorg job over the three nodes, from its leases on: its   *)
(* end, a cleanup that fails, the end of the control plane, and recovery.  *)
(***************************************************************************)
EXTENDS Rewind, Reorg

VARIABLE kind   \* "rewind" or "reorg"

allVars == <<vars, kind>>

ExecutorStep == IF kind = "rewind" THEN RewindStep ELSE ReorgStep

Ending == [succeed |-> "succeeded", fail |-> "failed", aborted |-> "aborted"]

\* cleanup_leases and finish_job: the job ends, or its lane stays for
\* recovery.  Mining may have been released before spam's release failed.
FinishJob ==
  /\ at[1] \in DOMAIN Ending
  /\ outcome' = Ending[at[1]]
  /\ \/ leased' = FALSE /\ Go(Step("end")) /\ NoFault
     \/ leased' \in BOOLEAN /\ Go(Step("lease")) /\ Fault
  /\ UNCHANGED <<nodeVars, context, saved, abort, foreign>>

\* The control plane ends; a job that had not ended is interrupted.
Restart ==
  /\ at \notin {Step("idle"), Step("end")} /\ Fault
  /\ context' = saved
  /\ outcome' = IF outcome = "none" THEN "interrupted" ELSE outcome
  /\ abort' = FALSE
  /\ Go(Step("lease"))
  /\ UNCHANGED <<nodeVars, saved, leased, foreign>>

\* ensure_recovery_leases, unless there is nothing to recover.
EnsureRecoveryLeases ==
  /\ at = Step("lease")
  /\ leased' = IF kind = "rewind" /\ context = "none" THEN leased ELSE TRUE
  /\ Go(Step("recover"))
  /\ NoFault
  /\ UNCHANGED <<nodeVars, outcome, context, saved, abort, foreign>>

\* recover_worker_leases, and the lane is free.
ReleaseLeases ==
  /\ at = Step("release")
  /\ leased' = FALSE
  /\ Go(Step("end"))
  /\ NoFault
  /\ UNCHANGED <<nodeVars, outcome, context, saved, abort, foreign>>

JobStep == ExecutorStep \/ FinishJob \/ EnsureRecoveryLeases \/ ReleaseLeases

Init == NodesInit /\ kind \in {"rewind", "reorg"}

Next ==
  /\ \/ JobStep \/ Restart \/ RequestAbort \/ LoseLeases
     \/ \E n, m \in NodeNames : Relay(n, m)
     \/ \E m \in Miners : MineForeign(m)
  /\ UNCHANGED kind

Spec == Init /\ [][Next]_allVars

\* The job's thread goes on and blocks reach every node.
Fairness ==
  /\ WF_allVars(JobStep /\ UNCHANGED kind)
  /\ \A n, m \in NodeNames : WF_allVars(Relay(n, m) /\ UNCHANGED kind)

FairSpec == Spec /\ Fairness

-----------------------------------------------------------------------------
Places ==
  {Step(p) : p \in {"idle", "prepared", "resolve", "recover", "mutate", "verify",
                    "succeed", "fail", "aborted", "lease", "release", "end"}}
    \cup {Invalidating(i) : i \in 1..4} \cup {Verifying(i) : i \in 1..3}
    \cup {Restoring(i) : i \in 1..4} \cup {Mining(i) : i \in 1..Depth + 1}
    \cup {Racing(i) : i \in 0..MaxExtra} \cup {Extending(i) : i \in 0..MaxExtra}

\* Types of the job, and no node is on a chain it does not know or rejects.
TypeOK ==
  /\ at \in Places
  /\ outcome \in {"none", "succeeded", "failed", "aborted", "interrupted"}
  /\ {context, saved} \subseteq {"none", "prepared", "resolved"}
  /\ \A n \in NodeNames :
       /\ active[n] \in known[n] \cup {<<>>}
       /\ n \in bad => ~Rejected(active[n])
  /\ foreign \in 0..MaxForeign /\ faults \in 0..MaxFaults

\* When a chain job gives its leases back the nodes agree: all three after a
\* rewind, the miner and node1 after a reorg, through failed calls, lost
\* answers and saves, aborts and restarts, unless the miners had worked on a
\* half-changed chain themselves.
ConvergedAtEnd ==
  at = Step("end") /\ foreign = 0 =>
    IF kind = "rewind" THEN CommonTip ELSE Adopted

\* A rewind is never reported, or given up, on some nodes only.
RewindIsAllOrNothing ==
  [][kind = "rewind" /\ at # Step("end") /\ at' = Step("end") =>
       \/ \A n \in NodeNames : GoesThrough(active'[n], Original)
       \/ \A n \in NodeNames : ~GoesThrough(active'[n], Original)]_allVars

\* An abort that is reported left the chain of node1 as it was, or, of a
\* reorg too far gone, took the whole branch away.
AbortIsSafe ==
  outcome = "aborted" /\ at = Step("end") /\ foreign = 0 =>
    \/ GoesThrough(active["node1"], Original)
    \/ kind = "reorg" /\ ~Rejected(active["node1"])

\* What a chain job leaves behind: agreement, and nothing of an aborted one.
ChainInvariant == TypeOK /\ ConvergedAtEnd /\ AbortIsSafe

\* A reorg that was interrupted before its block was saved.
BlockUnknown == kind = "reorg" /\ context = "none" /\ at = Step("recover")

\* Every chain job ends once failures stop and the miners are held.
EveryChainJobEnds == at # Step("idle") ~> (at = Step("end") \/ BlockUnknown)

\* Does not hold (see README, Disagreements).
\* "persists enough information before the first mutation to either preserve
\* a completed rewind or restore the original branch" (rewind_job.rs): a
\* rewind that was reported as done is not undone by the recovery of its
\* leases.
CompletedRewindPreserved ==
  kind = "rewind" /\ outcome = "succeeded" =>
    \A n \in NodeNames : ~GoesThrough(active[n], Original)
=============================================================================
