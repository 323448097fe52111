--------------------------- MODULE ScenarioProofs ---------------------------
(***************************************************************************)
(* Theorems about scenario jobs, for every set of scripts and every number *)
(* of failures.                                                            *)
(***************************************************************************)
EXTENDS Scenario, TLAPS

(***************************************************************************)
(* The programs of the steps.                                              *)
(***************************************************************************)
\* Where a step of this type may be after one of its operations has failed.
Late(type) ==
  CASE type = "reorg" -> {"settle", "mark_safe", "free_spam", "free_mining"}
    [] type = "partition" -> {"free_mining"}
    [] type = "degrade" -> {"heal", "forget"}
    [] type = "faucet" -> {"free_mining", "confirm"}
    [] OTHER -> {}

\* The workers a step of this type holds when it is at operation o.
Needs(type, o) ==
  IF type \in {"reorg", "partition"}
  THEN CASE o = "take_mining" -> {"spam"}
         [] o \in {"take_spam", "free_spam", "free_mining"} -> {}
         [] OTHER -> Workers
  ELSE IF o = "mark_paused" THEN {"mining"} ELSE {}

\* The types of step an operation belongs to.
Belongs(type, o) ==
  /\ o \in {"prepare", "mutate", "settle", "mark_safe"} => type = "reorg"
  /\ o \in {"split", "converge"} => type = "partition"
  /\ o \in {"take_spam", "free_spam"} => type \in {"reorg", "partition"}
  /\ o \in {"impair", "heal", "forget"} => type \in {"partition", "degrade"}
  /\ o = "mark_paused" => type = "pause_mining"
  /\ o = "mark_resumed" => type = "resume_mining"
  /\ o = "take_mining" => type \in {"pause_mining", "reorg", "partition", "faucet"}
  /\ o = "free_mining" => type \in {"resume_mining", "reorg", "partition", "faucet"}
  /\ o = "reach" => type \in {"checkpoint", "milestone"}
  /\ o = "hold" => type = "checkpoint"
  /\ o = "transfer" => type = "faucet"
  /\ o = "observe" => type = "degrade"
  /\ type = "pause_mining" => o \in {"take_mining", "mark_paused"}
  /\ type = "resume_mining" => o \in {"free_mining", "mark_resumed"}

\* What a step of this type does after operation o.
Follows(type, o, n) ==
  /\ n # "reach"
  /\ n = "settle" <=> o = "mutate"
  /\ n = "mutate" => o = "prepare"
  /\ n = "converge" => o = "heal"
  /\ o = "split" => n = "heal"
  /\ o = "heal" => n \in {"converge", "forget"}
  /\ o = "heal" /\ type = "partition" => n = "converge"
  /\ n = "mark_paused" => o = "take_mining"
  /\ type \in {"reorg", "partition"} =>
       /\ n # "take_spam"
       /\ n = "take_mining" <=> o = "take_spam"
       /\ o = "free_spam" => n = "free_mining"
       /\ o # "free_mining"
  /\ o \in Tolerated(type) \cup Late(type) => n \in Late(type)

\* What a step of this type begins with.
Opens(type, o) ==
  /\ o \notin {"settle", "mutate", "mark_paused", "mark_resumed", "hold"}
  /\ type \in {"reorg", "partition"} => o = "take_spam"

\* What a step of this type ends with.
Closes(type, o) ==
  /\ type \in {"reorg", "partition"} => o = "free_mining"
  /\ type = "pause_mining" => o = "mark_paused"
  /\ type = "resume_mining" => o = "mark_resumed"
  /\ type = "checkpoint" => o = "hold"

\* The programs, operation by operation.
LEMMA ProgramFacts ==
  ASSUME NEW type \in StepTypes
  PROVE  /\ Len(Program(type)) \in Nat \ {0}
         /\ Opens(type, Program(type)[1])
         /\ Closes(type, Program(type)[Len(Program(type))])
         /\ \A i \in 1 .. Len(Program(type)) : Belongs(type, Program(type)[i])
         /\ \A i \in 1 .. Len(Program(type)) :
              i # Len(Program(type)) =>
                /\ i + 1 \in 1 .. Len(Program(type))
                /\ Follows(type, Program(type)[i], Program(type)[i + 1])
<1> DEFINE p == Program(type)
<1>1. CASE type = "pause_mining"
  <2>1. p = PauseMining
    BY <1>1 DEF Program
  <2>2. Len(p) = 2
    BY <2>1 DEF PauseMining
  <2>3. /\ p[1] = "take_mining" /\ p[2] = "mark_paused"
    BY <2>1 DEF PauseMining
  <2> HIDE DEF p
  <2>4. \A i \in 1 .. Len(p) : Belongs(type, p[i])
    BY <1>1, <2>2, <2>3 DEF Belongs
  <2>5. ASSUME NEW i \in 1 .. Len(p), i # Len(p)
        PROVE  Follows(type, p[i], p[i + 1])
    <3>1. i = 1
      BY <2>2, <2>5
    <3>2. Tolerated(type) \cup Late(type) = {}
      BY <1>1 DEF Tolerated, Late
    <3>3. Late(type) = {}
      BY <1>1 DEF Late
    <3> QED
      BY <1>1, <2>3, <3>1, <3>2, <3>3 DEF Follows
  <2>6. Opens(type, p[1]) /\ Closes(type, p[Len(p)])
    BY <1>1, <2>2, <2>3 DEF Opens, Closes
  <2>7. Len(p) \in Nat \ {0} /\ \A i \in 1 .. Len(p) : i # Len(p) => i + 1 \in 1 .. Len(p)
    BY <2>2
  <2> QED
    BY <2>4, <2>5, <2>6, <2>7 DEF p
<1>2. CASE type = "resume_mining"
  <2>1. p = ResumeMining
    BY <1>2 DEF Program
  <2>2. Len(p) = 2
    BY <2>1 DEF ResumeMining
  <2>3. /\ p[1] = "free_mining" /\ p[2] = "mark_resumed"
    BY <2>1 DEF ResumeMining
  <2> HIDE DEF p
  <2>4. \A i \in 1 .. Len(p) : Belongs(type, p[i])
    BY <1>2, <2>2, <2>3 DEF Belongs
  <2>5. ASSUME NEW i \in 1 .. Len(p), i # Len(p)
        PROVE  Follows(type, p[i], p[i + 1])
    <3>1. i = 1
      BY <2>2, <2>5
    <3>2. Tolerated(type) \cup Late(type) = {}
      BY <1>2 DEF Tolerated, Late
    <3>3. Late(type) = {}
      BY <1>2 DEF Late
    <3> QED
      BY <1>2, <2>3, <3>1, <3>2, <3>3 DEF Follows
  <2>6. Opens(type, p[1]) /\ Closes(type, p[Len(p)])
    BY <1>2, <2>2, <2>3 DEF Opens, Closes
  <2>7. Len(p) \in Nat \ {0} /\ \A i \in 1 .. Len(p) : i # Len(p) => i + 1 \in 1 .. Len(p)
    BY <2>2
  <2> QED
    BY <2>4, <2>5, <2>6, <2>7 DEF p
<1>3. CASE type = "reorg"
  <2>1. p = RunReorg
    BY <1>3 DEF Program
  <2>2. Len(p) = 8
    BY <2>1 DEF RunReorg
  <2>3. /\ p[1] = "take_spam" /\ p[2] = "take_mining" /\ p[3] = "prepare"
        /\ p[4] = "mutate" /\ p[5] = "settle" /\ p[6] = "mark_safe"
        /\ p[7] = "free_spam" /\ p[8] = "free_mining"
    BY <2>1 DEF RunReorg
  <2> HIDE DEF p
  <2>4. \A i \in 1 .. Len(p) : Belongs(type, p[i])
    BY <1>3, <2>2, <2>3 DEF Belongs
  <2>5. ASSUME NEW i \in 1 .. Len(p), i # Len(p)
        PROVE  Follows(type, p[i], p[i + 1])
    <3>1. i = 1 \/ i = 2 \/ i = 3 \/ i = 4 \/ i = 5 \/ i = 6 \/ i = 7
      BY <2>2, <2>5
    <3>2. Tolerated(type) \cup Late(type) = {"settle", "mark_safe", "free_spam", "free_mining"}
      BY <1>3 DEF Tolerated, Late
    <3>3. Late(type) = {"settle", "mark_safe", "free_spam", "free_mining"}
      BY <1>3 DEF Late
    <3> QED
      BY <1>3, <2>3, <3>1, <3>2, <3>3 DEF Follows
  <2>6. Opens(type, p[1]) /\ Closes(type, p[Len(p)])
    BY <1>3, <2>2, <2>3 DEF Opens, Closes
  <2>7. Len(p) \in Nat \ {0} /\ \A i \in 1 .. Len(p) : i # Len(p) => i + 1 \in 1 .. Len(p)
    BY <2>2
  <2> QED
    BY <2>4, <2>5, <2>6, <2>7 DEF p
<1>4. CASE type = "partition"
  <2>1. p = RunPartition
    BY <1>4 DEF Program
  <2>2. Len(p) = 9
    BY <2>1 DEF RunPartition
  <2>3. /\ p[1] = "take_spam" /\ p[2] = "take_mining" /\ p[3] = "impair"
        /\ p[4] = "split" /\ p[5] = "heal" /\ p[6] = "converge"
        /\ p[7] = "forget" /\ p[8] = "free_spam" /\ p[9] = "free_mining"
    BY <2>1 DEF RunPartition
  <2> HIDE DEF p
  <2>4. \A i \in 1 .. Len(p) : Belongs(type, p[i])
    BY <1>4, <2>2, <2>3 DEF Belongs
  <2>5. ASSUME NEW i \in 1 .. Len(p), i # Len(p)
        PROVE  Follows(type, p[i], p[i + 1])
    <3>1. i = 1 \/ i = 2 \/ i = 3 \/ i = 4 \/ i = 5 \/ i = 6 \/ i = 7 \/ i = 8
      BY <2>2, <2>5
    <3>2. Tolerated(type) \cup Late(type) = {"free_spam", "free_mining"}
      BY <1>4 DEF Tolerated, Late
    <3>3. Late(type) = {"free_mining"}
      BY <1>4 DEF Late
    <3> QED
      BY <1>4, <2>3, <3>1, <3>2, <3>3 DEF Follows
  <2>6. Opens(type, p[1]) /\ Closes(type, p[Len(p)])
    BY <1>4, <2>2, <2>3 DEF Opens, Closes
  <2>7. Len(p) \in Nat \ {0} /\ \A i \in 1 .. Len(p) : i # Len(p) => i + 1 \in 1 .. Len(p)
    BY <2>2
  <2> QED
    BY <2>4, <2>5, <2>6, <2>7 DEF p
<1>5. CASE type = "degrade"
  <2>1. p = Degrade
    BY <1>5 DEF Program
  <2>2. Len(p) = 4
    BY <2>1 DEF Degrade
  <2>3. /\ p[1] = "impair" /\ p[2] = "observe" /\ p[3] = "heal"
        /\ p[4] = "forget"
    BY <2>1 DEF Degrade
  <2> HIDE DEF p
  <2>4. \A i \in 1 .. Len(p) : Belongs(type, p[i])
    BY <1>5, <2>2, <2>3 DEF Belongs
  <2>5. ASSUME NEW i \in 1 .. Len(p), i # Len(p)
        PROVE  Follows(type, p[i], p[i + 1])
    <3>1. i = 1 \/ i = 2 \/ i = 3
      BY <2>2, <2>5
    <3>2. Tolerated(type) \cup Late(type) = {"observe", "heal", "forget"}
      BY <1>5 DEF Tolerated, Late
    <3>3. Late(type) = {"heal", "forget"}
      BY <1>5 DEF Late
    <3> QED
      BY <1>5, <2>3, <3>1, <3>2, <3>3 DEF Follows
  <2>6. Opens(type, p[1]) /\ Closes(type, p[Len(p)])
    BY <1>5, <2>2, <2>3 DEF Opens, Closes
  <2>7. Len(p) \in Nat \ {0} /\ \A i \in 1 .. Len(p) : i # Len(p) => i + 1 \in 1 .. Len(p)
    BY <2>2
  <2> QED
    BY <2>4, <2>5, <2>6, <2>7 DEF p
<1>6. CASE type = "faucet"
  <2>1. p = FaucetStep
    BY <1>6 DEF Program
  <2>2. Len(p) = 5
    BY <2>1 DEF FaucetStep
  <2>3. /\ p[1] = "preflight" /\ p[2] = "take_mining" /\ p[3] = "transfer"
        /\ p[4] = "free_mining" /\ p[5] = "confirm"
    BY <2>1 DEF FaucetStep
  <2> HIDE DEF p
  <2>4. \A i \in 1 .. Len(p) : Belongs(type, p[i])
    BY <1>6, <2>2, <2>3 DEF Belongs
  <2>5. ASSUME NEW i \in 1 .. Len(p), i # Len(p)
        PROVE  Follows(type, p[i], p[i + 1])
    <3>1. i = 1 \/ i = 2 \/ i = 3 \/ i = 4
      BY <2>2, <2>5
    <3>2. Tolerated(type) \cup Late(type) = {"transfer", "free_mining", "confirm"}
      BY <1>6 DEF Tolerated, Late
    <3>3. Late(type) = {"free_mining", "confirm"}
      BY <1>6 DEF Late
    <3> QED
      BY <1>6, <2>3, <3>1, <3>2, <3>3 DEF Follows
  <2>6. Opens(type, p[1]) /\ Closes(type, p[Len(p)])
    BY <1>6, <2>2, <2>3 DEF Opens, Closes
  <2>7. Len(p) \in Nat \ {0} /\ \A i \in 1 .. Len(p) : i # Len(p) => i + 1 \in 1 .. Len(p)
    BY <2>2
  <2> QED
    BY <2>4, <2>5, <2>6, <2>7 DEF p
<1>7. CASE type = "set_config"
  <2>1. p = SetConfig
    BY <1>7 DEF Program
  <2>2. Len(p) = 2
    BY <2>1 DEF SetConfig
  <2>3. /\ p[1] = "apply" /\ p[2] = "fund"
    BY <2>1 DEF SetConfig
  <2> HIDE DEF p
  <2>4. \A i \in 1 .. Len(p) : Belongs(type, p[i])
    BY <1>7, <2>2, <2>3 DEF Belongs
  <2>5. ASSUME NEW i \in 1 .. Len(p), i # Len(p)
        PROVE  Follows(type, p[i], p[i + 1])
    <3>1. i = 1
      BY <2>2, <2>5
    <3>2. Tolerated(type) \cup Late(type) = {}
      BY <1>7 DEF Tolerated, Late
    <3>3. Late(type) = {}
      BY <1>7 DEF Late
    <3> QED
      BY <1>7, <2>3, <3>1, <3>2, <3>3 DEF Follows
  <2>6. Opens(type, p[1]) /\ Closes(type, p[Len(p)])
    BY <1>7, <2>2, <2>3 DEF Opens, Closes
  <2>7. Len(p) \in Nat \ {0} /\ \A i \in 1 .. Len(p) : i # Len(p) => i + 1 \in 1 .. Len(p)
    BY <2>2
  <2> QED
    BY <2>4, <2>5, <2>6, <2>7 DEF p
<1>8. CASE type = "checkpoint"
  <2>1. p = ReachCheckpoint
    BY <1>8 DEF Program
  <2>2. Len(p) = 2
    BY <2>1 DEF ReachCheckpoint
  <2>3. /\ p[1] = "reach" /\ p[2] = "hold"
    BY <2>1 DEF ReachCheckpoint
  <2> HIDE DEF p
  <2>4. \A i \in 1 .. Len(p) : Belongs(type, p[i])
    BY <1>8, <2>2, <2>3 DEF Belongs
  <2>5. ASSUME NEW i \in 1 .. Len(p), i # Len(p)
        PROVE  Follows(type, p[i], p[i + 1])
    <3>1. i = 1
      BY <2>2, <2>5
    <3>2. Tolerated(type) \cup Late(type) = {}
      BY <1>8 DEF Tolerated, Late
    <3>3. Late(type) = {}
      BY <1>8 DEF Late
    <3> QED
      BY <1>8, <2>3, <3>1, <3>2, <3>3 DEF Follows
  <2>6. Opens(type, p[1]) /\ Closes(type, p[Len(p)])
    BY <1>8, <2>2, <2>3 DEF Opens, Closes
  <2>7. Len(p) \in Nat \ {0} /\ \A i \in 1 .. Len(p) : i # Len(p) => i + 1 \in 1 .. Len(p)
    BY <2>2
  <2> QED
    BY <2>4, <2>5, <2>6, <2>7 DEF p
<1>9. CASE type \in {"wait", "assert", "mine", "spam_burst", "milestone"}
  <2>1. PICK o \in {"wait", "assert", "mine", "burst", "reach"} :
          p = <<o>> /\ (o = "reach" => type = "milestone")
    BY <1>9 DEF Program
  <2> QED
    BY <1>9, <2>1 DEF Opens, Closes, Belongs
<1> QED
  BY <1>1, <1>2, <1>3, <1>4, <1>5, <1>6, <1>7, <1>8, <1>9 DEF StepTypes

(***************************************************************************)
(* The inductive invariant.                                                *)
(***************************************************************************)
Cur == Ops[thread.op]
Starting == thread.at \in {"new", "spawn", "bootstrap"}
Stepping == Engine \/ thread.at = "stop"
Running == Starting \/ Stepping

\* The runtime has a handle of worker w, and the worker has the lease.
Holds(w) == rt[w] # 0 /\ Lease(w, rt[w]) \in held

\* A step goes on after a failure only to give back what it holds, and the
\* next one begins with its first operation.
FailedLate ==
  /\ thread.at = "step" /\ thread.failed => Cur \in Late(StepType)
  /\ thread.at = "boundary" => thread.op = 1

\* A table without the job never had it; a thread works for a job that is
\* active in memory and in the file; before the first step nothing is done.
Admitted ==
  /\ mem.state = "none" => mem = NoJob /\ disk.state = "none" /\ rt = NoRuntime
  /\ disk.state = "none" => disk = NoJob /\ thread.at = "idle" /\ ~untold /\ split = "no"
  /\ thread.at # "idle" => mem.active /\ disk.active
  /\ Starting => /\ ~untold /\ split = "no" /\ rt = NoRuntime
                 /\ ~thread.failed /\ thread.step = 1 /\ thread.op = 1

\* Until a step fails the handles of the workers are good; a step has what it
\* needs; and a pause keeps its handle whatever fails, until it is resumed.
Leased ==
  /\ thread.at \in {"step", "boundary"} /\ ~thread.failed =>
       \A w \in Workers : rt[w] # 0 => Holds(w)
  /\ thread.at = "step" => \A w \in Needs(StepType, Cur) : Holds(w)
  /\ Engine /\ rt.paused /\ StepType # "resume_mining" => Holds("mining")

\* The flag follows the script.
Paused ==
  /\ Engine /\ PausedByScript => rt.paused
  /\ thread.at = "boundary" /\ ~thread.failed =>
       /\ StepType = "pause_mining" => rt.paused
       /\ StepType = "resume_mining" => ~rt.paused

\* A reorg under way is about to be settled, or its recovery is still to come
\* and both tables know of it.  A partition is about to be healed, or the
\* step has failed and no other one follows.
SplitPlace ==
  /\ split = "reorg" \/ Op("settle") \/ Op("mutate") =>
       mem.context # "none" /\ disk.context # "none"
  /\ split = "reorg" => Op("settle") \/ (thread.at = "recover" /\ "chain" \in thread.todo)
  /\ split = "partition" /\ Stepping =>
       IF thread.at = "step" THEN StepType = "partition" /\ Cur \in {"heal", "converge"}
                             ELSE thread.failed

\* While the nodes are apart both workers are held.
SplitHeld ==
  /\ split = "reorg" /\ thread.at = "recover" => \A w \in Workers : OfComponent(w) # {}
  /\ split = "partition" /\ Stepping => \A w \in Workers : Holds(w)

\* Spam that has to be told is held, and the runtime knows what to tell it.
Telling ==
  untold =>
    /\ OfComponent("spam") # {}
    /\ Stepping \/ thread.at = "cleanup" => rt.changed \/ (Op("settle") /\ split = "reorg")

Settled(m) == desired \in {m.backup.value, "operator"}

\* The settings of table m's job are what they were before its steps, unless
\* the executor is among them or their restoration is still to come.
Restoring ==
  mem.active =>
    /\ mem.backup.phase # "none"
    /\ thread.at = "idle" \/ Starting => Settled(mem)
    /\ thread.at = "idle" \/ Running => mem.backup.phase = "captured"
    /\ mem.backup.phase = "restored" => Settled(mem)
    /\ thread.at \in {"cleanup", "recover"} =>
         /\ "restore" \in thread.todo \/ "record" \in thread.todo =>
              mem.backup.phase # "restored"
         /\ /\ "restore" \notin thread.todo
            /\ thread.at = "recover" \/ ~thread.errors \/ "record" \in thread.todo
            => Settled(mem)

RestoreSaved ==
  disk.active =>
    /\ disk.backup.phase # "none"
    /\ disk.backup.phase = "restored" => Settled(disk) /\ ~Running

\* Checkpoints ahead have not been reached, and what is final in the file is
\* what memory says.
Pending(k) ==
  \/ Starting
  \/ thread.at \in {"step", "boundary"} /\ k > thread.step
  \/ Op("reach") /\ k = thread.step

Decided ==
  \A k \in 1 .. Len(script.steps) :
    /\ Pending(k) => mem.checkpoints[k] = "pending"
    /\ disk.checkpoints[k] \in {"released", "timed_out"} =>
         mem.checkpoints[k] = disk.checkpoints[k]

\* Once a component has dropped a lease by itself nothing is promised of the
\* workers.
Guarded == lost \/ (Leased /\ SplitHeld /\ Telling)

ScenarioInv ==
  /\ TypeOK /\ FailedLate /\ Admitted /\ Paused /\ SplitPlace /\ Guarded
  /\ script.restore => Restoring /\ RestoreSaved
  /\ Decided

(***************************************************************************)
(* Types.                                                                  *)
(***************************************************************************)
\* What the steps of a script are.
LEMMA ScriptFacts ==
  ASSUME TypeOK, NEW k \in 1 .. Len(script.steps)
  PROVE  /\ script.steps \in Seq(StepTypes) /\ Len(script.steps) \in Nat
         /\ script.steps[k] \in StepTypes
         /\ Len(Program(script.steps[k])) \in Nat \ {0}
<1>1. script.steps \in Seq(StepTypes) /\ Len(script.steps) \in Nat
  BY ScenarioConstants DEF TypeOK
<1>2. script.steps[k] \in StepTypes
  BY <1>1
<1> QED
  BY <1>1, <1>2, ProgramFacts

\* Where the executor is.
LEMMA ThreadFacts ==
  ASSUME TypeOK
  PROVE  /\ thread \in Threads /\ thread.step \in 1 .. Len(script.steps)
         /\ StepType \in StepTypes /\ thread.op \in 1 .. Len(Ops) /\ Len(Ops) \in Nat \ {0}
         /\ Belongs(StepType, Cur)
<1>1. thread \in Threads /\ thread.step \in 1 .. Len(script.steps) /\ thread.op \in 1 .. Len(Ops)
  BY DEF TypeOK, Threads
<1>2. StepType \in StepTypes /\ Len(Ops) \in Nat \ {0}
  BY <1>1, ScriptFacts DEF StepType, Ops
<1> QED
  BY <1>1, <1>2, ProgramFacts DEF Ops, Cur

\* There is a first step.
LEMMA FirstStep ==
  ASSUME TypeOK
  PROVE  1 \in 1 .. Len(script.steps) /\ 1 \in 1 .. Len(Program(script.steps[1]))
<1>1. Len(script.steps) \in Nat /\ Len(script.steps) > 0
  BY ScenarioConstants DEF TypeOK
<1>2. 1 \in 1 .. Len(script.steps)
  BY <1>1
<1> QED
  BY <1>2, ScriptFacts

\* The threads there are without a step.
LEMMA NoThreadFacts ==
  ASSUME TypeOK, NEW m
  PROVE  /\ NoThread \in Threads /\ NoThread.at = "idle" /\ ~NoThread.failed
         /\ NoThread.step = 1 /\ NoThread.op = 1
         /\ Recovering(m) \in Threads /\ Recovering(m).at = "recover"
         /\ Recovering(m).todo = RecoverySteps(m)
         /\ Recovering(m).step = 1 /\ Recovering(m).op = 1
<1>1. DOMAIN StepRank = {"network", "converge", "lease_spam", "lease_mining", "chain", "spam",
                         "mining", "verify", "restore", "record"}
  BY DEF StepRank
<1>2. RecoverySteps(m) \subseteq DOMAIN StepRank
  BY <1>1 DEF RecoverySteps
<1>3. 1 \in 1 .. Len(script.steps)
  BY FirstStep
<1>4. NoThread \in Threads
  BY <1>1, <1>3 DEF NoThread, Threads
<1> QED
  BY <1>2, <1>4 DEF NoThread, Recovering, Threads

\* A table, and the runtime, of their types.
LEMMA NoJobFacts ==
  ASSUME TypeOK
  PROVE  /\ NoJob \in Records /\ ~NoJob.active /\ NoJob.state = "none"
         /\ \A k \in 1 .. Len(script.steps) : NoJob.checkpoints[k] = "pending"
         /\ NoRuntime \in Runtimes /\ ~NoRuntime.paused /\ ~NoRuntime.changed
         /\ \A c \in Components : NoRuntime[c] = 0 /\ NoRuntime[c] <= NoRuntime.seq
<1>1. NoJob \in Records
  BY DEF NoJob, NoBackup, Records, Terminal
<1>2. /\ ~NoJob.active /\ NoJob.state = "none"
      /\ \A k \in 1 .. Len(script.steps) : NoJob.checkpoints[k] = "pending"
  BY DEF NoJob
<1>3. NoRuntime \in Runtimes /\ ~NoRuntime.paused /\ ~NoRuntime.changed
  BY DEF NoRuntime, Runtimes
<1>4. \A c \in Components : NoRuntime[c] = 0 /\ NoRuntime[c] <= NoRuntime.seq
  BY DEF NoRuntime, Components, Workers
<1> QED
  BY <1>1, <1>2, <1>3, <1>4

(***************************************************************************)
(* A step of the script goes on.                                           *)
(***************************************************************************)
\* The executor goes to the next operation of its step, or ends the step.
Moves ==
  /\ thread.at = "step"
  /\ thread' \in Threads /\ thread'.step = thread.step
  /\ thread'.op \in 1 .. Len(Ops) /\ thread'.at \in {"step", "boundary"}
  /\ thread.failed => thread'.failed
  /\ thread'.at = "step" =>
       /\ Follows(StepType, Cur, Ops[thread'.op])
       /\ thread'.failed => Ops[thread'.op] \in Late(StepType)
  /\ thread'.at = "boundary" => thread'.op = 1
  /\ thread'.at = "boundary" /\ ~thread'.failed => Closes(StepType, Cur)

\* Where it may go.
LEMMA MoveFacts ==
  ASSUME TypeOK, thread.at = "step", NEW t, t = NextOp \/ t = FailOp
  PROVE  /\ t \in Threads /\ t.step = thread.step
         /\ t.op \in 1 .. Len(Ops) /\ t.at \in {"step", "boundary"}
         /\ t = NextOp => t.failed = thread.failed
         /\ t = FailOp => t.failed
         /\ t.at = "step" => /\ Follows(StepType, Cur, Ops[t.op])
                             /\ t = FailOp => Cur \in Tolerated(StepType)
         /\ t.at = "boundary" => t.op = 1
         /\ t.at = "boundary" /\ t = NextOp => Closes(StepType, Cur)
<1>1. /\ thread \in Threads /\ thread.op \in 1 .. Len(Ops) /\ Len(Ops) \in Nat \ {0}
      /\ StepType \in StepTypes
  BY ThreadFacts
<1>2. ASSUME NEW f \in BOOLEAN
      PROVE  /\ EndStep(f) \in Threads /\ EndStep(f).at = "boundary" /\ EndStep(f).op = 1
             /\ EndStep(f).step = thread.step /\ EndStep(f).failed = f
  BY <1>1 DEF EndStep, Threads
<1>3. thread.failed \in BOOLEAN
  BY <1>1 DEF Threads
<1>4. CASE thread.op = Len(Ops)
  <2>1. Closes(StepType, Cur)
    BY <1>1, <1>4, ProgramFacts DEF Ops, Cur
  <2>2. NextOp = EndStep(thread.failed) /\ FailOp = EndStep(TRUE)
    BY <1>4 DEF NextOp, FailOp
  <2>3. 1 \in 1 .. Len(Ops)
    BY <1>1
  <2> QED
    BY <1>2, <1>3, <2>1, <2>2, <2>3
<1>5. CASE thread.op # Len(Ops)
  <2> DEFINE on == [thread EXCEPT !.op = thread.op + 1]
             off == [thread EXCEPT !.op = thread.op + 1, !.failed = TRUE]
  <2>1. thread.op + 1 \in 1 .. Len(Ops) /\ Follows(StepType, Cur, Ops[thread.op + 1])
    BY <1>1, <1>5, ProgramFacts DEF Ops, Cur
  <2>a. thread.op + 1 \in Nat
    BY <1>1
  <2>b. /\ on \in Threads /\ on.at = "step" /\ on.op = thread.op + 1 /\ on.step = thread.step
        /\ on.failed = thread.failed
    BY <1>1, <2>a DEF Threads
  <2>c. off = [on EXCEPT !.failed = TRUE]
    BY <1>1 DEF Threads
  <2>d. /\ off \in Threads /\ off.at = "step" /\ off.op = thread.op + 1 /\ off.step = thread.step
        /\ off.failed = TRUE
    <3> HIDE DEF on, off
    <3> QED
      BY <2>b, <2>c DEF Threads
  <2>3. NextOp = on
    BY <1>5 DEF NextOp
  <2>4. \/ FailOp = off /\ Cur \in Tolerated(StepType)
        \/ FailOp = EndStep(TRUE)
    BY <1>5 DEF FailOp, Cur
  <2>5. 1 \in 1 .. Len(Ops)
    BY <1>1
  <2> HIDE DEF on, off
  <2>6. CASE t = NextOp
    <3>1. t # FailOp \/ t = FailOp
      OBVIOUS
    <3> QED
      BY <1>2, <2>1, <2>b, <2>d, <2>3, <2>4, <2>6
  <2>7. CASE t = FailOp
    BY <1>2, <2>1, <2>b, <2>d, <2>3, <2>4, <2>5, <2>7
  <2> QED
    BY <2>6, <2>7
<1> QED
  BY <1>4, <1>5

\* The ways on of the actions.
LEMMA MoveStep ==
  ASSUME ScenarioInv, thread.at = "step",
         \/ thread' = NextOp \/ thread' = FailOp
         \/ Cur = "mutate" /\ thread' = [NextOp EXCEPT !.failed = TRUE]
         \/ \E c \in Components : thread' = [NextOp EXCEPT !.acquired = @ \cup {c}]
  PROVE  Moves
<1>1. TypeOK /\ StepType \in StepTypes /\ Belongs(StepType, Cur)
      /\ (thread.failed => Cur \in Late(StepType))
  BY ThreadFacts DEF ScenarioInv, FailedLate
<1>2. ASSUME NEW n, Follows(StepType, Cur, n), Cur \in Tolerated(StepType) \cup Late(StepType)
      PROVE  n \in Late(StepType)
  BY <1>2 DEF Follows
<1>3. CASE thread' = NextOp \/ thread' = FailOp
  <2> DEFINE t == thread'
  <2>1. /\ t \in Threads /\ t.step = thread.step
        /\ t.op \in 1 .. Len(Ops) /\ t.at \in {"step", "boundary"}
        /\ t = NextOp => t.failed = thread.failed
        /\ t = FailOp => t.failed
        /\ t.at = "step" => /\ Follows(StepType, Cur, Ops[t.op])
                            /\ t = FailOp => Cur \in Tolerated(StepType)
        /\ t.at = "boundary" => t.op = 1
        /\ t.at = "boundary" /\ t = NextOp => Closes(StepType, Cur)
    BY <1>1, <1>3, MoveFacts
  <2> QED
    BY <1>1, <1>2, <1>3, <2>1 DEF Moves
<1> DEFINE n == NextOp
<1>4. /\ n \in Threads /\ n.step = thread.step
      /\ n.op \in 1 .. Len(Ops) /\ n.at \in {"step", "boundary"}
      /\ n.failed = thread.failed
      /\ n.at = "step" => Follows(StepType, Cur, Ops[n.op])
      /\ n.at = "boundary" => n.op = 1 /\ Closes(StepType, Cur)
  BY <1>1, MoveFacts
<1> HIDE DEF n
<1>5. CASE Cur = "mutate" /\ thread' = [NextOp EXCEPT !.failed = TRUE]
  <2>1. StepType = "reorg" /\ ~Closes(StepType, Cur)
    BY <1>1, <1>5 DEF Belongs, Closes
  <2>2. /\ thread' \in Threads /\ thread'.at = n.at /\ thread'.step = n.step
        /\ thread'.op = n.op /\ thread'.failed = TRUE
    BY <1>4, <1>5 DEF Threads, n
  <2>3. Ops[n.op] = "settle" => Ops[n.op] \in Late(StepType)
    BY <2>1 DEF Late
  <2>4. n.at = "step" => Ops[n.op] = "settle"
    BY <1>4, <1>5 DEF Follows
  <2> QED
    BY <1>4, <2>1, <2>2, <2>3, <2>4 DEF Moves
<1>6. ASSUME NEW c \in Components, thread' = [NextOp EXCEPT !.acquired = @ \cup {c}]
      PROVE  Moves
  <2>1. /\ thread' \in Threads /\ thread'.at = n.at /\ thread'.step = n.step
        /\ thread'.op = n.op /\ thread'.failed = n.failed
    BY <1>4, <1>6 DEF Threads, n
  <2> QED
    BY <1>1, <1>2, <1>4, <2>1 DEF Moves
<1> QED
  BY <1>3, <1>5, <1>6

\* The names of the places are the same after a move.
LEMMA SamePlace ==
  ASSUME Moves, script' = script
  PROVE  StepType' = StepType /\ Ops' = Ops /\ Cur' = Ops[thread'.op]
         /\ PausedByScript' = PausedByScript
<1>1. thread'.step = thread.step
  BY DEF Moves
<1> QED
  BY <1>1 DEF StepType, Ops, Cur, PausedByScript

\* No step goes on to a place it may not be in after a failure.
LEMMA LateMove ==
  ASSUME Moves, script' = script
  PROVE  FailedLate'
  BY SamePlace DEF FailedLate, Moves

\* The leases of the workers and the pause are as they were.
WorkersKept ==
  /\ rt'.spam = rt.spam /\ rt'.mining = rt.mining /\ rt'.paused = rt.paused
  /\ \A l \in held : l.c \in Workers => l \in held'

\* What is held stays held.
LEMMA KeptFacts ==
  ASSUME WorkersKept
  PROVE  \A w \in Workers : rt'[w] = rt[w] /\ (Holds(w) => Holds(w)')
                            /\ (OfComponent(w) # {} => OfComponent(w)' # {})
<1>1. \A w \in Workers : rt'[w] = rt[w]
  BY DEF WorkersKept, Workers
<1>2. ASSUME NEW w \in Workers, Holds(w) PROVE Holds(w)'
  <2>1. Lease(w, rt[w]).c = w
    BY DEF Lease
  <2> QED
    BY <1>1, <1>2, <2>1 DEF WorkersKept, Holds, Lease
<1>3. ASSUME NEW w \in Workers, OfComponent(w) # {} PROVE OfComponent(w)' # {}
  BY <1>3 DEF WorkersKept, OfComponent
<1> QED
  BY <1>1, <1>2, <1>3

\* Operations that take and free no worker.
LEMMA LeasedMove ==
  ASSUME ScenarioInv, Leased, Moves, script' = script, WorkersKept,
         Cur \notin {"take_spam", "take_mining", "free_spam", "free_mining"}
  PROVE  Leased'
<1>1. \A w \in Workers : rt'[w] = rt[w] /\ (Holds(w) => Holds(w)')
  BY KeptFacts
<1>2. StepType' = StepType /\ Cur' = Ops[thread'.op]
  BY SamePlace
<1>3. ASSUME thread'.at = "step", NEW w \in Needs(StepType, Ops[thread'.op])
      PROVE  Holds(w)'
  <2>1. Follows(StepType, Cur, Ops[thread'.op])
    BY <1>3 DEF Moves
  <2>2. w \in Needs(StepType, Cur) /\ w \in Workers
    BY <1>3, <2>1 DEF Needs, Follows, Workers
  <2> QED
    BY <1>1, <2>2 DEF Leased, Moves
<1>4. thread'.at \in {"step", "boundary"} /\ ~thread'.failed =>
        \A w \in Workers : rt'[w] # 0 => Holds(w)'
  BY <1>1 DEF Leased, Moves
<1>5. rt'.paused /\ StepType # "resume_mining" => Holds("mining")'
  BY <1>1 DEF Leased, Moves, WorkersKept, Workers, Engine
<1> QED
  BY <1>2, <1>3, <1>4, <1>5 DEF Leased

\* Operations that leave the flag of the pause alone.
LEMMA PausedMove ==
  ASSUME ScenarioInv, Moves, script' = script, rt'.paused = rt.paused,
         Cur \notin {"mark_paused", "mark_resumed"}
  PROVE  Paused'
  BY SamePlace DEF ScenarioInv, Paused, Moves, Closes, Engine

(***************************************************************************)
(* What steps of every kind have in common.                                *)
(***************************************************************************)
\* The types of everything but the thread.
RestTyped ==
  /\ script' = script
  /\ mem' \in Records /\ disk' \in Records
  /\ rt' \in Runtimes /\ \A c \in Components : rt'[c] <= rt'.seq
  /\ renewer' \in [at : {"off", "parked", "renewing"}, todo : SUBSET [c : Components, id : Nat]]
  /\ held' \subseteq [c : Components, id : Nat]
  /\ abort' \in BOOLEAN /\ untold' \in BOOLEAN /\ lost' \in BOOLEAN
  /\ split' \in {"no", "reorg", "partition"}
  /\ desired' \in {"initial", "changed", "operator"}
  /\ faults' \in 0 .. MaxFaults

\* The budget of failures.
LEMMA FaultFacts ==
  ASSUME TypeOK, Fault \/ NoFault
  PROVE  faults' \in 0 .. MaxFaults
  BY ScenarioConstants DEF TypeOK, Fault, NoFault

\* The type invariant, when the thread has a place in its step.
LEMMA TypeStep ==
  ASSUME TypeOK, RestTyped, thread' \in Threads,
         thread'.op \in 1 .. Len(Program(script.steps[thread'.step]))
  PROVE  TypeOK'
<1>1. Records' = Records /\ Threads' = Threads
  BY DEF RestTyped, Records, Threads
<1>2. Ops' = Program(script.steps[thread'.step])
  BY DEF RestTyped, Ops, StepType
<1> QED
  BY <1>1, <1>2 DEF RestTyped, TypeOK

\* The job stays the one it is; what is saved is what memory has.
TableKept ==
  /\ mem'.active = mem.active /\ mem'.backup = mem.backup /\ mem'.state # "none"
  /\ disk' \in {disk, mem'}

\* The leases and marks are those of the first state.
NothingDone ==
  /\ Starting /\ untold' = untold /\ split' = split /\ rt' = rt /\ desired' = desired
  /\ thread'.failed = thread.failed /\ thread'.step = thread.step /\ thread'.op = thread.op

\* A job that runs has a table.
LEMMA RunningFacts ==
  ASSUME ScenarioInv, thread.at # "idle"
  PROVE  mem.active /\ disk.active /\ mem.state # "none" /\ disk.state # "none"
  BY DEF ScenarioInv, Admitted

\* While the executor runs, its job is admitted and its backup is captured.
LEMMA TableRun ==
  ASSUME ScenarioInv, Running, Running', TableKept, script' = script, Starting' => NothingDone
  PROVE  /\ Admitted'
         /\ script.restore => Restoring' /\ RestoreSaved'
<1>1. mem.active /\ disk.active /\ mem.state # "none" /\ disk.state # "none" /\ thread.at # "idle"
  <2>1. thread.at # "idle"
    BY DEF Running, Starting, Stepping, Engine
  <2> QED
    BY <2>1, RunningFacts
<1>2. mem'.active /\ disk'.active /\ mem'.state # "none" /\ disk'.state # "none"
  BY <1>1 DEF TableKept
<1>3. thread'.at \notin {"idle", "cleanup", "recover"}
  BY DEF Running, Starting, Stepping, Engine
<1>4. Admitted'
  BY <1>2, <1>3 DEF Admitted, ScenarioInv, NothingDone
<1>5. ASSUME script.restore PROVE Restoring' /\ RestoreSaved'
  <2>1. mem.backup.phase = "captured" /\ disk.backup.phase \notin {"none", "restored"}
    BY <1>1, <1>5 DEF ScenarioInv, Restoring, RestoreSaved
  <2>2. mem'.backup.phase = "captured" /\ disk'.backup.phase \notin {"none", "restored"}
    BY <2>1 DEF TableKept
  <2>3. Starting' => Settled(mem)'
    BY <1>1, <1>5 DEF ScenarioInv, Restoring, NothingDone, Settled, TableKept
  <2> QED
    BY <1>3, <2>2, <2>3 DEF Restoring, RestoreSaved
<1> QED
  BY <1>4, <1>5

\* What is final in the file stays as it is.
FinalKept ==
  \A k \in 1 .. Len(script.steps) :
    disk.checkpoints[k] \in {"released", "timed_out"} =>
      disk'.checkpoints[k] = disk.checkpoints[k]

\* Steps that change no checkpoint.
LEMMA DecidedKept ==
  ASSUME ScenarioInv, script' = script, mem'.checkpoints = mem.checkpoints,
         disk' \in {disk, mem'},
         \A k \in 1 .. Len(script.steps) : Pending(k)' => Pending(k)
  PROVE  Decided' /\ FinalKept
  BY DEF ScenarioInv, Decided, FinalKept

\* The checkpoints with the one of step k changed, and a table with them.
Mark(k, c) == [mem.checkpoints EXCEPT ![k] = c]
Marked(k, c, x) == [mem EXCEPT !.checkpoints[k] = c, !.state = x]

\* A step that changes one, which is not final in the file.
LEMMA DecidedEdit ==
  ASSUME ScenarioInv, script' = script, NEW k \in 1 .. Len(script.steps), NEW x,
         mem'.checkpoints = Mark(k, x),
         mem.checkpoints[k] \in {"released", "timed_out"} => mem.checkpoints[k] = x,
         disk' \in {disk, mem'}, ~Pending(k)',
         \A j \in 1 .. Len(script.steps) : Pending(j)' => Pending(j)
  PROVE  Decided' /\ FinalKept
<1>1. mem.checkpoints \in
        [1 .. Len(script.steps) -> {"pending", "reached", "released", "timed_out"}]
  BY DEF ScenarioInv, TypeOK, Records
<1>2. mem'.checkpoints[k] = x
      /\ \A j \in 1 .. Len(script.steps) : j # k => mem'.checkpoints[j] = mem.checkpoints[j]
  BY <1>1 DEF Mark
<1>3. \A j \in 1 .. Len(script.steps) :
        mem.checkpoints[j] \in {"released", "timed_out"} => mem'.checkpoints[j] = mem.checkpoints[j]
  BY <1>2
<1> QED
  BY <1>2, <1>3 DEF ScenarioInv, Decided, FinalKept

\* A checkpoint is passed only when it was released, or to be aborted.
Gate ==
  Op("hold") /\ thread'.at = "boundary" /\ ~thread'.failed =>
    Checkpoint = "released" \/ abort

\* The job leaves its lane with the settings restored.
Restored ==
  mem.active /\ ~mem'.active /\ script.restore =>
    desired' \in {mem.backup.value, "operator"}

\* What every step does.
Kept == ScenarioInv' /\ FinalKept /\ Gate /\ Restored

(***************************************************************************)
(* The operations of a step.                                               *)
(***************************************************************************)
\* What a move never disturbs.
LEMMA MoveCommon ==
  ASSUME ScenarioInv, Moves, RestTyped, TableKept
  PROVE  /\ TypeOK' /\ FailedLate' /\ Admitted' /\ Restored
         /\ script.restore => Restoring' /\ RestoreSaved'
         /\ \A k \in 1 .. Len(script.steps) : Pending(k)' => Pending(k) /\ k # thread.step
<1>1. script' = script
  BY DEF RestTyped
<1>2. TypeOK'
  BY TypeStep DEF ScenarioInv, Moves, Ops, StepType
<1>3. FailedLate'
  BY <1>1, LateMove
<1>4. Running /\ Running' /\ ~Starting'
  BY DEF Running, Starting, Stepping, Engine, Moves
<1>5. Admitted' /\ (script.restore => Restoring' /\ RestoreSaved')
  BY <1>1, <1>4, TableRun
<1>6. Restored
  BY DEF Restored, TableKept
<1>7. ~Op("reach")'
  BY <1>1, SamePlace DEF Op, Cur, Moves, Follows
<1>8. thread.step \in Nat
  BY ThreadFacts, ScriptFacts DEF ScenarioInv
<1> QED
  BY <1>2, <1>3, <1>4, <1>5, <1>6, <1>7, <1>8 DEF Pending, Moves

\* Operations that leave the nodes where they are.
LEMMA SplitMove ==
  ASSUME ScenarioInv, Moves, script' = script, split' = split,
         Cur \notin {"prepare", "mutate", "settle", "converge"}
  PROVE  SplitPlace'
<1>1. StepType' = StepType /\ Ops' = Ops /\ Cur' = Ops[thread'.op]
  BY SamePlace
<1>2. ~Op("settle")' /\ ~Op("mutate")'
  BY <1>1 DEF Op, Cur, Moves, Follows
<1>3. split # "reorg"
  BY DEF ScenarioInv, SplitPlace, Op, Moves, Cur
<1>4. ASSUME split = "partition"
      PROVE  /\ thread'.at = "step" => StepType = "partition" /\ Cur' = "converge"
             /\ thread'.at = "boundary" => thread'.failed
  <2>1. StepType = "partition" /\ Cur = "heal"
    BY <1>4 DEF ScenarioInv, SplitPlace, Moves, Stepping, Engine
  <2>2. ~Closes(StepType, Cur)
    BY <2>1 DEF Closes
  <2> QED
    BY <1>1, <2>1, <2>2 DEF Moves, Follows
<1> QED
  BY <1>1, <1>2, <1>3, <1>4 DEF SplitPlace, Moves

\* The workers of a step that neither takes nor frees one.
LEMMA GuardedMove ==
  ASSUME ScenarioInv, Moves, script' = script, WorkersKept, lost' = lost,
         Cur \notin {"take_spam", "take_mining", "free_spam", "free_mining"},
         split' = "partition" => \A w \in Workers : Holds(w),
         untold' => \/ OfComponent("spam") # {}
                    \/ Holds("spam"),
         untold' => \/ rt'.changed
                    \/ Op("settle")' /\ split' = "reorg"
  PROVE  Guarded'
<1>1. CASE lost
  BY <1>1 DEF Guarded
<1>2. CASE Leased
  <2>1. Leased'
    BY <1>2, LeasedMove
  <2>2. \A w \in Workers : (Holds(w) => Holds(w)') /\ (OfComponent(w) # {} => OfComponent(w)' # {})
    BY KeptFacts
  <2>3. SplitHeld'
    BY <2>2 DEF SplitHeld, Moves
  <2>4. Holds("spam")' => OfComponent("spam")' # {}
    BY DEF Holds, OfComponent, Lease
  <2>5. Telling'
    BY <2>2, <2>4 DEF Telling, Workers
  <2> QED
    BY <2>1, <2>3, <2>5 DEF Guarded
<1> QED
  BY <1>1, <1>2 DEF ScenarioInv, Guarded

\* The workers of a step that does not set the nodes apart either.
LEMMA GuardedPlain ==
  ASSUME ScenarioInv, Moves, script' = script, WorkersKept, lost' = lost,
         Cur \notin {"take_spam", "take_mining", "free_spam", "free_mining"},
         split' \in {split, "no"}, untold' = untold,
         rt'.changed \in {rt.changed, TRUE},
         Cur = "settle" /\ split = "reorg" => rt'.changed
  PROVE  Guarded'
<1>1. thread.at = "step" /\ Stepping
  BY DEF Moves, Stepping, Engine
<1>2. CASE lost
  BY <1>2 DEF Guarded
<1>3. CASE ~lost
  <2>1. SplitHeld /\ Telling
    BY <1>3 DEF ScenarioInv, Guarded
  <2>2. split = "partition" => \A w \in Workers : Holds(w)
    BY <1>1, <2>1 DEF SplitHeld
  <2>3. untold => OfComponent("spam") # {} /\ rt'.changed
    BY <1>1, <2>1 DEF Telling, Op, Cur
  <2> QED
    BY <2>2, <2>3, GuardedMove
<1> QED
  BY <1>2, <1>3

\* Operations that change nothing of the workers, the nodes and the pause.
LEMMA PlainMove ==
  ASSUME ScenarioInv, Moves, script' = script, WorkersKept, lost' = lost,
         rt'.changed = rt.changed, split' = split, untold' = untold,
         Cur \notin {"take_spam", "take_mining", "free_spam", "free_mining", "mark_paused",
                     "mark_resumed", "prepare", "mutate", "settle", "converge"}
  PROVE  Paused' /\ SplitPlace' /\ Guarded'
<1>1. Paused'
  BY PausedMove DEF WorkersKept
<1>2. SplitPlace'
  BY SplitMove
<1>3. Guarded'
  BY GuardedPlain
<1> QED
  BY <1>1, <1>2, <1>3

\* The table of a running job that is not changed.
LEMMA TableFacts ==
  ASSUME ScenarioInv, thread.at # "idle"
  PROVE  /\ mem' = mem /\ disk' = disk => TableKept /\ mem'.checkpoints = mem.checkpoints
         /\ mem.state # "none"
  BY RunningFacts DEF TableKept

\* A move that has done its part.
LEMMA MoveKept ==
  ASSUME ScenarioInv, Moves, RestTyped, TableKept, Paused', SplitPlace', Guarded',
         Decided', FinalKept, Gate
  PROVE  Kept
<1>1. script' = script
  BY DEF RestTyped
<1>2. /\ TypeOK' /\ FailedLate' /\ Admitted' /\ Restored
      /\ script.restore => Restoring' /\ RestoreSaved'
  BY MoveCommon
<1> QED
  BY <1>1, <1>2 DEF Kept, ScenarioInv

\* A move that has not touched the checkpoints.
LEMMA MoveKeptPlain ==
  ASSUME ScenarioInv, Moves, RestTyped, TableKept, Paused', SplitPlace', Guarded',
         mem'.checkpoints = mem.checkpoints, Cur # "hold"
  PROVE  Kept
<1>1. script' = script /\ disk' \in {disk, mem'}
  BY DEF RestTyped, TableKept
<1>2. Decided' /\ FinalKept
  BY <1>1, MoveCommon, DecidedKept
<1>3. Gate
  BY DEF Gate, Op, Cur
<1> QED
  BY <1>2, <1>3, MoveKept

\* Operations that hold nothing.
LEMMA QuietStep ==
  ASSUME ScenarioInv,
         \/ Wait \/ Assert \/ Mine \/ SpamBurst \/ WaitHeight \/ FaucetPreflight
         \/ Transfer \/ WaitFaucetConfirmation \/ PrepareBursts
  PROVE  Kept
<1>1. /\ thread.at = "step" /\ (thread' = NextOp \/ thread' = FailOp)
      /\ Fault \/ NoFault
      /\ Elsewhere
      /\ Cur \in {"wait", "assert", "mine", "burst", "observe", "preflight", "transfer",
                  "confirm", "fund"}
  BY DEF Wait, Assert, Mine, SpamBurst, WaitHeight, FaucetPreflight, Transfer,
         WaitFaucetConfirmation, PrepareBursts, Passes, Fails, Op, Cur
<1>2. Moves
  BY <1>1, MoveStep
<1>3. RestTyped
  BY <1>1, FaultFacts DEF ScenarioInv, Elsewhere, RestTyped, TypeOK
<1>4. TableKept /\ mem'.checkpoints = mem.checkpoints
  BY <1>1, TableFacts DEF Elsewhere
<1>5. WorkersKept
  BY <1>1 DEF Elsewhere, WorkersKept
<1>6. Paused' /\ SplitPlace' /\ Guarded'
  BY <1>1, <1>2, <1>5, PlainMove DEF Elsewhere
<1> QED
  BY <1>1, <1>2, <1>3, <1>4, <1>6, MoveKeptPlain

\* A step changes the settings.
LEMMA ApplyStep ==
  ASSUME ScenarioInv, Apply
  PROVE  Kept
<1>1. /\ thread.at = "step" /\ (thread' = NextOp \/ thread' = FailOp)
      /\ Fault \/ NoFault
      /\ Cur = "apply" /\ desired' \in {desired, "changed"}
      /\ UNCHANGED <<script, mem, disk, rt, renewer, held, abort, split, untold, lost>>
  BY DEF Apply, Op, Cur
<1>2. Moves
  BY <1>1, MoveStep
<1>3. RestTyped
  BY <1>1, FaultFacts DEF ScenarioInv, RestTyped, TypeOK
<1>4. TableKept /\ mem'.checkpoints = mem.checkpoints
  BY <1>1, TableFacts
<1>5. WorkersKept
  BY <1>1 DEF WorkersKept
<1>6. Paused' /\ SplitPlace' /\ Guarded'
  BY <1>1, <1>2, <1>5, PlainMove
<1> QED
  BY <1>1, <1>2, <1>3, <1>4, <1>6, MoveKeptPlain

\* The network is healed, and its lease forgotten.
LEMMA HealStep ==
  ASSUME ScenarioInv, HealNetwork \/ Forget
  PROVE  Kept
<1>1. /\ thread.at = "step" /\ (thread' = NextOp \/ thread' = FailOp)
      /\ Fault \/ NoFault
      /\ Cur \in {"heal", "forget"}
      /\ held' = held \/ held' = held \ {Lease("network", rt.network)}
      /\ rt' = rt \/ rt' = [rt EXCEPT !.network = 0]
      /\ UNCHANGED <<script, mem, disk, renewer, abort, split, untold, lost, desired>>
  BY DEF HealNetwork, Forget, Op, Cur, NoFault
<1>2. Moves
  BY <1>1, MoveStep
<1>a. rt \in Runtimes /\ \A c \in Components : rt[c] <= rt.seq
  BY DEF ScenarioInv, TypeOK
<1>b. /\ rt' \in Runtimes /\ rt'.spam = rt.spam /\ rt'.mining = rt.mining
      /\ rt'.paused = rt.paused /\ rt'.changed = rt.changed /\ rt'.seq = rt.seq
      /\ rt'.network \in {rt.network, 0}
  BY <1>1, <1>a DEF Runtimes
<1>c. \A c \in Components : rt'[c] <= rt'.seq
  <2>1. rt.seq \in Nat /\ rt.spam <= rt.seq /\ rt.mining <= rt.seq /\ rt.network <= rt.seq
    BY <1>a DEF Runtimes, Components, Workers
  <2>2. rt'.spam <= rt'.seq /\ rt'.mining <= rt'.seq /\ rt'.network <= rt'.seq
    BY <1>b, <2>1
  <2> QED
    BY <2>2 DEF Components, Workers
<1>3. RestTyped
  BY <1>1, <1>b, <1>c, FaultFacts DEF ScenarioInv, RestTyped, TypeOK
<1>4. TableKept /\ mem'.checkpoints = mem.checkpoints
  BY <1>1, TableFacts
<1>5. WorkersKept
  <2>1. Lease("network", rt.network).c \notin Workers
    BY DEF Lease, Workers
  <2> QED
    BY <1>1, <1>b, <2>1 DEF WorkersKept
<1>6. Paused' /\ SplitPlace' /\ Guarded'
  BY <1>1, <1>2, <1>5, <1>b, PlainMove
<1> QED
  BY <1>1, <1>2, <1>3, <1>4, <1>6, MoveKeptPlain

\* The flag of the pause.
LEMMA MarkStep ==
  ASSUME ScenarioInv, MarkPaused
  PROVE  Kept
<1> DEFINE b == Cur = "mark_paused"
<1>1. /\ thread.at = "step" /\ thread' = NextOp
      /\ Cur \in {"mark_paused", "mark_resumed"}
      /\ rt' = [rt EXCEPT !.paused = b]
      /\ UNCHANGED <<script, mem, disk, renewer, held, abort, split, untold, lost, desired, faults>>
  BY DEF MarkPaused, Op, Cur
<1>2. Moves
  BY <1>1, MoveStep
<1>a. rt \in Runtimes /\ \A c \in Components : rt[c] <= rt.seq
  BY DEF ScenarioInv, TypeOK
<1>b. /\ rt' \in Runtimes /\ rt'.spam = rt.spam /\ rt'.mining = rt.mining
      /\ rt'.paused = b /\ rt'.changed = rt.changed /\ rt'.seq = rt.seq
      /\ rt'.network = rt.network
  BY <1>1, <1>a DEF Runtimes
<1>c. \A c \in Components : rt'[c] <= rt'.seq
  BY <1>a, <1>b DEF Components, Workers
<1>3. RestTyped
  BY <1>1, <1>b, <1>c, FaultFacts DEF ScenarioInv, RestTyped, TypeOK, NoFault
<1>4. TableKept /\ mem'.checkpoints = mem.checkpoints
  BY <1>1, TableFacts
<1>p. /\ Cur = "mark_paused" <=> StepType = "pause_mining"
      /\ Cur = "mark_resumed" <=> StepType = "resume_mining"
      /\ StepType' = StepType /\ Cur' = Ops[thread'.op] /\ PausedByScript' = PausedByScript
      /\ Holds("spam")' = Holds("spam") /\ Holds("mining")' = Holds("mining")
      /\ OfComponent("spam")' = OfComponent("spam")
  <2>1. Belongs(StepType, Cur) /\ Cur \in {"mark_paused", "mark_resumed"}
    BY <1>1, ThreadFacts DEF ScenarioInv
  <2>2. script' = script /\ held' = held
    BY <1>1
  <2> QED
    BY <1>2, <1>b, <2>1, <2>2, SamePlace DEF Belongs, Holds, OfComponent
<1>q. PausedByScript => StepType # "resume_mining"
  <2>1. thread.step \in 1 .. Len(script.steps) /\ Len(script.steps) \in Nat
    BY ThreadFacts, ScriptFacts DEF ScenarioInv
  <2>2. ASSUME NEW i \in 1 .. (thread.step - 1) PROVE thread.step \in (i + 1) .. thread.step
    BY <2>1
  <2> QED
    BY <2>2 DEF PausedByScript, StepType
<1> HIDE DEF b
<1>5. Paused'
  <2>1. Engine /\ Engine'
    BY <1>2 DEF Moves, Engine
  <2> QED
    BY <1>1, <1>b, <1>p, <1>q, <2>1 DEF ScenarioInv, Paused, b
<1>6. SplitPlace'
  BY <1>1, <1>2, SplitMove
<1>7. Guarded'
  <2>1. CASE lost
    BY <1>1, <2>1 DEF Guarded
  <2>2. CASE ~lost
    <3>1. Leased /\ SplitHeld /\ Telling
      BY <2>2 DEF ScenarioInv, Guarded
    <3>a. thread'.at # "step" \/ Needs(StepType, Ops[thread'.op]) = {}
      <4>1. ASSUME thread'.at = "step" PROVE Ops[thread'.op] # "mark_paused"
        BY <1>1, <1>2, <4>1 DEF Moves, Follows
      <4> QED
        BY <1>p, <1>1, <4>1 DEF Needs
    <3>b. b => Holds("mining")
      BY <1>1, <1>p, <3>1 DEF Leased, Needs, b
    <3>c. \A w \in Workers : rt'[w] = rt[w] /\ (Holds(w) => Holds(w)')
      BY <1>b, <1>p DEF Workers
    <3>d. thread.failed => thread'.failed
      BY <1>2 DEF Moves
    <3>3. Leased'
      BY <1>1, <1>b, <1>p, <3>1, <3>a, <3>b, <3>c, <3>d DEF Leased
    <3>4. SplitHeld'
      <4>1. Stepping /\ thread'.at # "recover"
        BY <1>1, <1>2 DEF Stepping, Engine, Moves
      <4> QED
        BY <1>1, <3>1, <3>c, <4>1 DEF SplitHeld
    <3>5. Telling'
      <4>1. Stepping /\ ~Op("settle")
        BY <1>1 DEF Stepping, Engine, Op, Cur
      <4> QED
        BY <1>1, <1>b, <1>p, <3>1, <4>1 DEF Telling
    <3> QED
      BY <3>3, <3>4, <3>5 DEF Guarded
  <2> QED
    BY <2>1, <2>2
<1> QED
  BY <1>1, <1>2, <1>3, <1>4, <1>5, <1>6, <1>7, MoveKeptPlain

\* The tables and counters of a reorg or partition operation.
LEMMA ReorgFrame ==
  ASSUME ScenarioInv, thread.at = "step",
         UNCHANGED <<script, renewer, held, abort, lost, desired>>,
         rt' = rt \/ \E b \in BOOLEAN : rt' = [rt EXCEPT !.changed = b],
         mem' = mem \/ \E x \in {"none", "possible", "known"} : mem' = [mem EXCEPT !.context = x],
         disk' \in {disk, mem'}, Fault \/ NoFault, untold' \in {untold, TRUE},
         split' \in {split, "no", "reorg", "partition"}
  PROVE  /\ RestTyped /\ TableKept /\ WorkersKept
         /\ mem'.checkpoints = mem.checkpoints /\ rt'.paused = rt.paused
<1>a. rt \in Runtimes /\ mem \in Records /\ mem.state # "none"
      /\ \A c \in Components : rt[c] <= rt.seq
  BY TableFacts DEF ScenarioInv, TypeOK
<1>b. /\ rt' \in Runtimes /\ rt'.spam = rt.spam /\ rt'.mining = rt.mining
      /\ rt'.paused = rt.paused /\ rt'.seq = rt.seq /\ rt'.network = rt.network
  BY <1>a DEF Runtimes
<1>c. \A c \in Components : rt'[c] <= rt'.seq
  BY <1>a, <1>b DEF Components, Workers
<1>d. /\ mem' \in Records /\ mem'.state = mem.state /\ mem'.active = mem.active
      /\ mem'.backup = mem.backup /\ mem'.checkpoints = mem.checkpoints
  BY <1>a DEF Records
<1>e. disk' \in Records /\ untold' \in BOOLEAN /\ split' \in {"no", "reorg", "partition"}
      /\ faults' \in 0 .. MaxFaults
  BY <1>d, FaultFacts DEF ScenarioInv, TypeOK
<1>f. /\ script' = script /\ renewer' = renewer /\ held' = held /\ abort' = abort
      /\ lost' = lost /\ desired' = desired
  OBVIOUS
<1>1. RestTyped
  BY <1>b, <1>c, <1>d, <1>e, <1>f DEF ScenarioInv, RestTyped, TypeOK
<1>2. TableKept
  BY <1>a, <1>d DEF TableKept
<1>3. WorkersKept
  BY <1>b DEF WorkersKept
<1> QED
  BY <1>1, <1>2, <1>3, <1>b, <1>d

\* The intent of a reorg is saved before the nodes are touched.
LEMMA PrepareStep ==
  ASSUME ScenarioInv, PrepareReorg
  PROVE  Kept
<1>1. /\ thread.at = "step" /\ Cur = "prepare" /\ (thread' = NextOp \/ thread' = FailOp)
      /\ mem' = [mem EXCEPT !.context = "possible"] /\ disk' \in {disk, mem'}
      /\ \/ thread' = NextOp /\ disk' = mem'
         \/ thread' = FailOp
      /\ Fault \/ NoFault
      /\ UNCHANGED <<script, rt, renewer, held, abort, split, untold, lost, desired>>
  BY DEF PrepareReorg, Op, Cur
<1>2. Moves
  BY <1>1, MoveStep
<1>3. /\ RestTyped /\ TableKept /\ WorkersKept
      /\ mem'.checkpoints = mem.checkpoints /\ rt'.paused = rt.paused
  BY <1>1, ReorgFrame
<1>4. StepType = "reorg" /\ StepType' = StepType /\ Ops' = Ops /\ Cur' = Ops[thread'.op]
  BY <1>1, <1>2, SamePlace, ThreadFacts DEF ScenarioInv, Belongs
<1>5. SplitPlace'
  <2>1. split = "no"
    BY <1>1, <1>4 DEF ScenarioInv, TypeOK, SplitPlace, Op, Cur, Stepping, Engine
  <2>2. ~Op("settle")'
    BY <1>1, <1>2, <1>4 DEF Op, Cur, Moves, Follows
  <2>3. ASSUME Op("mutate")' PROVE mem'.context # "none" /\ disk'.context # "none"
    <3>1. thread' # FailOp \/ Cur \in Tolerated(StepType)
      BY <1>1, <2>3, MoveFacts DEF ScenarioInv, Op
    <3>2. thread' = NextOp /\ disk' = mem'
      BY <1>1, <1>4, <3>1 DEF Tolerated
    <3>3. mem'.context = "possible"
      BY <1>1 DEF ScenarioInv, TypeOK, Records
    <3> QED
      BY <3>2, <3>3
  <2> QED
    BY <1>1, <2>1, <2>2, <2>3 DEF SplitPlace
<1>6. Paused' /\ Guarded'
  BY <1>1, <1>2, <1>3, PausedMove, GuardedPlain
<1> QED
  BY <1>1, <1>2, <1>3, <1>5, <1>6, MoveKeptPlain

\* A block is invalidated.
LEMMA MutateStep ==
  ASSUME ScenarioInv, MutateReorg
  PROVE  Kept
<1> DEFINE known == [mem EXCEPT !.context = "known"]
<1>1. /\ thread.at = "step" /\ Cur = "mutate"
      /\ thread' = NextOp \/ thread' = [NextOp EXCEPT !.failed = TRUE]
      /\ \/ /\ mem' = known /\ split' = "reorg" /\ untold' = TRUE
         \/ /\ mem' = mem /\ split' = split /\ untold' = untold
      /\ disk' \in {disk, mem'}
      /\ Fault \/ NoFault
      /\ UNCHANGED <<script, rt, renewer, held, abort, lost, desired>>
  BY DEF MutateReorg, SaveBestEffort, Op, Cur
<1>2. Moves
  BY <1>1, MoveStep
<1>3. /\ RestTyped /\ TableKept /\ WorkersKept
      /\ mem'.checkpoints = mem.checkpoints /\ rt'.paused = rt.paused
  BY <1>1, ReorgFrame
<1>4. StepType = "reorg" /\ StepType' = StepType /\ Ops' = Ops /\ Cur' = Ops[thread'.op]
  BY <1>1, <1>2, SamePlace, ThreadFacts DEF ScenarioInv, Belongs
<1>5. Op("settle")'
  <2>1. NextOp.at = "step" /\ NextOp \in Threads
    BY <1>1, <1>4, MoveFacts DEF ScenarioInv, Closes
  <2>2. thread'.at = "step"
    BY <1>1, <2>1 DEF Threads
  <2> QED
    BY <1>1, <1>2, <1>4, <2>2 DEF Moves, Follows, Op, Cur
<1>6. SplitPlace'
  <2>1. mem.context # "none" /\ disk.context # "none" /\ split # "partition"
    BY <1>1, <1>4 DEF ScenarioInv, SplitPlace, Op, Cur, Stepping, Engine
  <2>2. mem'.context # "none" /\ disk'.context # "none"
    BY <1>1, <2>1 DEF ScenarioInv, TypeOK, Records
  <2> QED
    BY <1>1, <1>5, <2>1, <2>2 DEF SplitPlace
<1>7. Paused'
  BY <1>1, <1>2, <1>3, PausedMove
<1>8. Guarded'
  <2>1. CASE split' = "reorg" /\ untold' = TRUE
    <3>1. lost \/ Holds("spam")
      BY <1>1, <1>4 DEF ScenarioInv, Guarded, Leased, Needs, Workers
    <3>2. CASE lost
      BY <1>1, <3>2 DEF Guarded
    <3>3. CASE Holds("spam")
      BY <1>1, <1>2, <1>3, <1>5, <2>1, <3>3, GuardedMove
    <3> QED
      BY <3>1, <3>2, <3>3
  <2>2. CASE split' = split /\ untold' = untold
    BY <1>1, <1>2, <1>3, <2>2, GuardedPlain
  <2> QED
    BY <1>1, <2>1, <2>2
<1> QED
  BY <1>1, <1>2, <1>3, <1>6, <1>7, <1>8, MoveKeptPlain

\* The reorg is over, one way or the other.
LEMMA SettleStep ==
  ASSUME ScenarioInv, SettleReorg
  PROVE  Kept
<1>1. /\ thread.at = "step" /\ Cur = "settle" /\ (thread' = NextOp \/ thread' = FailOp)
      /\ split' = "no" /\ rt' = [rt EXCEPT !.changed = @ \/ split = "reorg"]
      /\ Fault \/ NoFault
      /\ UNCHANGED <<script, mem, disk, renewer, held, abort, untold, lost, desired>>
  BY DEF SettleReorg, Op, Cur
<1>2. Moves
  BY <1>1, MoveStep
<1>a. rt \in Runtimes
  BY DEF ScenarioInv, TypeOK
<1>b. rt'.changed = (rt.changed \/ split = "reorg")
      /\ (rt.changed \/ split = "reorg") \in BOOLEAN /\ rt.changed \in BOOLEAN
  BY <1>1, <1>a DEF Runtimes
<1>3. /\ RestTyped /\ TableKept /\ WorkersKept
      /\ mem'.checkpoints = mem.checkpoints /\ rt'.paused = rt.paused
  BY <1>1, <1>b, ReorgFrame
<1>4. StepType' = StepType /\ Ops' = Ops /\ Cur' = Ops[thread'.op]
  BY <1>1, <1>2, SamePlace
<1>5. SplitPlace'
  BY <1>1, <1>2, <1>4 DEF SplitPlace, Op, Cur, Moves, Follows
<1>6. Paused'
  BY <1>1, <1>2, <1>3, PausedMove
<1>7. Guarded'
  BY <1>1, <1>2, <1>3, <1>b, GuardedPlain
<1> QED
  BY <1>1, <1>2, <1>3, <1>5, <1>6, <1>7, MoveKeptPlain

\* The reorg is marked as safe.
LEMMA SafeStep ==
  ASSUME ScenarioInv, MarkReorgSafe
  PROVE  Kept
<1>1. /\ thread.at = "step" /\ Cur = "mark_safe" /\ thread' = NextOp
      /\ mem' = [mem EXCEPT !.context = "none"] /\ disk' \in {disk, mem'}
      /\ Fault \/ NoFault
      /\ UNCHANGED <<script, rt, renewer, held, abort, split, untold, lost, desired>>
  BY DEF MarkReorgSafe, SaveBestEffort, Op, Cur
<1>2. Moves
  BY <1>1, MoveStep
<1>3. /\ RestTyped /\ TableKept /\ WorkersKept
      /\ mem'.checkpoints = mem.checkpoints /\ rt'.paused = rt.paused
  BY <1>1, ReorgFrame
<1>4. Paused' /\ SplitPlace' /\ Guarded'
  BY <1>1, <1>2, <1>3, PlainMove
<1> QED
  BY <1>1, <1>2, <1>3, <1>4, MoveKeptPlain

\* A node is cut off.
LEMMA SplitStep ==
  ASSUME ScenarioInv, SplitNetwork
  PROVE  Kept
<1>1. /\ thread.at = "step" /\ Cur = "split" /\ (thread' = NextOp \/ thread' = FailOp)
      /\ \/ /\ split' = "partition" /\ untold' = TRUE
            /\ rt' = [rt EXCEPT !.changed = TRUE]
         \/ UNCHANGED <<split, untold, rt>>
      /\ Fault \/ NoFault
      /\ UNCHANGED <<script, mem, disk, renewer, held, abort, lost, desired>>
  BY DEF SplitNetwork, Op, Cur
<1>2. Moves
  BY <1>1, MoveStep
<1>3. /\ RestTyped /\ TableKept /\ WorkersKept
      /\ mem'.checkpoints = mem.checkpoints /\ rt'.paused = rt.paused
  BY <1>1, ReorgFrame
<1>4. StepType = "partition" /\ StepType' = StepType /\ Ops' = Ops /\ Cur' = Ops[thread'.op]
  BY <1>1, <1>2, SamePlace, ThreadFacts DEF ScenarioInv, Belongs
<1>5. CASE UNCHANGED <<split, untold, rt>>
  <2>1. Paused' /\ SplitPlace' /\ Guarded'
    BY <1>1, <1>2, <1>3, <1>5, PlainMove
  <2> QED
    BY <1>1, <1>2, <1>3, <2>1, MoveKeptPlain
<1>6. CASE split' = "partition" /\ untold' = TRUE /\ rt' = [rt EXCEPT !.changed = TRUE]
  <2>1. SplitPlace'
    <3>1. ~Op("settle")' /\ ~Op("mutate")'
      BY <1>1, <1>2, <1>4 DEF Op, Cur, Moves, Follows
    <3>2. thread'.at = "step" => Cur' = "heal"
      BY <1>1, <1>2, <1>4 DEF Moves, Follows
    <3>3. thread'.at # "step" => thread'.failed
      BY <1>1, <1>2, <1>4 DEF Moves, Closes
    <3> QED
      BY <1>4, <1>6, <3>1, <3>2, <3>3 DEF SplitPlace
  <2>2. Paused'
    BY <1>1, <1>2, <1>3, PausedMove
  <2>3. rt'.changed
    BY <1>6 DEF ScenarioInv, TypeOK, Runtimes
  <2>4. lost \/ \A w \in Workers : Holds(w)
    BY <1>1, <1>4 DEF ScenarioInv, Guarded, Leased, Needs
  <2>5. Guarded'
    <3>1. CASE lost
      BY <1>1, <3>1 DEF Guarded
    <3>2. CASE \A w \in Workers : Holds(w)
      <4>1. Holds("spam")
        BY <3>2 DEF Workers
      <4> QED
        BY <1>1, <1>2, <1>3, <2>3, <3>2, <4>1, GuardedMove
    <3> QED
      BY <2>4, <3>1, <3>2
  <2> QED
    BY <1>1, <1>2, <1>3, <2>1, <2>2, <2>5, MoveKeptPlain
<1> QED
  BY <1>1, <1>5, <1>6

\* The nodes come together again, or the step fails.
LEMMA ConvergeStep ==
  ASSUME ScenarioInv, ConvergePartition
  PROVE  Kept
<1>1. /\ thread.at = "step" /\ Cur = "converge"
      /\ \/ split' = "no" /\ thread' = NextOp
         \/ split' = split /\ thread' = FailOp
      /\ Fault \/ NoFault
      /\ UNCHANGED <<script, mem, disk, rt, renewer, held, abort, untold, lost, desired>>
  BY DEF ConvergePartition, Op, Cur
<1>2. Moves
  BY <1>1, MoveStep
<1>3. /\ RestTyped /\ TableKept /\ WorkersKept
      /\ mem'.checkpoints = mem.checkpoints /\ rt'.paused = rt.paused
  BY <1>1, ReorgFrame
<1>4. StepType = "partition" /\ StepType' = StepType /\ Ops' = Ops /\ Cur' = Ops[thread'.op]
  BY <1>1, <1>2, SamePlace, ThreadFacts DEF ScenarioInv, Belongs
<1>5. SplitPlace'
  <2>1. ~Op("settle")' /\ ~Op("mutate")'
    BY <1>1, <1>2, <1>4 DEF Op, Cur, Moves, Follows
  <2>2. CASE split' = "no"
    BY <2>1, <2>2 DEF SplitPlace
  <2>3. CASE split' = split /\ thread' = FailOp
    <3>1. Cur \notin Tolerated(StepType)
      BY <1>1, <1>4 DEF Tolerated
    <3>2. thread'.failed /\ thread'.at = "boundary"
      BY <1>1, <2>3, <3>1, MoveFacts DEF ScenarioInv
    <3>3. split # "reorg"
      BY <1>1 DEF ScenarioInv, SplitPlace, Op, Cur
    <3> QED
      BY <2>1, <2>3, <3>2, <3>3 DEF SplitPlace
  <2> QED
    BY <1>1, <2>2, <2>3
<1>6. Paused'
  BY <1>1, <1>2, <1>3, PausedMove
<1>7. Guarded'
  BY <1>1, <1>2, <1>3, GuardedPlain
<1> QED
  BY <1>1, <1>2, <1>3, <1>5, <1>6, <1>7, MoveKeptPlain

\* A lease is asked for: it is held and known, or the step is over.
LEMMA AcquireFacts ==
  ASSUME ScenarioInv, thread.at = "step", NEW c \in Components, Acquire(c),
         UNCHANGED <<script, renewer, abort, split, untold, lost, desired>>
  PROVE  /\ RestTyped /\ TableKept /\ mem'.checkpoints = mem.checkpoints
         /\ rt'.paused = rt.paused /\ rt'.changed = rt.changed
         /\ \A d \in Components : d # c => rt'[d] = rt[d]
         /\ held \subseteq held'
         /\ \/ thread' = FailOp /\ rt'[c] = rt[c]
            \/ /\ thread' = [NextOp EXCEPT !.acquired = @ \cup {c}]
               /\ rt'[c] = rt.seq + 1 /\ rt'[c] # 0 /\ Lease(c, rt'[c]) \in held'
<1> DEFINE l == Lease(c, rt.seq + 1)
           i == mem.intents \cup {l}
           m == [mem EXCEPT !.intents = i]
<1>a. /\ rt \in Runtimes /\ mem \in Records /\ mem.state # "none" /\ disk \in Records
      /\ held \subseteq [c : Components, id : Nat]
      /\ \A d \in Components : rt[d] <= rt.seq
  BY TableFacts DEF ScenarioInv, TypeOK
<1>b. rt.seq \in Nat /\ rt.seq + 1 \in Nat /\ rt.seq + 1 # 0
  BY <1>a DEF Runtimes
<1>c. l \in [c : Components, id : Nat] /\ l.id = rt.seq + 1
  BY <1>b DEF Lease
<1>d. i \in SUBSET [c : Components, id : Nat]
  BY <1>a, <1>c DEF Records
<1> HIDE DEF i
<1>e. /\ m \in Records /\ m.state = mem.state /\ m.active = mem.active
      /\ m.backup = mem.backup /\ m.checkpoints = mem.checkpoints
  BY <1>a, <1>d DEF Records
<1> HIDE DEF m
<1>1. /\ mem' = m /\ disk' \in {disk, m} /\ held' \in {held, held \cup {l}}
      /\ Fault \/ NoFault
      /\ \/ thread' = FailOp /\ rt' = [rt EXCEPT !.seq = rt.seq + 1]
         \/ /\ thread' = [NextOp EXCEPT !.acquired = @ \cup {c}] /\ held' = held \cup {l}
            /\ rt' = [rt EXCEPT !.seq = rt.seq + 1, ![c] = l.id]
  BY DEF Acquire, m, i, l
<1>2. ASSUME rt' = [rt EXCEPT !.seq = rt.seq + 1]
      PROVE  /\ rt' \in Runtimes /\ rt'.paused = rt.paused /\ rt'.changed = rt.changed
             /\ rt'.seq = rt.seq + 1 /\ \A d \in Components : rt'[d] = rt[d]
  BY <1>2, <1>a, <1>b DEF Runtimes, Components, Workers
<1>3. ASSUME rt' = [rt EXCEPT !.seq = rt.seq + 1, ![c] = l.id]
      PROVE  /\ rt' \in Runtimes /\ rt'.paused = rt.paused /\ rt'.changed = rt.changed
             /\ rt'.seq = rt.seq + 1 /\ rt'[c] = rt.seq + 1
             /\ \A d \in Components : d # c => rt'[d] = rt[d]
  <2> DEFINE r == [rt EXCEPT !.seq = rt.seq + 1]
  <2>1. rt' = [r EXCEPT ![c] = rt.seq + 1]
    BY <1>3, <1>a, <1>c DEF Runtimes
  <2>2. r \in Runtimes /\ r.paused = rt.paused /\ r.changed = rt.changed
        /\ r.seq = rt.seq + 1 /\ \A d \in Components : r[d] = rt[d]
    BY <1>a, <1>b DEF Runtimes, Components, Workers
  <2> HIDE DEF r
  <2>3. CASE c = "spam"
    BY <1>b, <2>1, <2>2, <2>3 DEF Runtimes, Components, Workers
  <2>4. CASE c = "mining"
    BY <1>b, <2>1, <2>2, <2>4 DEF Runtimes, Components, Workers
  <2>5. CASE c = "network"
    BY <1>b, <2>1, <2>2, <2>5 DEF Runtimes, Components, Workers
  <2> QED
    BY <2>3, <2>4, <2>5 DEF Components, Workers
<1>4. /\ rt' \in Runtimes /\ rt'.paused = rt.paused /\ rt'.changed = rt.changed
      /\ rt'.seq = rt.seq + 1 /\ rt'[c] \in {rt[c], rt.seq + 1}
      /\ \A d \in Components : d # c => rt'[d] = rt[d]
  BY <1>1, <1>2, <1>3
<1>5. \A d \in Components : rt'[d] <= rt'.seq
  <2>1. \A d \in Components : rt[d] <= rt.seq + 1 /\ rt.seq + 1 <= rt.seq + 1
    <3>1. ASSUME NEW d \in Components PROVE rt[d] \in Nat
      BY <1>a DEF Runtimes, Components, Workers
    <3> QED
      BY <1>a, <1>b, <3>1
  <2> QED
    BY <1>4, <2>1
<1>6. RestTyped
  BY <1>1, <1>4, <1>5, <1>a, <1>c, <1>e, FaultFacts DEF ScenarioInv, RestTyped, TypeOK
<1>7. TableKept
  BY <1>1, <1>a, <1>e DEF TableKept
<1>8. \/ thread' = FailOp /\ rt'[c] = rt[c]
      \/ /\ thread' = [NextOp EXCEPT !.acquired = @ \cup {c}]
         /\ rt'[c] = rt.seq + 1 /\ rt'[c] # 0 /\ Lease(c, rt'[c]) \in held'
  BY <1>1, <1>2, <1>3, <1>b
<1> QED
  BY <1>1, <1>4, <1>6, <1>7, <1>8, <1>e

\* What a step needs after it has taken a worker.
LEMMA NeedsAfterTake ==
  ASSUME ScenarioInv, NEW w \in Workers, Cur = TakeOp(w), NEW n, Follows(StepType, Cur, n)
  PROVE  Needs(StepType, n) \subseteq {w} \cup Needs(StepType, Cur)
<1>1. Belongs(StepType, Cur)
  BY ThreadFacts DEF ScenarioInv
<1>2. CASE w = "spam"
  <2>1. Cur = "take_spam"
    BY <1>2 DEF TakeOp
  <2> QED
    BY <1>1, <1>2, <2>1 DEF Belongs, Follows, Needs
<1>3. CASE w = "mining"
  <2>1. Cur = "take_mining"
    BY <1>3 DEF TakeOp
  <2> QED
    BY <1>1, <1>3, <2>1 DEF Belongs, Follows, Needs, Workers
<1> QED
  BY <1>2, <1>3 DEF Workers

\* A worker is taken.
LEMMA TakeWorkerStep ==
  ASSUME ScenarioInv, NEW w \in Workers, Take(w)
  PROVE  Kept
<1>1. /\ thread.at = "step" /\ Cur = TakeOp(w) /\ w \in Components
      /\ \/ /\ rt[w] # 0 /\ thread' = NextOp
            /\ UNCHANGED <<mem, disk, rt, held, faults>>
         \/ rt[w] = 0 /\ Acquire(w)
      /\ UNCHANGED <<script, renewer, abort, split, untold, lost, desired>>
  BY DEF Take, Op, Cur, Components
<1>2. Cur \in {"take_spam", "take_mining"}
  BY <1>1 DEF TakeOp, Workers
<1>3. ~thread.failed /\ Cur \notin Tolerated(StepType)
  BY <1>1, <1>2 DEF ScenarioInv, FailedLate, Late, Tolerated
<1>4. /\ RestTyped /\ TableKept /\ mem'.checkpoints = mem.checkpoints
      /\ rt'.paused = rt.paused /\ rt'.changed = rt.changed
      /\ \A d \in Workers : d # w \/ rt[w] # 0 => rt'[d] = rt[d]
      /\ held \subseteq held'
      /\ \/ thread' = FailOp /\ rt'[w] = rt[w]
         \/ /\ \/ thread' = NextOp
               \/ thread' = [NextOp EXCEPT !.acquired = @ \cup {w}]
            /\ rt'[w] # 0
            /\ rt[w] = 0 => Lease(w, rt'[w]) \in held'
  <2>1. CASE rt[w] = 0 /\ Acquire(w)
    BY <1>1, <2>1, AcquireFacts DEF Components
  <2>2. CASE rt[w] # 0 /\ thread' = NextOp /\ UNCHANGED <<mem, disk, rt, held, faults>>
    <3>1. RestTyped
      BY <1>1, <2>2, FaultFacts DEF ScenarioInv, RestTyped, TypeOK
    <3> QED
      BY <1>1, <2>2, <3>1, TableFacts
  <2> QED
    BY <1>1, <2>1, <2>2
<1>5. Moves /\ (thread' = FailOp => thread'.at = "boundary" /\ thread'.failed)
  <2>1. Moves
    BY <1>1, <1>4, MoveStep
  <2> QED
    BY <1>1, <1>3, <2>1, MoveFacts DEF ScenarioInv
<1>6. Paused' /\ SplitPlace'
  BY <1>1, <1>2, <1>4, <1>5, PausedMove, SplitMove
<1>7. StepType' = StepType /\ Ops' = Ops /\ Cur' = Ops[thread'.op]
  BY <1>1, <1>5, SamePlace
<1>8. ASSUME NEW v \in Workers, Holds(v) PROVE Holds(v)'
  BY <1>4, <1>8 DEF Holds
<1>9. ASSUME Leased, SplitHeld, Telling PROVE Leased' /\ SplitHeld' /\ Telling'
  <2>1. \A v \in Workers : rt[v] # 0 => Holds(v)
    BY <1>1, <1>3, <1>9 DEF Leased
  <2>2. thread' # FailOp => Holds(w)'
    <3>1. CASE rt[w] # 0
      BY <1>8, <2>1, <3>1
    <3>2. CASE rt[w] = 0
      BY <1>4, <3>2 DEF Holds
    <3> QED
      BY <3>1, <3>2
  <2>3. ASSUME thread'.at = "step", NEW v \in Needs(StepType, Ops[thread'.op]) PROVE Holds(v)'
    <3>1. v \in {w} \cup Needs(StepType, Cur)
      BY <1>1, <1>5, <2>3, NeedsAfterTake DEF Moves
    <3>2. Needs(StepType, Cur) \subseteq Workers
      BY DEF Needs, Workers
    <3>3. thread' # FailOp
      BY <1>5, <2>3
    <3> QED
      BY <1>1, <1>8, <1>9, <2>2, <3>1, <3>2, <3>3 DEF Leased
  <2>4. ~thread'.failed => \A v \in Workers : rt'[v] # 0 => Holds(v)'
    BY <1>4, <1>5, <1>8, <2>1, <2>2
  <2>5. rt'.paused /\ StepType # "resume_mining" => Holds("mining")'
    BY <1>1, <1>4, <1>8, <1>9 DEF Leased, Engine, Workers
  <2>6. Leased'
    BY <1>7, <2>3, <2>4, <2>5 DEF Leased
  <2>7. Stepping /\ thread'.at # "recover" /\ ~Op("settle")
    BY <1>1, <1>2, <1>5 DEF Stepping, Engine, Moves, Op, Cur
  <2>8. SplitHeld'
    BY <1>1, <1>8, <1>9, <2>7 DEF SplitHeld
  <2>9. OfComponent("spam") \subseteq OfComponent("spam")'
    BY <1>4 DEF OfComponent
  <2>10. Telling'
    BY <1>1, <1>4, <1>9, <2>7, <2>9 DEF Telling
  <2> QED
    BY <2>6, <2>8, <2>10
<1>10. Guarded'
  BY <1>1, <1>9 DEF ScenarioInv, Guarded
<1>11. Cur # "hold"
  BY <1>2
<1> QED
  BY <1>4, <1>5, <1>6, <1>10, <1>11, MoveKeptPlain

\* The network is impaired.
LEMMA TakeNetworkStep ==
  ASSUME ScenarioInv, Take("network")
  PROVE  Kept
<1>1. /\ thread.at = "step" /\ Cur = "impair" /\ Acquire("network")
      /\ UNCHANGED <<script, renewer, abort, split, untold, lost, desired>>
  BY DEF Take, TakeOp, Op, Cur, Workers
<1>2. /\ RestTyped /\ TableKept /\ mem'.checkpoints = mem.checkpoints
      /\ rt'.paused = rt.paused /\ rt'.changed = rt.changed
      /\ \A d \in Components : d # "network" => rt'[d] = rt[d]
      /\ held \subseteq held'
      /\ \/ thread' = FailOp
         \/ thread' = [NextOp EXCEPT !.acquired = @ \cup {"network"}]
  BY <1>1, AcquireFacts DEF Components
<1>3. Moves
  BY <1>1, <1>2, MoveStep DEF Components
<1>4. WorkersKept
  BY <1>2 DEF WorkersKept, Components, Workers
<1>5. Paused' /\ SplitPlace' /\ Guarded'
  BY <1>1, <1>2, <1>3, <1>4, PlainMove
<1> QED
  BY <1>1, <1>2, <1>3, <1>5, MoveKeptPlain

\* A worker is freed, or kept because another step has taken it.
LEMMA FreeStep ==
  ASSUME ScenarioInv, NEW w \in Workers, Free(w)
  PROVE  Kept
<1> DEFINE l == Lease(w, rt[w])
<1>1. /\ thread.at = "step" /\ Cur = FreeOp(w) /\ (thread' = NextOp \/ thread' = FailOp)
      /\ \/ rt' = rt /\ held' = held /\ untold' = untold /\ thread' = NextOp
         \/ /\ GivesBack(w) /\ held' = held \ {l} /\ untold' = Told(w)
            /\ rt' = [rt EXCEPT ![w] = 0]
         \/ /\ GivesBack(w) /\ rt' = rt /\ thread' = FailOp
            /\ \/ held' = held /\ untold' = untold
               \/ held' = held \ {l} /\ untold' = Told(w)
      /\ Fault \/ NoFault
      /\ UNCHANGED <<script, mem, disk, renewer, abort, split, lost, desired>>
  BY DEF Free, Op, Cur, NoFault
<1>2. Cur \in {"free_spam", "free_mining"} /\ Belongs(StepType, Cur)
      /\ (w = "spam" <=> Cur = "free_spam")
  BY <1>1, ThreadFacts DEF ScenarioInv, FreeOp, Workers
<1>a. rt \in Runtimes /\ untold \in BOOLEAN /\ \A c \in Components : rt[c] <= rt.seq
  BY DEF ScenarioInv, TypeOK
<1>b. /\ rt' \in Runtimes /\ rt'.paused = rt.paused /\ rt'.changed = rt.changed
      /\ rt'.seq = rt.seq /\ rt'[w] \in {0, rt[w]}
      /\ \A c \in Components : c # w => rt'[c] = rt[c]
  <2>1. CASE w = "spam"
    BY <1>1, <1>a, <2>1 DEF Runtimes, Components, Workers
  <2>2. CASE w = "mining"
    BY <1>1, <1>a, <2>2 DEF Runtimes, Components, Workers
  <2> QED
    BY <2>1, <2>2 DEF Workers
<1>c. \A c \in Components : rt'[c] <= rt'.seq
  <2>1. rt.seq \in Nat
    BY <1>a DEF Runtimes
  <2> QED
    BY <1>a, <1>b, <2>1
<1>d. untold' \in BOOLEAN
  BY <1>1, <1>a DEF Told
<1>3. RestTyped
  BY <1>1, <1>b, <1>c, <1>d, FaultFacts DEF ScenarioInv, RestTyped, TypeOK
<1>4. TableKept /\ mem'.checkpoints = mem.checkpoints
  BY <1>1, TableFacts
<1>5. Moves /\ (thread' = FailOp => thread'.failed)
  BY <1>1, MoveStep, MoveFacts DEF ScenarioInv
<1>6. Paused' /\ SplitPlace'
  BY <1>1, <1>2, <1>b, <1>5, PausedMove, SplitMove
<1>7. StepType' = StepType /\ Ops' = Ops /\ Cur' = Ops[thread'.op]
  BY <1>1, <1>5, SamePlace
<1>8. ASSUME NEW v \in Workers, v # w
      PROVE  /\ Holds(v) => Holds(v)'
             /\ OfComponent(v) # {} => OfComponent(v)' # {}
  <2>1. rt'[v] = rt[v]
    BY <1>b, <1>8 DEF Components
  <2>2. \A k \in held : k.c = v => k \in held'
    BY <1>1, <1>8 DEF Lease
  <2>3. Lease(v, rt[v]).c = v
    BY DEF Lease
  <2> QED
    BY <2>1, <2>2, <2>3 DEF Holds, OfComponent
<1>9. ASSUME Leased, SplitHeld, Telling PROVE Leased' /\ SplitHeld' /\ Telling'
  <2>1. thread'.at = "step" => Needs(StepType, Ops[thread'.op]) = {}
    <3>1. ASSUME thread'.at = "step"
          PROVE  /\ Ops[thread'.op] # "mark_paused"
                 /\ StepType \in {"reorg", "partition"} => Ops[thread'.op] = "free_mining"
      BY <1>2, <1>5, <3>1 DEF Moves, Follows
    <3> QED
      BY <3>1 DEF Needs
  <2>2. ASSUME ~thread'.failed, NEW v \in Workers, rt'[v] # 0 PROVE Holds(v)'
    <3>1. ~thread.failed
      BY <1>5, <2>2 DEF Moves
    <3>2. rt[v] # 0 => Holds(v)
      BY <1>1, <1>9, <3>1 DEF Leased
    <3>3. rt[v] # 0
      BY <1>b, <2>2 DEF Components
    <3>4. CASE v # w
      BY <1>8, <3>2, <3>3, <3>4
    <3>5. CASE v = w
      <4>1. rt'[w] = 0 \/ UNCHANGED <<rt, held>> \/ thread' = FailOp
        <5>1. rt' = [rt EXCEPT ![w] = 0] => rt'[w] = 0
          BY <1>a DEF Runtimes, Workers
        <5> QED
          BY <1>1, <5>1
      <4>2. UNCHANGED <<rt, held>>
        BY <1>5, <2>2, <3>5, <4>1
      <4> QED
        BY <3>2, <3>3, <4>2 DEF Holds
    <3> QED
      BY <3>4, <3>5
  <2>3. ASSUME rt'.paused, StepType # "resume_mining" PROVE Holds("mining")'
    <3>1. Holds("mining")
      BY <1>1, <1>9, <1>b, <2>3 DEF Leased, Engine
    <3>2. CASE w # "mining"
      BY <1>8, <3>1, <3>2 DEF Workers
    <3>3. CASE w = "mining"
      <4>1. ~GivesBack(w)
        BY <1>b, <2>3, <3>3 DEF GivesBack
      <4> QED
        BY <1>1, <3>1, <4>1 DEF Holds
    <3> QED
      BY <3>2, <3>3
  <2>4. Leased'
    BY <1>7, <2>1, <2>2, <2>3 DEF Leased
  <2>5. Stepping /\ thread'.at # "recover" /\ ~Op("settle") /\ split # "partition"
    <3>1. Stepping /\ thread'.at # "recover" /\ ~Op("settle")
      BY <1>1, <1>2, <1>5 DEF Stepping, Engine, Moves, Op, Cur
    <3> QED
      BY <1>1, <1>2, <3>1 DEF ScenarioInv, SplitPlace
  <2>6. SplitHeld'
    BY <1>1, <2>5 DEF SplitHeld
  <2>7. untold => OfComponent("spam") # {} /\ rt.changed
    BY <1>9, <2>5 DEF Telling
  <2>8. ASSUME untold' PROVE untold /\ OfComponent("spam")' # {}
    <3>1. untold
      BY <1>1, <2>8 DEF Told
    <3>2. CASE w # "spam"
      BY <1>8, <2>7, <3>1, <3>2 DEF Workers
    <3>3. CASE w = "spam"
      <4>1. ~Told(w)
        BY <2>7, <3>1, <3>3 DEF Told
      <4>2. held' = held
        BY <1>1, <2>8, <4>1
      <4> QED
        BY <2>7, <3>1, <4>2 DEF OfComponent
    <3> QED
      BY <3>2, <3>3
  <2>9. Telling'
    BY <1>b, <2>7, <2>8 DEF Telling
  <2> QED
    BY <2>4, <2>6, <2>9
<1>10. Guarded'
  BY <1>1, <1>9 DEF ScenarioInv, Guarded
<1>11. Cur # "hold"
  BY <1>2
<1> QED
  BY <1>3, <1>4, <1>5, <1>6, <1>10, <1>11, MoveKeptPlain

\* Edits of one checkpoint and of the state.
LEMMA CheckpointEdit ==
  ASSUME TypeOK, NEW k \in 1 .. Len(script.steps), NEW c \in {"reached", "released", "timed_out"},
         NEW x \in Terminal \cup {"none", "starting", "running", "waiting", "abort_requested"},
         NEW m, m = Marked(k, c, x)
  PROVE  /\ m \in Records /\ m.state = x /\ m.active = mem.active /\ m.backup = mem.backup
         /\ m.context = mem.context /\ m.checkpoints = Mark(k, c)
<1> DEFINE cp == [mem.checkpoints EXCEPT ![k] = c]
           a == [mem EXCEPT !.checkpoints = cp]
<1>1. mem \in Records
  BY DEF TypeOK
<1>2. mem.checkpoints \in [1 .. Len(script.steps) -> {"pending", "reached", "released", "timed_out"}]
  BY <1>1 DEF Records
<1>3. cp \in [1 .. Len(script.steps) -> {"pending", "reached", "released", "timed_out"}]
  BY <1>2
<1>4. m = [[mem EXCEPT !.checkpoints = cp] EXCEPT !.state = x]
  BY <1>1 DEF Records, Marked
<1> HIDE DEF cp
<1>5. /\ a \in Records /\ a.active = mem.active /\ a.backup = mem.backup
      /\ a.context = mem.context /\ a.checkpoints = cp
  BY <1>1, <1>3 DEF Records
<1> HIDE DEF a
<1>6. m = [a EXCEPT !.state = x]
  BY <1>4 DEF a
<1> QED
  BY <1>5, <1>6 DEF Records, Mark, cp

\* Operations on the executor's checkpoint.
LEMMA CheckpointFrame ==
  ASSUME ScenarioInv, Moves, Cur \in {"reach", "hold"}, Fault \/ NoFault,
         UNCHANGED <<script, rt, renewer, held, abort, split, untold, lost, desired>>,
         mem' \in Records, disk' \in {disk, mem'}, mem'.active = mem.active,
         mem'.backup = mem.backup, mem'.state # "none"
  PROVE  /\ RestTyped /\ TableKept /\ Paused' /\ SplitPlace' /\ Guarded'
         /\ Decided' /\ FinalKept /\ Gate => Kept
<1>1. RestTyped
  BY FaultFacts DEF ScenarioInv, RestTyped, TypeOK
<1>2. TableKept
  BY DEF TableKept
<1>3. WorkersKept
  BY DEF WorkersKept
<1>4. Paused' /\ SplitPlace' /\ Guarded'
  BY <1>3, PlainMove
<1> QED
  BY <1>1, <1>2, <1>4, MoveKept

\* A checkpoint or a milestone is reached.
LEMMA ReachStep ==
  ASSUME ScenarioInv, Reach
  PROVE  Kept
<1> DEFINE x == IF mem.state = "abort_requested" \/ StepType = "milestone" THEN mem.state
                ELSE "waiting"
           m == Marked(thread.step, "reached", x)
<1>1. /\ thread.at = "step" /\ Cur = "reach" /\ (thread' = NextOp \/ thread' = FailOp)
      /\ mem' \in {mem, m} /\ disk' \in {disk, mem'}
      /\ Fault \/ NoFault
      /\ UNCHANGED <<script, rt, renewer, held, abort, split, untold, lost, desired>>
  BY DEF Reach, Marked, Op, Cur
<1>2. Moves /\ TypeOK /\ thread.step \in 1 .. Len(script.steps)
  BY <1>1, MoveStep, ThreadFacts DEF ScenarioInv
<1>3. x \in Terminal \cup {"none", "starting", "running", "waiting", "abort_requested"}
      /\ x # "none" /\ mem \in Records /\ mem.state # "none"
  BY <1>1, TableFacts DEF ScenarioInv, TypeOK, Records
<1> HIDE DEF x
<1>4. /\ m \in Records /\ m.state = x /\ m.active = mem.active /\ m.backup = mem.backup
      /\ m.checkpoints = Mark(thread.step, "reached")
  BY <1>2, <1>3, CheckpointEdit
<1> HIDE DEF m
<1>5. RestTyped /\ TableKept /\ (Decided' /\ FinalKept /\ Gate => Kept)
  BY <1>1, <1>2, <1>3, <1>4, CheckpointFrame
<1>6. Gate
  BY <1>1 DEF Gate, Op, Cur
<1>7. Decided' /\ FinalKept
  <2>1. \A k \in 1 .. Len(script.steps) : Pending(k)' => Pending(k) /\ k # thread.step
    BY <1>2, <1>5, MoveCommon
  <2>2. mem.checkpoints[thread.step] = "pending"
    BY <1>1, <1>2 DEF ScenarioInv, Decided, Pending, Op, Cur
  <2>3. CASE mem' = mem
    BY <1>1, <2>1, <2>3, DecidedKept
  <2>4. CASE mem' = m
    <3>1. PICK k \in 1 .. Len(script.steps) : k = thread.step
      BY <1>2
    <3>2. mem'.checkpoints = Mark(k, "reached") /\ ~Pending(k)' /\ mem.checkpoints[k] = "pending"
      BY <1>4, <2>1, <2>2, <2>4, <3>1
    <3> QED
      BY <1>1, <2>1, <3>2, DecidedEdit
  <2> QED
    BY <1>1, <2>3, <2>4
<1> QED
  BY <1>5, <1>6, <1>7

\* The executor goes on past its checkpoint.
LEMMA PassStep ==
  ASSUME ScenarioInv, Op("hold"), Checkpoint = "released" \/ abort, thread' = NextOp,
         UNCHANGED <<script, mem, disk, rt, renewer, held, abort, split, untold, lost, desired, faults>>
  PROVE  Kept
<1>1. thread.at = "step" /\ Cur = "hold"
  BY DEF Op, Cur
<1>2. Moves
  BY <1>1, MoveStep
<1>3. mem.state # "none" /\ mem \in Records
  BY <1>1, TableFacts DEF ScenarioInv, TypeOK
<1>4. RestTyped /\ TableKept /\ (Decided' /\ FinalKept /\ Gate => Kept)
  BY <1>1, <1>2, <1>3, CheckpointFrame DEF NoFault
<1>5. Decided' /\ FinalKept
  BY <1>2, <1>4, MoveCommon, DecidedKept
<1> QED
  BY <1>4, <1>5 DEF Gate

\* The deadline of a checkpoint has passed.
LEMMA TimeOutStep ==
  ASSUME ScenarioInv, TimeOut
  PROVE  Kept
<1>1. CASE Checkpoint = "released" \/ abort
  BY <1>1, PassStep DEF TimeOut
<1>2. CASE ~(Checkpoint = "released" \/ abort)
  <2> DEFINE m == Marked(thread.step, "timed_out", "running")
  <2>1. /\ thread.at = "step" /\ Cur = "hold" /\ thread' = FailOp
        /\ mem' = m /\ disk' \in {disk, mem'}
        /\ Fault \/ NoFault
        /\ UNCHANGED <<script, rt, renewer, held, abort, split, untold, lost, desired>>
    BY <1>2 DEF TimeOut, SaveBestEffort, Marked, Op, Cur
  <2>2. Moves /\ TypeOK /\ thread.step \in 1 .. Len(script.steps) /\ thread'.failed
    BY <2>1, MoveStep, MoveFacts, ThreadFacts DEF ScenarioInv
  <2>3. /\ m \in Records /\ m.state = "running" /\ m.active = mem.active /\ m.backup = mem.backup
        /\ m.checkpoints = Mark(thread.step, "timed_out")
    BY <2>2, CheckpointEdit
  <2> HIDE DEF m
  <2>4. RestTyped /\ TableKept /\ (Decided' /\ FinalKept /\ Gate => Kept)
    BY <2>1, <2>2, <2>3, CheckpointFrame
  <2>5. \A k \in 1 .. Len(script.steps) : Pending(k)' => Pending(k) /\ k # thread.step
    BY <2>2, <2>4, MoveCommon
  <2>6. mem.checkpoints[thread.step] # "released"
    BY <1>2 DEF Checkpoint
  <2>7. Decided' /\ FinalKept
    <3>1. PICK k \in 1 .. Len(script.steps) : k = thread.step
      BY <2>2
    <3>2. mem'.checkpoints = Mark(k, "timed_out") /\ ~Pending(k)' /\ mem.checkpoints[k] # "released"
      BY <2>1, <2>3, <2>5, <2>6, <3>1
    <3> QED
      BY <2>1, <2>5, <3>2, DecidedEdit
  <2> QED
    BY <2>2, <2>4, <2>7 DEF Gate
<1> QED
  BY <1>1, <1>2

(***************************************************************************)
(* Steps beside the executor: it stays where it is.                        *)
(***************************************************************************)
Stays ==
  /\ thread' \in Threads /\ thread'.at = thread.at /\ thread'.step = thread.step
  /\ thread'.op = thread.op /\ thread'.failed = thread.failed
  /\ thread'.todo = thread.todo /\ thread'.errors = thread.errors

\* Waking it up, and its way to sleep.
LEMMA StayFacts ==
  ASSUME TypeOK
  PROVE  /\ thread' = thread => Stays
         /\ \A h \in {"look", "locked", "asleep"} : thread' = [thread EXCEPT !.hold = h] => Stays
         /\ Notify => Stays
<1>1. thread \in Threads
  BY DEF TypeOK
<1>2. thread' = thread => Stays
  BY <1>1 DEF Stays
<1>3. \A h \in {"look", "locked", "asleep"} : thread' = [thread EXCEPT !.hold = h] => Stays
  BY <1>1 DEF Stays, Threads
<1> QED
  BY <1>2, <1>3 DEF Notify

\* The places have the same names.
LEMMA StayPlace ==
  ASSUME Stays, script' = script
  PROVE  /\ StepType' = StepType /\ Ops' = Ops /\ Cur' = Cur /\ PausedByScript' = PausedByScript
         /\ Engine' = Engine /\ Starting' = Starting /\ Stepping' = Stepping /\ Running' = Running
         /\ \A o : Op(o)' = Op(o)
         /\ \A k \in 1 .. Len(script.steps) : Pending(k)' = Pending(k)
<1>1. thread'.at = thread.at /\ thread'.step = thread.step /\ thread'.op = thread.op
  BY DEF Stays
<1>2. /\ StepType' = StepType /\ Ops' = Ops /\ Cur' = Cur /\ PausedByScript' = PausedByScript
      /\ Engine' = Engine /\ Starting' = Starting
  BY <1>1 DEF StepType, Ops, Cur, PausedByScript, Engine, Starting
<1>3. \A o : Op(o)' = Op(o)
  BY <1>1, <1>2 DEF Op
<1>4. Stepping' = Stepping /\ Running' = Running
  BY <1>1, <1>2 DEF Stepping, Running
<1>5. \A k \in 1 .. Len(script.steps) : Pending(k)' = Pending(k)
  BY <1>1, <1>2, <1>3 DEF Pending
<1> QED
  BY <1>2, <1>3, <1>4, <1>5

\* What they keep.
LEMMA StayKept ==
  ASSUME ScenarioInv, Stays, RestTyped, rt' = rt, untold' = untold,
         \/ mem' = mem /\ disk' = disk
         \/ TableKept /\ mem'.context = mem.context,
         \/ held' = held /\ lost' = lost /\ split' = split
         \/ lost' /\ split' \in {split, "no"},
         \/ desired' = desired
         \/ desired' = "operator" /\ ~mem.active,
         Decided', FinalKept
  PROVE  Kept
<1>1. script' = script
  BY DEF RestTyped
<1>2. /\ StepType' = StepType /\ Ops' = Ops /\ Cur' = Cur /\ PausedByScript' = PausedByScript
      /\ Engine' = Engine /\ Starting' = Starting /\ Stepping' = Stepping /\ Running' = Running
      /\ Op("settle")' = Op("settle") /\ Op("mutate")' = Op("mutate")
  BY <1>1, StayPlace
<1>3. TypeOK'
  <2>1. thread.op \in 1 .. Len(Ops)
    BY DEF ScenarioInv, TypeOK
  <2> QED
    BY <2>1, TypeStep DEF ScenarioInv, Stays, Ops, StepType
<1>4. FailedLate'
  BY <1>2 DEF ScenarioInv, FailedLate, Stays
<1>5. Paused'
  BY <1>2 DEF ScenarioInv, Paused, Stays
<1>6. Admitted'
  <2>1. CASE mem' = mem /\ disk' = disk
    <3>1. NoJob' = NoJob
      BY <1>1 DEF NoJob
    <3> QED
      BY <1>2, <2>1, <3>1 DEF ScenarioInv, Admitted, Stays
  <2>2. CASE TableKept
    <3>1. NoJob' = NoJob
      BY <1>1 DEF NoJob
    <3> QED
      BY <1>2, <2>2, <3>1 DEF ScenarioInv, Admitted, Stays, TableKept
  <2> QED
    BY <2>1, <2>2
<1>7. SplitPlace'
  <2>1. split' \in {split, "no"}
    OBVIOUS
  <2>2. /\ mem.context # "none" => mem'.context # "none"
        /\ mem.context # "none" /\ disk.context # "none" => disk'.context # "none"
    BY DEF TableKept
  <2> QED
    BY <1>2, <2>1, <2>2 DEF ScenarioInv, SplitPlace, Stays
<1>8. Guarded'
  <2>1. CASE lost'
    BY <2>1 DEF Guarded
  <2>2. CASE held' = held /\ lost' = lost /\ split' = split
    <3>1. \A w : Holds(w)' = Holds(w) /\ OfComponent(w)' = OfComponent(w)
      BY <2>2 DEF Holds, OfComponent
    <3>2. Leased => Leased'
      BY <1>2, <3>1 DEF Leased, Stays
    <3>3. SplitHeld => SplitHeld'
      BY <1>2, <2>2, <3>1 DEF SplitHeld, Stays
    <3>4. Telling => Telling'
      BY <1>2, <2>2, <3>1 DEF Telling, Stays
    <3> QED
      BY <2>2, <3>2, <3>3, <3>4 DEF ScenarioInv, Guarded
  <2> QED
    BY <2>1, <2>2
<1>9. ASSUME script.restore PROVE Restoring' /\ RestoreSaved'
  <2>1. Restoring /\ RestoreSaved
    BY <1>9 DEF ScenarioInv
  <2>2. /\ mem'.active = mem.active /\ mem'.backup = mem.backup
        /\ \/ disk' = disk
           \/ disk'.active = mem.active /\ disk'.backup = mem.backup
    BY DEF TableKept
  <2>3. /\ mem.active /\ Settled(mem) => Settled(mem)'
        /\ Settled(disk) /\ disk' = disk => Settled(disk)'
        /\ mem.active /\ Settled(mem) /\ disk'.backup = mem.backup => Settled(disk)'
    BY <2>2 DEF Settled
  <2>4. Restoring'
    BY <1>2, <2>1, <2>2, <2>3 DEF Restoring, Stays
  <2>5. RestoreSaved'
    <3>1. CASE disk' = disk
      BY <1>2, <2>1, <2>3, <3>1 DEF RestoreSaved
    <3>2. CASE disk'.active = mem.active /\ disk'.backup = mem.backup
      BY <1>2, <2>1, <2>3, <3>2 DEF RestoreSaved, Restoring
    <3> QED
      BY <2>2, <3>1, <3>2
  <2> QED
    BY <2>4, <2>5
<1>10. Restored
  BY DEF Restored, TableKept
<1>11. Gate
  BY DEF Gate, Op, Stays
<1> QED
  BY <1>1, <1>3, <1>4, <1>5, <1>6, <1>7, <1>8, <1>9, <1>10, <1>11 DEF Kept, ScenarioInv

\* Steps that touch neither the tables nor the settings.
LEMMA BesideStep ==
  ASSUME ScenarioInv, Sleep \/ CopyHandles \/ Renew \/ LeaseDropped \/ BranchesRace \/ Configure
  PROVE  Kept
<1>1. /\ UNCHANGED <<script, mem, disk, rt, untold>>
      /\ thread' = thread \/ thread' = [thread EXCEPT !.hold = "asleep"] \/ Notify
      /\ renewer' \in [at : {"off", "parked", "renewing"}, todo : SUBSET [c : Components, id : Nat]]
      /\ held' \subseteq held
      /\ abort' \in {abort, TRUE}
      /\ \/ held' = held /\ lost' = lost /\ split' = split
         \/ lost' = TRUE /\ split' \in {split, "no"}
      /\ \/ desired' = desired
         \/ desired' = "operator" /\ ~mem.active
      /\ Fault \/ NoFault
  <2>a. /\ renewer \in [at : {"off", "parked", "renewing"}, todo : SUBSET [c : Components, id : Nat]]
        /\ abort \in BOOLEAN /\ rt \in Runtimes
    BY DEF ScenarioInv, TypeOK
  <2>1. CASE Sleep
    BY <2>1, <2>a DEF Sleep, NoFault
  <2>2. CASE CopyHandles
    <3>1. ASSUME NEW c \in Components PROVE Lease(c, rt[c]) \in [c : Components, id : Nat]
      BY <2>a DEF Lease, Runtimes, Components, Workers
    <3>2. Handles \subseteq [c : Components, id : Nat]
      BY <3>1 DEF Handles
    <3> QED
      BY <2>2, <3>2 DEF CopyHandles, NoFault
  <2>3. CASE Renew
    <3>1. PICK l \in renewer.todo :
            /\ renewer.at = "renewing"
            /\ \/ /\ renewer' = IF renewer.todo = {l} THEN [at |-> "parked", todo |-> {}]
                                ELSE [renewer EXCEPT !.todo = @ \ {l}]
                  /\ UNCHANGED <<thread, abort, faults>>
               \/ /\ renewer' = [at |-> "parked", todo |-> {}]
                  /\ abort' = TRUE /\ Notify /\ (Fault \/ NoFault)
            /\ UNCHANGED <<script, mem, disk, rt, held, split, untold, lost, desired>>
      BY <2>3 DEF Renew
    <3>2. renewer' \in [at : {"off", "parked", "renewing"}, todo : SUBSET [c : Components, id : Nat]]
      BY <2>a, <3>1
    <3> QED
      BY <3>1, <3>2 DEF NoFault
  <2>4. CASE LeaseDropped
    BY <2>4, <2>a DEF LeaseDropped
  <2>5. CASE BranchesRace
    <3>1. lost = TRUE /\ lost' = lost
      BY <2>5 DEF BranchesRace, ScenarioInv, TypeOK
    <3> QED
      BY <2>5, <2>a, <3>1 DEF BranchesRace, NoFault
  <2>6. CASE Configure
    BY <2>6, <2>a DEF Configure, NoFault
  <2> QED
    BY <2>1, <2>2, <2>3, <2>4, <2>5, <2>6
<1>2. TypeOK
  BY DEF ScenarioInv
<1>3. RestTyped
  BY <1>1, <1>2, FaultFacts DEF RestTyped, TypeOK
<1>4. Stays
  BY <1>1, <1>2, StayFacts
<1>5. Decided' /\ FinalKept
  <2>1. \A k \in 1 .. Len(script.steps) : Pending(k)' => Pending(k)
    BY <1>1, <1>4, StayPlace
  <2> QED
    BY <1>1, <2>1, DecidedKept
<1> QED
  BY <1>1, <1>3, <1>4, <1>5, StayKept

\* The executor looks at its checkpoint.
LEMMA LookStep ==
  ASSUME ScenarioInv, Look
  PROVE  Kept
<1>1. CASE Checkpoint = "released" \/ abort
  BY <1>1, PassStep DEF Look
<1>2. CASE ~(Checkpoint = "released" \/ abort)
  <2>1. /\ thread' = [thread EXCEPT !.hold = "locked"]
        /\ UNCHANGED <<script, mem, disk, rt, renewer, held, abort, split, untold, lost,
                       desired, faults>>
    BY <1>2 DEF Look
  <2>2. RestTyped /\ Stays
    BY <2>1, StayFacts DEF ScenarioInv, RestTyped, TypeOK
  <2>3. Decided' /\ FinalKept
    BY <2>1, <2>2, StayPlace, DecidedKept
  <2> QED
    BY <2>1, <2>2, <2>3, StayKept
<1> QED
  BY <1>1, <1>2

\* An abort is requested.
LEMMA AbortStep ==
  ASSUME ScenarioInv, AbortJob
  PROVE  Kept
<1> DEFINE m == [mem EXCEPT !.state = "abort_requested"]
<1>1. /\ mem' = m /\ disk' \in {disk, mem'} /\ abort' = (thread.at # "idle")
      /\ thread' = thread \/ Notify
      /\ Fault \/ NoFault
      /\ UNCHANGED <<script, rt, renewer, held, split, untold, lost, desired>>
  BY DEF AbortJob
<1>2. TypeOK
  BY DEF ScenarioInv
<1>3. /\ m \in Records /\ m.state = "abort_requested" /\ m.active = mem.active
      /\ m.backup = mem.backup /\ m.context = mem.context /\ m.checkpoints = mem.checkpoints
  BY <1>2 DEF TypeOK, Records
<1> HIDE DEF m
<1>4. RestTyped
  BY <1>1, <1>2, <1>3, FaultFacts DEF RestTyped, TypeOK
<1>5. Stays
  BY <1>1, <1>2, StayFacts
<1>6. TableKept /\ mem'.context = mem.context
  BY <1>1, <1>3 DEF TableKept
<1>7. Decided' /\ FinalKept
  BY <1>1, <1>3, <1>5, StayPlace, DecidedKept
<1> QED
  BY <1>1, <1>4, <1>5, <1>6, <1>7, StayKept

\* A checkpoint is released.
LEMMA ReleaseStep ==
  ASSUME ScenarioInv, NEW k \in 1 .. Len(script.steps), ReleaseCheckpoint(k)
  PROVE  Kept
<1> DEFINE x == IF mem.state = "waiting" THEN "running" ELSE mem.state
           m == Marked(k, "released", x)
<1>1. /\ mem' = m /\ disk' \in {disk, mem'} /\ mem.active
      /\ mem.checkpoints[k] = "reached"
      /\ thread' = thread \/ Notify
      /\ Fault \/ NoFault
      /\ UNCHANGED <<script, rt, renewer, held, abort, split, untold, lost, desired>>
  BY DEF ReleaseCheckpoint, MayRelease, Marked
<1>2. TypeOK
  BY DEF ScenarioInv
<1>3. x \in Terminal \cup {"none", "starting", "running", "waiting", "abort_requested"}
      /\ x # "none"
  <2>1. mem.state # "none"
    BY <1>1, <1>2, NoJobFacts DEF ScenarioInv, Admitted
  <2> QED
    BY <1>2, <2>1 DEF TypeOK, Records
<1> HIDE DEF x
<1>4. /\ m \in Records /\ m.state = x /\ m.active = mem.active /\ m.backup = mem.backup
      /\ m.context = mem.context /\ m.checkpoints = Mark(k, "released")
  BY <1>2, <1>3, CheckpointEdit
<1> HIDE DEF m
<1>5. RestTyped
  BY <1>1, <1>2, <1>4, FaultFacts DEF RestTyped, TypeOK
<1>6. Stays
  BY <1>1, <1>2, StayFacts
<1>7. TableKept /\ mem'.context = mem.context
  BY <1>1, <1>3, <1>4 DEF TableKept
<1>8. Decided' /\ FinalKept
  <2>1. \A j \in 1 .. Len(script.steps) : Pending(j)' = Pending(j)
    BY <1>1, <1>6, StayPlace
  <2>2. ~Pending(k)
    BY <1>1 DEF ScenarioInv, Decided
  <2> QED
    BY <1>1, <1>4, <2>1, <2>2, DecidedEdit
<1> QED
  BY <1>1, <1>5, <1>6, <1>7, <1>8, StayKept

(***************************************************************************)
(* Between the steps of the script.                                        *)
(***************************************************************************)
\* What does not concern a thread that is not among the steps.
LEMMA OutOfEngine ==
  ASSUME thread'.at \notin {"step", "boundary", "summary", "stop"}
  PROVE  /\ FailedLate' /\ Paused' /\ Leased' /\ Gate
         /\ split' # "reorg" => SplitPlace' /\ SplitHeld'
         /\ \A k \in 1 .. Len(script.steps) : Pending(k)' => Starting'
<1>1. ~Engine' /\ ~Stepping' /\ ~Op("settle")' /\ ~Op("mutate")' /\ ~Op("reach")'
  BY DEF Engine, Stepping, Op
<1> QED
  BY <1>1 DEF FailedLate, Paused, Leased, Gate, SplitPlace, SplitHeld, Pending

\* The job is admitted, or its save has failed.
LEMMA StartStep ==
  ASSUME ScenarioInv, StartScenario
  PROVE  Kept
<1>1. /\ mem.state = "none" /\ mem' = NewJob
      /\ \/ disk' = NewJob /\ thread' = [NoThread EXCEPT !.at = "new"]
         \/ disk' = disk /\ thread' = thread
      /\ Fault \/ NoFault
      /\ UNCHANGED <<script, rt, renewer, held, abort, split, untold, lost, desired>>
  BY DEF StartScenario
<1>2. TypeOK
  BY DEF ScenarioInv
<1>3. /\ mem = NoJob /\ disk = NoJob /\ thread.at = "idle" /\ ~untold /\ split = "no"
      /\ rt = NoRuntime
  BY <1>1 DEF ScenarioInv, Admitted
<1>4. /\ NewJob \in Records /\ NewJob.active /\ NewJob.state = "starting"
      /\ script.restore => NewJob.backup = [phase |-> "captured", value |-> desired]
      /\ NewJob.checkpoints = NoJob.checkpoints
  <2> DEFINE b == IF script.restore THEN [phase |-> "captured", value |-> desired] ELSE NoBackup
  <2>1. b \in [phase : {"none", "captured", "running", "restored"},
               value : {"initial", "changed", "operator"}]
    BY <1>2 DEF TypeOK, NoBackup
  <2>2. NewJob = [NoJob EXCEPT !.active = TRUE, !.state = "starting", !.backup = b]
    BY DEF NewJob
  <2>3. NoJob \in Records
    BY <1>2, NoJobFacts
  <2>4. script.restore => b = [phase |-> "captured", value |-> desired]
    OBVIOUS
  <2> HIDE DEF b
  <2> QED
    BY <2>1, <2>2, <2>3, <2>4 DEF Records
<1>5. /\ thread' \in Threads /\ thread'.at \in {"idle", "new"}
      /\ thread'.op \in 1 .. Len(Program(script.steps[thread'.step]))
      /\ thread'.at = "new" =>
           thread'.step = 1 /\ thread'.op = 1 /\ ~thread'.failed /\ disk' = NewJob
  <2>1. CASE thread' = thread
    BY <1>2, <1>3, <2>1 DEF TypeOK, Ops, StepType
  <2>2. CASE thread' = [NoThread EXCEPT !.at = "new"] /\ disk' = NewJob
    <3>1. NoThread \in Threads /\ NoThread.step = 1 /\ NoThread.op = 1 /\ ~NoThread.failed
      BY <1>2, NoThreadFacts
    <3>2. /\ thread' \in Threads /\ thread'.at = "new" /\ thread'.step = 1 /\ thread'.op = 1
          /\ ~thread'.failed
      BY <2>2, <3>1 DEF Threads
    <3> QED
      BY <1>2, <2>2, <3>2, FirstStep
  <2> QED
    BY <1>1, <2>1, <2>2
<1>6. RestTyped
  BY <1>1, <1>2, <1>4, FaultFacts DEF RestTyped, TypeOK
<1>7. TypeOK'
  BY <1>2, <1>5, <1>6, TypeStep
<1>8. /\ FailedLate' /\ Paused' /\ Leased' /\ Gate
      /\ split' # "reorg" => SplitPlace' /\ SplitHeld'
  BY <1>5, OutOfEngine
<1>9. NoJob.state = "none" /\ ~NoJob.active
      /\ \A k \in 1 .. Len(script.steps) : NoJob.checkpoints[k] = "pending"
  BY <1>2, NoJobFacts
<1>10. disk' \in {NoJob, NewJob} /\ NoJob' = NoJob
  BY <1>1, <1>3 DEF NoJob
<1>11. Admitted'
  BY <1>1, <1>3, <1>4, <1>5, <1>9, <1>10 DEF Admitted, Starting
<1>12. Guarded'
  BY <1>1, <1>3, <1>8 DEF Guarded, Telling
<1>13. ASSUME script.restore PROVE Restoring' /\ RestoreSaved'
  <2>1. NewJob.backup.phase = "captured" /\ NewJob.backup.value = desired
    BY <1>4, <1>13
  <2>2. Restoring'
    BY <1>1, <1>5, <2>1 DEF Restoring, Settled, Running, Stepping, Engine
  <2>3. RestoreSaved'
    BY <1>9, <1>10, <2>1 DEF RestoreSaved
  <2> QED
    BY <2>2, <2>3
<1>14. Decided' /\ FinalKept
  BY <1>1, <1>3, <1>4, <1>9, <1>10 DEF Decided, FinalKept
<1>15. Restored
  BY <1>3, <1>9 DEF Restored
<1> QED
  BY <1>1, <1>3, <1>7, <1>8, <1>11, <1>12, <1>13, <1>14, <1>15 DEF Kept, ScenarioInv

\* The parts of the invariant that hold while the executor runs.
LEMMA RunKept ==
  ASSUME ScenarioInv, Running, Running', TableKept, RestTyped, Starting' => NothingDone,
         thread' \in Threads, thread'.op \in 1 .. Len(Program(script.steps[thread'.step])),
         mem'.checkpoints = mem.checkpoints,
         \A k \in 1 .. Len(script.steps) : Pending(k)' => Pending(k),
         thread.at # "step", FailedLate', Paused', SplitPlace', Guarded'
  PROVE  Kept
<1>1. script' = script /\ disk' \in {disk, mem'}
  BY DEF RestTyped, TableKept
<1>2. TypeOK'
  BY TypeStep DEF ScenarioInv
<1>3. /\ Admitted'
      /\ script.restore => Restoring' /\ RestoreSaved'
  BY <1>1, TableRun
<1>4. Decided' /\ FinalKept
  BY <1>1, DecidedKept
<1>5. Restored
  BY DEF Restored, TableKept
<1>6. Gate
  BY DEF Gate, Op
<1> QED
  BY <1>1, <1>2, <1>3, <1>4, <1>5, <1>6 DEF Kept, ScenarioInv

\* The edit of the state that the engine saves between steps.
LEMMA StateEdit ==
  ASSUME TypeOK, mem.state # "none",
         NEW x \in {"running", mem.state}, mem' = [mem EXCEPT !.state = x], disk' \in {disk, mem'}
  PROVE  /\ mem' \in Records /\ disk' \in Records /\ TableKept
         /\ mem'.checkpoints = mem.checkpoints /\ mem'.context = mem.context
<1>1. mem \in Records /\ disk \in Records
  BY DEF TypeOK
<1>2. /\ mem' \in Records /\ mem'.state = x /\ mem'.active = mem.active
      /\ mem'.backup = mem.backup /\ mem'.checkpoints = mem.checkpoints
      /\ mem'.context = mem.context
  BY <1>1 DEF Records
<1> QED
  BY <1>1, <1>2 DEF TableKept

\* The job's thread begins, and starts the renewals.
LEMMA BootStep ==
  ASSUME ScenarioInv, Starting,
         \/ thread.at = "new" /\ thread' = [thread EXCEPT !.at = "spawn"]
         \/ thread.at = "spawn" /\ thread' = [thread EXCEPT !.at = "bootstrap"],
         \E x \in {"running", mem.state} : mem' = [mem EXCEPT !.state = x],
         disk' \in {disk, mem'}, Fault \/ NoFault,
         \/ renewer' = renewer
         \/ renewer' = [renewer EXCEPT !.at = "parked"],
         UNCHANGED <<script, rt, held, abort, split, untold, lost, desired>>
  PROVE  Kept
<1>1. TypeOK /\ thread \in Threads /\ mem.state # "none"
  BY TableFacts DEF ScenarioInv, TypeOK, Starting
<1>2. /\ mem' \in Records /\ disk' \in Records /\ TableKept
      /\ mem'.checkpoints = mem.checkpoints /\ mem'.context = mem.context
  BY <1>1, StateEdit
<1>3. RestTyped
  BY <1>1, <1>2, FaultFacts DEF RestTyped, TypeOK
<1>4. /\ thread' \in Threads /\ thread'.at \in {"spawn", "bootstrap"}
      /\ thread'.step = thread.step /\ thread'.op = thread.op /\ thread'.failed = thread.failed
  BY <1>1 DEF Threads
<1>5. Running /\ Running' /\ Starting' /\ NothingDone /\ split = "no" /\ ~untold
  BY <1>4 DEF Running, Starting, NothingDone, ScenarioInv, Admitted
<1>6. thread'.op \in 1 .. Len(Program(script.steps[thread'.step]))
  BY <1>1, <1>4 DEF TypeOK, Ops, StepType
<1>7. /\ FailedLate' /\ Paused' /\ Leased'
      /\ split' # "reorg" => SplitPlace' /\ SplitHeld'
      /\ \A k \in 1 .. Len(script.steps) : Pending(k)' => Starting'
  BY <1>4, OutOfEngine
<1>8. Guarded'
  BY <1>5, <1>7 DEF Guarded, Telling
<1>9. \A k \in 1 .. Len(script.steps) : Pending(k)' => Pending(k)
  BY <1>7 DEF Pending
<1>10. thread.at # "step"
  BY DEF Starting
<1> QED
  BY <1>2, <1>3, <1>4, <1>5, <1>6, <1>7, <1>8, <1>9, <1>10, RunKept

\* A step begins.
LEMMA EnterStep ==
  ASSUME TypeOK, script' = script, thread'.at = "step", thread'.op = 1, ~thread'.failed,
         thread'.step \in 1 .. Len(script.steps)
  PROVE  /\ 1 \in 1 .. Len(Program(script.steps[thread'.step]))
         /\ Opens(StepType', Cur') /\ Needs(StepType', Cur') = {} /\ FailedLate'
         /\ ~Op("settle")' /\ ~Op("mutate")'
<1>1. /\ script.steps[thread'.step] \in StepTypes
      /\ Len(Program(script.steps[thread'.step])) \in Nat \ {0}
  BY ScriptFacts
<1>2. StepType' = script.steps[thread'.step] /\ Cur' = Program(script.steps[thread'.step])[1]
  BY DEF StepType, Cur, Ops
<1>3. Opens(StepType', Cur')
  BY <1>1, <1>2, ProgramFacts
<1>4. Needs(StepType', Cur') = {}
  BY <1>3 DEF Opens, Needs
<1>5. ~Op("settle")' /\ ~Op("mutate")'
  BY <1>3 DEF Opens, Op, Cur
<1> QED
  BY <1>1, <1>3, <1>4, <1>5 DEF FailedLate

\* The first step begins, or there is none.
LEMMA BootstrapStep ==
  ASSUME ScenarioInv, Bootstrap
  PROVE  Kept
<1>1. /\ thread.at = "bootstrap"
      /\ \E o \in {"ok", "error", "aborted"} :
           \/ thread' = [thread EXCEPT !.at = "step", !.outcome = o]
           \/ thread' = [thread EXCEPT !.at = "stop", !.outcome = o]
      /\ Fault \/ NoFault
      /\ UNCHANGED <<script, mem, disk, rt, renewer, held, abort, split, untold, lost, desired>>
  <2>1. thread.outcome \in {"ok", "error", "aborted"}
    BY DEF ScenarioInv, TypeOK, Threads
  <2> QED
    BY <2>1 DEF Bootstrap
<1>2. TypeOK /\ thread \in Threads /\ TableKept /\ mem'.checkpoints = mem.checkpoints
  BY <1>1, TableFacts DEF ScenarioInv, TypeOK
<1>3. Starting /\ ~untold /\ split = "no" /\ rt = NoRuntime
      /\ ~thread.failed /\ thread.step = 1 /\ thread.op = 1
  BY <1>1 DEF ScenarioInv, Admitted, Starting
<1>4. /\ thread' \in Threads /\ thread'.at \in {"step", "stop"}
      /\ thread'.step = 1 /\ thread'.op = 1 /\ ~thread'.failed
  BY <1>1, <1>2, <1>3 DEF Threads
<1>5. RestTyped
  BY <1>1, <1>2, FaultFacts DEF RestTyped, TypeOK
<1>6. Running /\ Running' /\ ~Starting'
  BY <1>3, <1>4 DEF Running, Starting, Stepping, Engine
<1>7. \A k \in 1 .. Len(script.steps) : Pending(k)' => Pending(k)
  BY <1>3 DEF Pending
<1>8. 1 \in 1 .. Len(script.steps) /\ 1 \in 1 .. Len(Program(script.steps[thread'.step]))
  BY <1>2, <1>4, FirstStep
<1>9. /\ FailedLate' /\ ~Op("settle")' /\ ~Op("mutate")'
      /\ thread'.at = "step" => Needs(StepType', Cur') = {}
  <2>1. CASE thread'.at = "step"
    BY <1>1, <1>2, <1>4, <1>8, <2>1, EnterStep
  <2>2. CASE thread'.at = "stop"
    BY <2>2 DEF FailedLate, Op
  <2> QED
    BY <1>4, <2>1, <2>2
<1>10. SplitPlace'
  BY <1>1, <1>3, <1>9 DEF SplitPlace
<1>a. \A w \in Workers : rt[w] = 0
  BY <1>2, <1>3, NoJobFacts DEF Components
<1>b. ~rt.paused
  BY <1>2, <1>3, NoJobFacts
<1>11. Paused'
  <2>1. ~PausedByScript'
    BY <1>4 DEF PausedByScript
  <2> QED
    BY <1>4, <2>1 DEF Paused
<1>12. Guarded'
  <2>1. Leased'
    BY <1>1, <1>9, <1>a, <1>b DEF Leased
  <2>2. SplitHeld' /\ Telling'
    BY <1>1, <1>3 DEF SplitHeld, Telling
  <2> QED
    BY <2>1, <2>2 DEF Guarded
<1> QED
  BY <1>1, <1>2, <1>4, <1>5, <1>6, <1>7, <1>8, <1>9, <1>10, <1>11, <1>12, RunKept

\* The next step begins.
LEMMA NextStep ==
  ASSUME ScenarioInv, thread.at = "boundary", ~thread.failed, thread.step # Len(script.steps),
         thread' = [thread EXCEPT !.at = "step", !.step = @ + 1],
         RestTyped, TableKept, mem'.checkpoints = mem.checkpoints,
         UNCHANGED <<rt, held, split, untold, lost>>
  PROVE  Kept
<1>1. TypeOK /\ thread \in Threads /\ script' = script
  BY DEF ScenarioInv, TypeOK, RestTyped
<1>2. /\ thread.step \in 1 .. Len(script.steps) /\ Len(script.steps) \in Nat
      /\ thread.op = 1
  BY <1>1, ThreadFacts, ScriptFacts DEF ScenarioInv, FailedLate
<1>3. thread.step + 1 \in 1 .. Len(script.steps) /\ thread.step \in Nat
  BY <1>2
<1>4. /\ thread' \in Threads /\ thread'.at = "step" /\ thread'.step = thread.step + 1
      /\ thread'.op = 1 /\ ~thread'.failed
  <2>1. thread' = [[thread EXCEPT !.at = "step"] EXCEPT !.step = thread.step + 1]
    BY <1>1 DEF Threads
  <2>2. [thread EXCEPT !.at = "step"] \in Threads
    BY <1>1 DEF Threads
  <2> QED
    BY <1>1, <1>2, <1>3, <2>1, <2>2 DEF Threads
<1>5. Running /\ Running' /\ ~Starting' /\ Stepping /\ Engine
  BY <1>4 DEF Running, Starting, Stepping, Engine
<1>6. /\ 1 \in 1 .. Len(Program(script.steps[thread'.step]))
      /\ Opens(StepType', Cur') /\ Needs(StepType', Cur') = {} /\ FailedLate'
      /\ ~Op("settle")' /\ ~Op("mutate")'
  BY <1>1, <1>3, <1>4, EnterStep
<1>7. split = "no" /\ ~Op("settle")
  BY <1>1, <1>5 DEF ScenarioInv, TypeOK, SplitPlace, Op
<1>8. SplitPlace'
  BY <1>6, <1>7 DEF SplitPlace
<1>9. /\ StepType = "pause_mining" => rt.paused
      /\ StepType = "resume_mining" => ~rt.paused
      /\ PausedByScript => rt.paused
  BY <1>5 DEF ScenarioInv, Paused
<1>10. Paused'
  <2>1. ASSUME PausedByScript' PROVE rt.paused
    <3>1. PICK i \in 1 .. (thread'.step - 1) :
            /\ script.steps[i] = "pause_mining"
            /\ \A k \in (i + 1) .. thread'.step : script.steps[k] # "resume_mining"
      BY <1>1, <2>1 DEF PausedByScript
    <3>2. i \in 1 .. thread.step
      BY <1>3, <1>4, <3>1
    <3>3. CASE i = thread.step
      BY <1>9, <3>1, <3>3 DEF StepType
    <3>4. CASE i # thread.step
      <4>1. i \in 1 .. (thread.step - 1)
        BY <1>3, <3>2, <3>4
      <4>2. \A k \in (i + 1) .. thread.step : k \in (i + 1) .. thread'.step
        BY <1>3, <1>4, <4>1
      <4>3. PausedByScript
        BY <3>1, <4>1, <4>2 DEF PausedByScript
      <4> QED
        BY <1>9, <4>3
    <3> QED
      BY <3>3, <3>4
  <2> QED
    BY <1>4, <2>1 DEF Paused
<1>11. Guarded'
  <2>1. \A w : Holds(w)' = Holds(w) /\ OfComponent(w)' = OfComponent(w)
    BY DEF Holds, OfComponent
  <2>2. ASSUME Leased PROVE Leased'
    BY <1>4, <1>5, <1>6, <1>9, <2>1, <2>2 DEF Leased
  <2>3. SplitHeld'
    BY <1>7 DEF SplitHeld
  <2>4. ASSUME Telling PROVE Telling'
    BY <1>5, <1>7, <2>1, <2>4 DEF Telling
  <2> QED
    BY <2>2, <2>3, <2>4 DEF ScenarioInv, Guarded
<1>12. \A k \in 1 .. Len(script.steps) : Pending(k)' => Pending(k)
  BY <1>3, <1>4, <1>5 DEF Pending
<1> QED
  BY <1>4, <1>5, <1>6, <1>8, <1>10, <1>11, <1>12, RunKept

\* The engine is done with the script, and stops.
LEMMA LastStep ==
  ASSUME ScenarioInv, thread' \in Threads,
         \/ thread.at = "boundary" /\ thread'.at = "summary"
         \/ thread.at = "summary" /\ thread'.at = "stop",
         thread'.step = thread.step, thread'.op = thread.op, thread'.failed = thread.failed,
         RestTyped, TableKept, mem'.checkpoints = mem.checkpoints,
         UNCHANGED <<rt, held, split, untold, lost>>
  PROVE  Kept
<1>1. TypeOK /\ script' = script
  BY DEF ScenarioInv, TypeOK, RestTyped
<1>2. thread'.op \in 1 .. Len(Program(script.steps[thread'.step]))
  BY <1>1 DEF TypeOK, Ops, StepType
<1>3. /\ Running /\ Running' /\ ~Starting' /\ Stepping /\ Engine /\ Stepping'
      /\ ~Op("settle") /\ ~Op("settle")' /\ ~Op("mutate")'
  BY DEF Running, Starting, Stepping, Engine, Op
<1>4. StepType' = StepType /\ PausedByScript' = PausedByScript
  BY <1>1 DEF StepType, PausedByScript
<1>5. FailedLate'
  BY DEF FailedLate
<1>6. Paused'
  BY <1>3, <1>4 DEF ScenarioInv, Paused
<1>7. SplitPlace'
  BY <1>3 DEF ScenarioInv, SplitPlace
<1>8. Guarded'
  <2>1. \A w : Holds(w)' = Holds(w) /\ OfComponent(w)' = OfComponent(w)
    BY DEF Holds, OfComponent
  <2>2. ASSUME Leased PROVE Leased'
    BY <1>3, <1>4, <2>1, <2>2 DEF Leased
  <2>3. ASSUME SplitHeld PROVE SplitHeld'
    BY <1>3, <2>1, <2>3 DEF SplitHeld
  <2>4. ASSUME Telling PROVE Telling'
    BY <1>3, <2>1, <2>4 DEF Telling
  <2> QED
    BY <2>2, <2>3, <2>4 DEF ScenarioInv, Guarded
<1>9. \A k \in 1 .. Len(script.steps) : ~Pending(k)'
  BY <1>3 DEF Pending, Op
<1> QED
  BY <1>2, <1>3, <1>5, <1>6, <1>7, <1>8, <1>9, RunKept

\* Between two steps.
LEMMA BoundaryStep ==
  ASSUME ScenarioInv, Boundary \/ Summary
  PROVE  Kept
<1>1. TypeOK /\ thread \in Threads
  BY DEF ScenarioInv, TypeOK
<1>2. CASE Boundary
  <2> DEFINE x == IF mem.state = "abort_requested" THEN mem.state ELSE "running"
  <2>1. /\ thread.at = "boundary" /\ mem' = [mem EXCEPT !.state = x] /\ disk' \in {disk, mem'}
        /\ Fault \/ NoFault
        /\ UNCHANGED <<script, rt, renewer, held, abort, split, untold, lost, desired>>
    BY <1>2 DEF Boundary, SaveBestEffort
  <2>2. \/ /\ thread.step # Len(script.steps) /\ ~thread.failed
           /\ thread' = [thread EXCEPT !.at = "step", !.step = @ + 1]
        \/ \E o \in {"ok", "error", "aborted"} :
             thread' = [thread EXCEPT !.at = "summary", !.outcome = o]
    BY <1>2 DEF Boundary
  <2>3. mem.state # "none"
    BY <2>1, TableFacts
  <2>4. /\ mem' \in Records /\ disk' \in Records /\ TableKept
        /\ mem'.checkpoints = mem.checkpoints
    BY <1>1, <2>1, <2>3, StateEdit
  <2>5. RestTyped
    BY <1>1, <2>1, <2>4, FaultFacts DEF RestTyped, TypeOK
  <2>6. CASE \E o \in {"ok", "error", "aborted"} :
               thread' = [thread EXCEPT !.at = "summary", !.outcome = o]
    <3>1. /\ thread' \in Threads /\ thread'.at = "summary" /\ thread'.step = thread.step
          /\ thread'.op = thread.op /\ thread'.failed = thread.failed
      BY <1>1, <2>6 DEF Threads
    <3> QED
      BY <2>1, <2>4, <2>5, <3>1, LastStep
  <2> QED
    BY <2>1, <2>2, <2>4, <2>5, <2>6, NextStep
<1>3. CASE Summary
  <2>1. /\ thread.at = "summary"
        /\ \E o \in {"ok", "error", "aborted"} :
             thread' = [thread EXCEPT !.at = "stop", !.outcome = o]
        /\ Fault \/ NoFault
        /\ UNCHANGED <<script, mem, disk, rt, renewer, held, abort, split, untold, lost, desired>>
    <3>1. thread.outcome \in {"ok", "error", "aborted"}
          /\ [thread EXCEPT !.at = "stop"] = [thread EXCEPT !.at = "stop", !.outcome = thread.outcome]
      BY <1>1 DEF Threads
    <3> QED
      BY <1>3, <3>1 DEF Summary
  <2>2. TableKept /\ mem'.checkpoints = mem.checkpoints
    BY <2>1, TableFacts
  <2>3. RestTyped
    BY <1>1, <2>1, FaultFacts DEF RestTyped, TypeOK
  <2>4. /\ thread' \in Threads /\ thread'.at = "stop" /\ thread'.step = thread.step
        /\ thread'.op = thread.op /\ thread'.failed = thread.failed
    BY <1>1, <2>1 DEF Threads
  <2> QED
    BY <2>1, <2>2, <2>3, <2>4, LastStep
<1> QED
  BY <1>2, <1>3

\* The renewals are stopped and the cleanup begins.
LEMMA StopStep ==
  ASSUME ScenarioInv, StopRenewer
  PROVE  Kept
<1>1. /\ thread.at = "stop" /\ thread' = [thread EXCEPT !.at = "cleanup", !.todo = CleanupSteps]
      /\ renewer' = [at |-> "off", todo |-> {}]
      /\ UNCHANGED <<script, mem, disk, rt, held, abort, split, untold, lost, desired, faults>>
  BY DEF StopRenewer
<1>2. TypeOK /\ thread \in Threads
  BY DEF ScenarioInv, TypeOK
<1>3. CleanupSteps \subseteq DOMAIN StepRank
  BY DEF CleanupSteps, StepRank, Workers
<1>4. /\ thread' \in Threads /\ thread'.at = "cleanup" /\ thread'.todo = CleanupSteps
      /\ thread'.step = thread.step /\ thread'.op = thread.op
  BY <1>1, <1>2, <1>3 DEF Threads
<1>5. RestTyped
  BY <1>1, <1>2 DEF RestTyped, TypeOK
<1>6. TypeOK'
  <2>1. thread'.op \in 1 .. Len(Program(script.steps[thread'.step]))
    BY <1>2, <1>4 DEF TypeOK, Ops, StepType
  <2> QED
    BY <1>2, <1>4, <1>5, <2>1, TypeStep
<1>7. Stepping /\ Running /\ ~Running' /\ ~Starting' /\ ~Op("settle")
  BY <1>1, <1>4 DEF Stepping, Running, Starting, Engine, Op
<1>8. split # "reorg"
  BY <1>1 DEF ScenarioInv, SplitPlace, Op
<1>9. /\ FailedLate' /\ Paused' /\ Leased' /\ SplitPlace' /\ SplitHeld' /\ Gate
      /\ \A k \in 1 .. Len(script.steps) : ~Pending(k)'
  BY <1>1, <1>4, <1>7, <1>8, OutOfEngine
<1>10. Admitted'
  <2>1. mem.active /\ disk.active /\ mem.state # "none" /\ disk.state # "none"
    BY <1>1, RunningFacts
  <2> QED
    BY <1>1, <1>4, <1>7, <2>1 DEF Admitted
<1>11. Guarded'
  <2>1. Telling => Telling'
    BY <1>1, <1>7 DEF Telling, OfComponent
  <2> QED
    BY <1>1, <1>9, <2>1 DEF ScenarioInv, Guarded
<1>12. ASSUME script.restore PROVE Restoring' /\ RestoreSaved'
  <2>1. mem.active /\ disk.active
    BY <1>1, RunningFacts
  <2>2. mem.backup.phase = "captured" /\ disk.backup.phase \notin {"none", "restored"}
    BY <1>7, <1>12, <2>1 DEF ScenarioInv, Restoring, RestoreSaved
  <2>3. "restore" \in CleanupSteps
    BY <2>2 DEF CleanupSteps
  <2> QED
    BY <1>1, <1>4, <1>7, <2>2, <2>3 DEF Restoring, RestoreSaved
<1>13. Decided' /\ FinalKept
  BY <1>1, <1>9, DecidedKept
<1>14. Restored
  BY <1>1 DEF Restored
<1> QED
  BY <1>1, <1>6, <1>9, <1>10, <1>11, <1>12, <1>13, <1>14 DEF Kept, ScenarioInv

(***************************************************************************)
(* The end of the executor, and of the server.                             *)
(***************************************************************************)
\* A recovery has a place for everything that a table asks for.
LEMMA RecoveryFacts ==
  ASSUME NEW m
  PROVE  /\ m.context # "none" => "chain" \in RecoverySteps(m)
         /\ m.backup.phase \in {"captured", "running"} <=> "restore" \in RecoverySteps(m)
         /\ m.backup.phase \in {"captured", "running"} <=> "record" \in RecoverySteps(m)
  BY DEF RecoverySteps

\* Both workers are held while a reorg is under way.
LEMMA ReorgHeld ==
  ASSUME ScenarioInv, split = "reorg", ~lost
  PROVE  \A w \in Workers : OfComponent(w) # {}
<1>1. CASE thread.at = "recover"
  BY <1>1 DEF ScenarioInv, Guarded, SplitHeld
<1>2. CASE Op("settle")
  <2>1. thread.at = "step" /\ Cur = "settle" /\ StepType = "reorg"
    BY <1>2, ThreadFacts DEF ScenarioInv, Op, Cur, Belongs
  <2>2. \A w \in Workers : Holds(w)
    BY <2>1 DEF ScenarioInv, Guarded, Leased, Needs
  <2>3. ASSUME NEW w \in Workers PROVE OfComponent(w) # {}
    <3>1. Lease(w, rt[w]) \in held /\ Lease(w, rt[w]).c = w
      BY <2>2 DEF Holds, Lease
    <3> QED
      BY <3>1 DEF OfComponent
  <2> QED
    BY <2>3
<1> QED
  BY <1>1, <1>2 DEF ScenarioInv, SplitPlace

\* The thread ends, or a recovery begins, with the tables m and d.
LEMMA EndKept ==
  ASSUME ScenarioInv, RestTyped, mem'.state # "none", disk'.state # "none",
         UNCHANGED <<held, split, untold, lost, desired>>,
         \/ thread' = NoThread /\ ~mem'.active
         \/ thread' = Recovering(mem') /\ mem'.active /\ disk'.active,
         split = "reorg" => thread' = Recovering(mem') /\ mem'.context # "none" /\ disk'.context # "none",
         script.restore /\ mem'.active =>
           /\ mem'.backup.phase # "none"
           /\ mem'.backup.phase = "restored" => Settled(mem)',
         script.restore /\ disk'.active =>
           /\ disk'.backup.phase # "none"
           /\ disk'.backup.phase = "restored" => Settled(disk)',
         Restored, FinalKept,
         \A k \in 1 .. Len(script.steps) :
           disk'.checkpoints[k] \in {"released", "timed_out"} =>
             mem'.checkpoints[k] = disk'.checkpoints[k]
  PROVE  Kept
<1>1. TypeOK /\ script' = script
  BY DEF ScenarioInv, RestTyped
<1>2. /\ thread' \in Threads /\ thread'.step = 1 /\ thread'.op = 1
      /\ thread'.at \in {"idle", "recover"}
      /\ thread'.at = "recover" => thread' = Recovering(mem') /\ mem'.active /\ disk'.active
      /\ thread' = Recovering(mem') => thread'.at = "recover" /\ thread'.todo = RecoverySteps(mem')
      /\ thread' = NoThread => thread'.at = "idle"
  BY <1>1, NoThreadFacts
<1>3. TypeOK'
  BY <1>1, <1>2, FirstStep, TypeStep
<1>4. ~Starting' /\ ~Stepping' /\ ~Running' /\ thread'.at # "cleanup"
  BY <1>2 DEF Starting, Stepping, Running, Engine
<1>5. /\ FailedLate' /\ Paused' /\ Leased' /\ Gate
      /\ split' # "reorg" => SplitPlace' /\ SplitHeld'
      /\ \A k \in 1 .. Len(script.steps) : ~Pending(k)'
  BY <1>2, <1>4, OutOfEngine
<1>6. Admitted'
  BY <1>2, <1>4 DEF Admitted
<1>7. SplitPlace'
  <2>1. CASE split = "reorg"
    <3>1. "chain" \in thread'.todo /\ thread'.at = "recover"
      BY <1>2, <2>1, RecoveryFacts
    <3> QED
      BY <1>4, <2>1, <3>1 DEF SplitPlace
  <2> QED
    BY <1>5, <2>1
<1>8. Guarded'
  <2>1. CASE lost
    BY <2>1 DEF Guarded
  <2>2. CASE ~lost
    <3>1. \A w : OfComponent(w)' = OfComponent(w)
      BY DEF OfComponent
    <3>2. SplitHeld'
      BY <1>4, <2>2, <3>1, ReorgHeld DEF SplitHeld
    <3>3. Telling'
      BY <1>4, <2>2, <3>1 DEF ScenarioInv, Guarded, Telling
    <3> QED
      BY <1>5, <3>2, <3>3 DEF Guarded
  <2> QED
    BY <2>1, <2>2
<1>9. ASSUME script.restore PROVE Restoring' /\ RestoreSaved'
  <2>1. RestoreSaved'
    BY <1>4, <1>9 DEF RestoreSaved
  <2>2. ASSUME mem'.active
        PROVE  /\ thread'.at = "recover"
               /\ "restore" \in thread'.todo \/ "record" \in thread'.todo =>
                    mem'.backup.phase # "restored"
               /\ "restore" \notin thread'.todo => Settled(mem)'
    <3>1. thread'.at = "recover" /\ thread'.todo = RecoverySteps(mem')
      BY <1>2, <2>2
    <3>2. /\ "restore" \in thread'.todo \/ "record" \in thread'.todo =>
               mem'.backup.phase \in {"captured", "running"}
          /\ mem'.backup.phase \in {"captured", "running"} => "restore" \in thread'.todo
      BY <3>1, RecoveryFacts
    <3>3. mem'.backup.phase \in {"none", "captured", "running", "restored"}
      BY DEF RestTyped, Records
    <3> QED
      BY <1>9, <2>2, <3>1, <3>2, <3>3
  <2>3. Restoring'
    BY <1>4, <1>9, <2>2 DEF Restoring
  <2> QED
    BY <2>1, <2>3
<1>10. Decided'
  BY <1>1, <1>5 DEF Decided
<1> QED
  BY <1>1, <1>3, <1>5, <1>6, <1>7, <1>8, <1>9, <1>10 DEF Kept, ScenarioInv

\* finish_job: with everything given back, or with a recovery to follow.
LEMMA FinishStep ==
  ASSUME ScenarioInv, thread.at # "idle",
         NEW state \in {"succeeded", "failed", "aborted"}, NEW cleanup \in {"succeeded", "failed"},
         FinishJob(state, cleanup),
         UNCHANGED <<script, held, split, untold, lost, desired>>,
         rt' = rt \/ rt' = NoRuntime,
         renewer' = renewer \/ renewer' = [at |-> "off", todo |-> {}],
         cleanup = "succeeded" => split # "reorg" /\ (script.restore => Settled(mem))
  PROVE  Kept
<1> DEFINE done == [mem EXCEPT !.state = state, !.cleanup = cleanup, !.active = cleanup = "failed"]
<1>1. /\ mem' = done /\ disk' \in {disk, mem'} /\ abort' = FALSE
      /\ Fault \/ NoFault
      /\ thread' = IF cleanup = "failed" THEN Recovering(mem') ELSE NoThread
  BY DEF FinishJob, SaveBestEffort
<1>2. TypeOK
  BY DEF ScenarioInv
<1>3. /\ done \in Records /\ done.state = state /\ done.active = (cleanup = "failed")
      /\ done.backup = mem.backup /\ done.context = mem.context
      /\ done.checkpoints = mem.checkpoints
  <2> DEFINE b == cleanup = "failed"
  <2>1. b \in BOOLEAN
    OBVIOUS
  <2>2. done = [mem EXCEPT !.state = state, !.cleanup = cleanup, !.active = b]
    OBVIOUS
  <2> HIDE DEF b, done
  <2>3. /\ done \in Records /\ done.state = state /\ done.active = b
        /\ done.backup = mem.backup /\ done.context = mem.context
        /\ done.checkpoints = mem.checkpoints
    BY <1>2, <2>1, <2>2 DEF TypeOK, Records, Terminal
  <2> QED
    BY <2>3 DEF b
<1> HIDE DEF done
<1>4. mem.active /\ disk.active /\ mem.state # "none" /\ disk.state # "none"
  BY RunningFacts
<1>5. RestTyped
  <2>1. rt' \in Runtimes /\ \A c \in Components : rt'[c] <= rt'.seq
    BY <1>2, NoJobFacts DEF TypeOK
  <2>2. disk' \in Records /\ mem' \in Records
    BY <1>1, <1>2, <1>3 DEF TypeOK
  <2>3. renewer' \in [at : {"off", "parked", "renewing"}, todo : SUBSET [c : Components, id : Nat]]
    BY <1>2 DEF TypeOK
  <2> QED
    BY <1>1, <1>2, <2>1, <2>2, <2>3, FaultFacts DEF RestTyped, TypeOK
<1>6. \/ thread' = NoThread /\ ~mem'.active
      \/ thread' = Recovering(mem') /\ mem'.active /\ disk'.active
  BY <1>1, <1>3, <1>4
<1>7. split = "reorg" =>
        thread' = Recovering(mem') /\ mem'.context # "none" /\ disk'.context # "none"
  BY <1>1, <1>3 DEF ScenarioInv, SplitPlace
<1>8. /\ Settled(mem) => Settled(mem)'
      /\ disk' = disk /\ Settled(disk) => Settled(disk)'
      /\ disk' = mem' /\ Settled(mem) => Settled(disk)'
  BY <1>1, <1>3 DEF Settled
<1>9. /\ script.restore /\ mem'.active =>
           /\ mem'.backup.phase # "none"
           /\ mem'.backup.phase = "restored" => Settled(mem)'
      /\ script.restore /\ disk'.active =>
           /\ disk'.backup.phase # "none"
           /\ disk'.backup.phase = "restored" => Settled(disk)'
  BY <1>1, <1>3, <1>4, <1>8 DEF ScenarioInv, Restoring, RestoreSaved
<1>10. Restored
  BY <1>1, <1>3 DEF Restored, Settled
<1>11. /\ FinalKept
       /\ \A k \in 1 .. Len(script.steps) :
            disk'.checkpoints[k] \in {"released", "timed_out"} =>
              mem'.checkpoints[k] = disk'.checkpoints[k]
  BY <1>1, <1>3 DEF ScenarioInv, Decided, FinalKept
<1>12. mem'.state # "none" /\ disk'.state # "none"
  BY <1>1, <1>3, <1>4
<1> QED
  BY <1>5, <1>6, <1>7, <1>9, <1>10, <1>11, <1>12, EndKept

\* Before the first step there is nothing to give back.
LEMMA StartingFacts ==
  ASSUME ScenarioInv, Starting
  PROVE  thread.at # "idle" /\ split # "reorg" /\ (script.restore => Settled(mem))
<1>1. thread.at # "idle" /\ split = "no"
  BY DEF ScenarioInv, Admitted, Starting
<1>2. mem.active
  BY <1>1, RunningFacts
<1> QED
  BY <1>1, <1>2 DEF ScenarioInv, Restoring

\* The job fails before its thread runs, or begins.
LEMMA BeginStep ==
  ASSUME ScenarioInv, FailBeforeThread \/ Begin \/ StartRenewer
  PROVE  Kept
<1>1. Starting
  BY DEF FailBeforeThread, Begin, StartRenewer, Starting
<1>2. thread.at # "idle" /\ split # "reorg" /\ (script.restore => Settled(mem))
  BY <1>1, StartingFacts
<1>3. mem \in Records
  BY DEF ScenarioInv, TypeOK
<1>4. CASE FailBeforeThread
  BY <1>2, <1>4, FinishStep DEF FailBeforeThread
<1>5. CASE Begin
  <2>1. CASE abort
    BY <1>2, <1>5, <2>1, FinishStep DEF Begin
  <2>2. CASE ~abort
    <3> DEFINE x == IF mem.state = "abort_requested" THEN mem.state ELSE "running"
    <3>1. /\ thread.at = "new" /\ thread' = [thread EXCEPT !.at = "spawn"]
          /\ mem' = [mem EXCEPT !.state = x] /\ disk' \in {disk, mem'}
          /\ Fault \/ NoFault
          /\ UNCHANGED <<script, rt, renewer, held, abort, split, untold, lost, desired>>
      BY <1>5, <2>2 DEF Begin, SaveBestEffort
    <3>2. x \in {"running", mem.state}
      OBVIOUS
    <3> HIDE DEF x
    <3> QED
      BY <1>1, <3>1, <3>2, BootStep
  <2> QED
    BY <2>1, <2>2
<1>6. CASE StartRenewer
  <2>1. CASE thread' = [thread EXCEPT !.at = "bootstrap"]
             /\ renewer' = [renewer EXCEPT !.at = "parked"]
             /\ UNCHANGED <<mem, disk, abort, faults>>
    <3>1. mem' = [mem EXCEPT !.state = mem.state]
      BY <1>3, <2>1 DEF Records
    <3>2. /\ thread.at = "spawn"
          /\ UNCHANGED <<script, rt, held, abort, split, untold, lost, desired>>
      BY <1>6, <2>1 DEF StartRenewer
    <3> QED
      BY <1>1, <2>1, <3>1, <3>2, BootStep DEF NoFault
  <2>2. CASE FinishJob("failed", "succeeded") /\ UNCHANGED renewer
    BY <1>2, <1>6, <2>2, FinishStep DEF StartRenewer
  <2> QED
    BY <1>6, <2>1, <2>2 DEF StartRenewer
<1> QED
  BY <1>4, <1>5, <1>6

\* The cleanup is over.
LEMMA FinishCleanupStep ==
  ASSUME ScenarioInv, FinishCleanup
  PROVE  Kept
<1>1. PICK state \in {"succeeded", "failed", "aborted"}, cleanup \in {"succeeded", "failed"} :
        /\ FinishJob(state, cleanup)
        /\ cleanup = "succeeded" => ~thread.errors
  BY DEF FinishCleanup
<1>2. /\ thread.at = "cleanup" /\ thread.todo = {}
      /\ UNCHANGED <<script, rt, renewer, held, split, untold, lost, desired>>
  BY DEF FinishCleanup
<1>3. split # "reorg"
  BY <1>2 DEF ScenarioInv, SplitPlace, Op
<1>4. mem.active
  BY <1>2, RunningFacts
<1>5. script.restore /\ ~thread.errors => Settled(mem)
  BY <1>2, <1>4 DEF ScenarioInv, Restoring
<1> QED
  BY <1>1, <1>2, <1>3, <1>5, FinishStep

\* The executor panics.
LEMMA PanicStep ==
  ASSUME ScenarioInv, ExecutorPanics
  PROVE  Kept
  BY FinishStep DEF ExecutorPanics

\* The recovery is over.
LEMMA RecoveredStep ==
  ASSUME ScenarioInv, RecoveryComplete
  PROVE  Kept
<1> DEFINE m == [mem EXCEPT !.cleanup = "succeeded", !.active = FALSE]
<1>1. /\ thread.at = "recover" /\ thread.todo = {} /\ thread' = NoThread
      /\ mem' = m /\ disk' \in {disk, mem'}
      /\ Fault \/ NoFault
      /\ UNCHANGED <<script, rt, renewer, held, abort, split, untold, lost, desired>>
  BY DEF RecoveryComplete, SaveBestEffort
<1>2. TypeOK
  BY DEF ScenarioInv
<1>3. /\ m \in Records /\ m.state = mem.state /\ ~m.active
      /\ m.backup = mem.backup /\ m.context = mem.context
      /\ m.checkpoints = mem.checkpoints
  BY <1>2 DEF TypeOK, Records
<1> HIDE DEF m
<1>4. mem.active /\ disk.active /\ mem.state # "none" /\ disk.state # "none"
  BY <1>1, RunningFacts
<1>5. RestTyped
  BY <1>1, <1>2, <1>3, FaultFacts DEF RestTyped, TypeOK
<1>6. split # "reorg"
  BY <1>1 DEF ScenarioInv, SplitPlace, Op
<1>7. script.restore => Settled(mem)
  BY <1>1, <1>4 DEF ScenarioInv, Restoring
<1>8. script.restore /\ disk'.active =>
        /\ disk'.backup.phase # "none"
        /\ disk'.backup.phase = "restored" => Settled(disk)'
  BY <1>1, <1>3 DEF ScenarioInv, RestoreSaved, Settled
<1>9. Restored
  BY <1>1, <1>7 DEF Restored, Settled
<1>10. /\ FinalKept
       /\ \A k \in 1 .. Len(script.steps) :
            disk'.checkpoints[k] \in {"released", "timed_out"} =>
              mem'.checkpoints[k] = disk'.checkpoints[k]
  BY <1>1, <1>3 DEF ScenarioInv, Decided, FinalKept
<1>11. mem'.state # "none" /\ disk'.state # "none" /\ ~mem'.active
  BY <1>1, <1>3, <1>4
<1> QED
  BY <1>1, <1>5, <1>6, <1>8, <1>9, <1>10, <1>11, EndKept

\* The server starts anew, from its file.
LEMMA RestartStep ==
  ASSUME ScenarioInv, Restart
  PROVE  Kept
<1> DEFINE m == IF disk.active /\ disk.state \notin Terminal
                THEN [disk EXCEPT !.state = "interrupted", !.cleanup = "running"] ELSE disk
<1>1. /\ mem' = m /\ disk' = m /\ Fault
      /\ thread' = IF m.active THEN Recovering(m) ELSE NoThread
      /\ renewer' = [at |-> "off", todo |-> {}] /\ rt' = NoRuntime /\ abort' = FALSE
      /\ UNCHANGED <<script, held, split, untold, lost, desired>>
  BY DEF Restart
<1>2. TypeOK
  BY DEF ScenarioInv
<1>3. /\ m \in Records /\ m.active = disk.active /\ m.backup = disk.backup
      /\ m.context = disk.context /\ m.checkpoints = disk.checkpoints
      /\ disk.state # "none" => m.state # "none"
      /\ ~disk.active => m = disk
  <2> DEFINE e == [disk EXCEPT !.state = "interrupted", !.cleanup = "running"]
  <2>1. /\ e \in Records /\ e.active = disk.active /\ e.backup = disk.backup
        /\ e.context = disk.context /\ e.checkpoints = disk.checkpoints /\ e.state # "none"
    BY <1>2 DEF TypeOK, Records, Terminal
  <2>2. (m = e /\ disk.active) \/ m = disk
    OBVIOUS
  <2> HIDE DEF e, m
  <2> QED
    BY <1>2, <2>1, <2>2 DEF TypeOK
<1> HIDE DEF m
<1>4. /\ NoJob \in Records /\ ~NoJob.active /\ NoJob.state = "none"
      /\ NoRuntime \in Runtimes /\ \A c \in Components : NoRuntime[c] <= NoRuntime.seq
      /\ \A k \in 1 .. Len(script.steps) : NoJob.checkpoints[k] = "pending"
  BY <1>2, NoJobFacts
<1>5. RestTyped
  BY <1>1, <1>2, <1>3, <1>4, FaultFacts DEF RestTyped, TypeOK
<1>6. Restored
  <2>1. ASSUME mem.active, ~disk.active, script.restore PROVE Settled(mem)
    <3>1. thread.at = "idle"
      BY <2>1, RunningFacts
    <3> QED
      BY <2>1, <3>1 DEF ScenarioInv, Restoring
  <2> QED
    BY <1>1, <1>3, <2>1 DEF Restored, Settled
<1>7. FinalKept
  BY <1>1, <1>3 DEF FinalKept
<1>8. CASE disk.state # "none"
  <2>1. mem'.state # "none" /\ disk'.state # "none"
    BY <1>1, <1>3, <1>8
  <2>2. \/ thread' = NoThread /\ ~mem'.active
        \/ thread' = Recovering(mem') /\ mem'.active /\ disk'.active
    BY <1>1
  <2>3. split = "reorg" =>
          thread' = Recovering(mem') /\ mem'.context # "none" /\ disk'.context # "none"
    <3>1. ASSUME split = "reorg" PROVE thread.at # "idle" /\ disk.context # "none"
      BY <3>1 DEF ScenarioInv, SplitPlace, Op
    <3>2. split = "reorg" => disk.active
      BY <3>1, RunningFacts
    <3> QED
      BY <1>1, <1>3, <3>1, <3>2
  <2>4. Settled(disk) => Settled(mem)' /\ Settled(disk)'
    BY <1>1, <1>3 DEF Settled
  <2>5. /\ script.restore /\ mem'.active =>
             /\ mem'.backup.phase # "none"
             /\ mem'.backup.phase = "restored" => Settled(mem)'
        /\ script.restore /\ disk'.active =>
             /\ disk'.backup.phase # "none"
             /\ disk'.backup.phase = "restored" => Settled(disk)'
    BY <1>1, <1>3, <2>4 DEF ScenarioInv, RestoreSaved
  <2> QED
    BY <1>1, <1>5, <1>6, <1>7, <2>1, <2>2, <2>3, <2>5, EndKept
<1>9. CASE disk.state = "none"
  <2>1. disk = NoJob /\ thread.at = "idle" /\ ~untold /\ split = "no"
    BY <1>9 DEF ScenarioInv, Admitted
  <2>2. mem' = NoJob /\ disk' = NoJob /\ thread' = NoThread /\ NoJob' = NoJob
        /\ NoRuntime' = NoRuntime
    <3>1. m = disk /\ ~m.active
      BY <1>3, <1>4, <2>1
    <3>2. NoJob' = NoJob /\ NoRuntime' = NoRuntime
      BY <1>1 DEF NoJob, NoRuntime
    <3> QED
      BY <1>1, <2>1, <3>1, <3>2
  <2>3. /\ thread' \in Threads /\ thread'.step = 1 /\ thread'.op = 1 /\ thread'.at = "idle"
    BY <1>2, <2>2, NoThreadFacts
  <2>4. TypeOK'
    BY <1>2, <1>5, <2>3, FirstStep, TypeStep
  <2>5. ~Starting' /\ ~Running'
    BY <2>3 DEF Starting, Running, Stepping, Engine
  <2>6. /\ FailedLate' /\ Paused' /\ Leased' /\ Gate /\ SplitPlace' /\ SplitHeld'
        /\ \A k \in 1 .. Len(script.steps) : ~Pending(k)'
    BY <1>1, <2>1, <2>3, <2>5, OutOfEngine
  <2>7. Admitted'
    BY <1>1, <1>4, <2>1, <2>2, <2>3, <2>5 DEF Admitted
  <2>8. Guarded'
    BY <1>1, <2>1, <2>6 DEF Guarded, Telling
  <2>9. Restoring' /\ RestoreSaved'
    BY <1>4, <2>2 DEF Restoring, RestoreSaved
  <2>10. Decided'
    BY <1>1, <2>2, <2>6 DEF Decided
  <2> QED
    BY <1>6, <1>7, <2>4, <2>6, <2>7, <2>8, <2>9, <2>10 DEF Kept, ScenarioInv
<1> QED
  BY <1>8, <1>9

(***************************************************************************)
(* Cleanup and recovery.                                                   *)
(***************************************************************************)
\* The thread is still in its cleanup, or in its recovery.
GoesOn ==
  /\ thread.at \in {"cleanup", "recover"}
  /\ thread' \in Threads /\ thread'.at = thread.at
  /\ thread'.op \in 1 .. Len(Program(script.steps[thread'.step]))

\* The ways on of the actions.
LEMMA GoOn ==
  ASSUME ScenarioInv, NEW s, IsNext(s), StepDone(s) \/ StepFails(s)
  PROVE  /\ GoesOn
         /\ \/ thread.at = "recover" /\ thread'.todo = RecoverySteps(mem)
            \/ thread'.todo = thread.todo \ {s} /\ thread'.errors = thread.errors
            \/ /\ thread.at = "cleanup" /\ thread'.errors
               /\ thread'.todo = thread.todo \ (IF s = "restore" THEN {"restore", "record"} ELSE {s})
         /\ StepDone(s) => thread'.todo = thread.todo \ {s} /\ thread'.errors = thread.errors
<1>1. /\ TypeOK /\ thread \in Threads /\ thread.at \in {"cleanup", "recover"}
      /\ thread.todo \subseteq DOMAIN StepRank
      /\ thread.op \in 1 .. Len(Program(script.steps[thread.step]))
  BY DEF ScenarioInv, TypeOK, IsNext, Threads, Ops, StepType
<1>2. ASSUME StepDone(s)
      PROVE  /\ thread' \in Threads /\ thread'.at = thread.at /\ thread'.op = thread.op
             /\ thread'.step = thread.step
             /\ thread'.todo = thread.todo \ {s} /\ thread'.errors = thread.errors
  BY <1>1, <1>2 DEF StepDone, Threads
<1>3. ASSUME StepFails(s), thread.at = "cleanup"
      PROVE  /\ thread' \in Threads /\ thread'.at = thread.at /\ thread'.op = thread.op
             /\ thread'.step = thread.step /\ thread'.errors
             /\ thread'.todo = thread.todo \ (IF s = "restore" THEN {"restore", "record"} ELSE {s})
  <2> DEFINE d == thread.todo \ (IF s = "restore" THEN {"restore", "record"} ELSE {s})
  <2>1. d \subseteq DOMAIN StepRank
    BY <1>1
  <2>2. thread' = [thread EXCEPT !.errors = TRUE, !.todo = d]
    BY <1>3 DEF StepFails
  <2> HIDE DEF d
  <2>3. /\ thread' \in Threads /\ thread'.at = thread.at /\ thread'.op = thread.op
        /\ thread'.step = thread.step /\ thread'.errors /\ thread'.todo = d
    BY <1>1, <2>1, <2>2 DEF Threads
  <2> QED
    BY <2>3 DEF d
<1>4. ASSUME StepFails(s), thread.at = "recover"
      PROVE  /\ thread' \in Threads /\ thread'.at = "recover" /\ thread'.op = 1
             /\ thread'.step = 1 /\ thread'.todo = RecoverySteps(mem)
  BY <1>1, <1>4, NoThreadFacts DEF StepFails
<1>5. 1 \in 1 .. Len(Program(script.steps[1]))
  BY <1>1, FirstStep
<1>6. CASE StepDone(s)
  BY <1>1, <1>2, <1>6 DEF GoesOn
<1>7. CASE StepFails(s) /\ ~StepDone(s)
  BY <1>1, <1>3, <1>4, <1>5, <1>7 DEF GoesOn
<1> QED
  BY <1>6, <1>7

\* What a step of the cleanup or the recovery has to keep.
LEMMA CleanKept ==
  ASSUME ScenarioInv, GoesOn, RestTyped, rt' = rt, lost' = lost,
         mem'.active = mem.active, mem'.state = mem.state, mem'.context = mem.context,
         mem'.checkpoints = mem.checkpoints, disk' \in {disk, mem'},
         split' \in {split, "no"},
         split' = "reorg" => /\ "chain" \in thread.todo => "chain" \in thread'.todo
                             /\ lost \/ \A w \in Workers : OfComponent(w)' # {},
         untold' => lost \/ (untold /\ OfComponent("spam")' # {}),
         script.restore => Restoring' /\ RestoreSaved'
  PROVE  Kept
<1>1. /\ TypeOK /\ script' = script /\ thread'.at \in {"cleanup", "recover"}
      /\ thread'.at = thread.at /\ thread.at # "idle"
  BY DEF ScenarioInv, RestTyped, GoesOn
<1>2. mem.active /\ disk.active /\ mem.state # "none" /\ disk.state # "none"
  BY <1>1, RunningFacts
<1>3. TypeOK'
  BY <1>1, TypeStep DEF GoesOn
<1>4. ~Starting' /\ ~Stepping' /\ ~Stepping /\ ~Op("settle") /\ ~Op("settle")'
  BY <1>1 DEF Starting, Stepping, Engine, Op
<1>5. /\ FailedLate' /\ Paused' /\ Leased' /\ Gate
      /\ split' # "reorg" => SplitPlace' /\ SplitHeld'
      /\ \A k \in 1 .. Len(script.steps) : ~Pending(k)'
  BY <1>1, <1>4, OutOfEngine
<1>6. Admitted'
  BY <1>1, <1>2, <1>4 DEF Admitted
<1>7. SplitPlace'
  <2>1. CASE split' = "reorg"
    <3>1. /\ mem.context # "none" /\ disk.context # "none"
          /\ thread.at = "recover" /\ "chain" \in thread.todo
      BY <1>4, <2>1 DEF ScenarioInv, SplitPlace
    <3>2. mem'.context # "none" /\ disk'.context # "none"
      BY <3>1
    <3> QED
      BY <1>1, <1>4, <2>1, <3>1, <3>2 DEF SplitPlace
  <2> QED
    BY <1>5, <2>1
<1>8. Guarded'
  <2>1. CASE lost
    BY <2>1 DEF Guarded
  <2>2. CASE ~lost
    <3>1. SplitHeld'
      BY <1>4, <2>2 DEF SplitHeld
    <3>2. Telling /\ thread'.at = thread.at
      BY <1>1, <2>2 DEF ScenarioInv, Guarded
    <3>3. Telling'
      BY <1>4, <2>2, <3>2 DEF Telling
    <3> QED
      BY <1>5, <3>1, <3>3 DEF Guarded
  <2> QED
    BY <2>1, <2>2
<1>9. Decided' /\ FinalKept
  BY <1>1, <1>5, DecidedKept
<1>10. Restored
  BY DEF Restored
<1> QED
  BY <1>1, <1>3, <1>5, <1>6, <1>7, <1>8, <1>9, <1>10 DEF Kept, ScenarioInv

\* Steps that neither restore the settings nor record it.
LEMMA BackupKept ==
  ASSUME ScenarioInv, script.restore, NEW s,
         thread.at \in {"cleanup", "recover"}, thread'.at = thread.at,
         \/ thread.at = "recover" /\ thread'.todo = RecoverySteps(mem')
         \/ /\ s \notin {"restore", "record"}
            /\ thread'.todo = thread.todo \ {s} /\ thread'.errors = thread.errors
         \/ /\ thread.at = "cleanup" /\ thread'.errors
            /\ thread'.todo = thread.todo \ (IF s = "restore" THEN {"restore", "record"} ELSE {s}),
         mem'.active = mem.active, mem'.backup = mem.backup, mem' \in Records,
         disk' \in {disk, mem'}, desired' = desired
  PROVE  Restoring' /\ RestoreSaved'
<1>1. ~Running' /\ ~Running /\ ~Starting' /\ thread'.at # "idle" /\ mem.active
  BY RunningFacts DEF Running, Starting, Stepping, Engine
<1>2. Restoring /\ RestoreSaved
  BY DEF ScenarioInv
<1>3. /\ Settled(mem) => Settled(mem)'
      /\ disk' = disk /\ Settled(disk) => Settled(disk)'
      /\ disk' = mem' /\ Settled(mem) => Settled(disk)'
  BY DEF Settled
<1>4. RestoreSaved'
  BY <1>1, <1>2, <1>3 DEF RestoreSaved, Restoring
<1>5. CASE thread.at = "recover" /\ thread'.todo = RecoverySteps(mem')
  <2>1. /\ mem.backup.phase # "none" /\ (mem.backup.phase = "restored" => Settled(mem))
        /\ mem.backup.phase \in {"none", "captured", "running", "restored"}
    BY <1>1, <1>2 DEF Restoring, Records
  <2>2. /\ mem.backup.phase \in {"captured", "running"} <=> "restore" \in thread'.todo
        /\ mem.backup.phase \in {"captured", "running"} <=> "record" \in thread'.todo
    BY <1>5, RecoveryFacts
  <2>3. Restoring'
    BY <1>1, <1>3, <2>1, <2>2 DEF Restoring
  <2> QED
    BY <1>4, <2>3
<1>6. CASE /\ s \notin {"restore", "record"}
           /\ thread'.todo = thread.todo \ {s} /\ thread'.errors = thread.errors
  <2>1. /\ "restore" \in thread'.todo <=> "restore" \in thread.todo
        /\ "record" \in thread'.todo <=> "record" \in thread.todo
    BY <1>6
  <2>2. Restoring'
    BY <1>1, <1>2, <1>3, <1>6, <2>1 DEF Restoring
  <2> QED
    BY <1>4, <2>2
<1>7. CASE /\ thread.at = "cleanup" /\ thread'.errors
           /\ thread'.todo = thread.todo \ (IF s = "restore" THEN {"restore", "record"} ELSE {s})
  <2>1. /\ "restore" \in thread'.todo => "restore" \in thread.todo
        /\ "record" \in thread'.todo => "record" \in thread.todo
        /\ "restore" \notin thread'.todo /\ "record" \in thread'.todo => "restore" \notin thread.todo
    BY <1>7
  <2>2. Restoring'
    BY <1>1, <1>2, <1>3, <1>7, <2>1 DEF Restoring
  <2> QED
    BY <1>4, <2>2
<1> QED
  BY <1>5, <1>6, <1>7

\* A reorg stays on the list until it is settled.
LEMMA ChainKept ==
  ASSUME ScenarioInv, NEW s, IsNext(s), StepDone(s) \/ StepFails(s),
         split = "reorg", StepDone(s) => s # "chain"
  PROVE  "chain" \in thread'.todo /\ thread.at = "recover"
<1>1. thread.at = "recover" /\ "chain" \in thread.todo /\ mem.context # "none"
  BY DEF ScenarioInv, SplitPlace, Op, IsNext
<1>2. "chain" \in RecoverySteps(mem)
  BY <1>1, RecoveryFacts
<1>3. CASE StepDone(s)
  BY <1>1, <1>3, GoOn
<1>4. CASE StepFails(s)
  <2>1. thread'.todo = RecoverySteps(mem)
    BY <1>1, <1>4, NoThreadFacts DEF StepFails, ScenarioInv
  <2> QED
    BY <1>1, <1>2, <2>1
<1> QED
  BY <1>3, <1>4

\* Steps that change no table but may change leases and nodes.
LEMMA TidyStep ==
  ASSUME ScenarioInv, NEW s, IsNext(s), s \in {"restore", "record"} => StepFails(s),
         StepDone(s) \/ StepFails(s), Fault \/ NoFault,
         UNCHANGED <<script, mem, disk, rt, renewer, abort, lost, desired>>,
         held' \subseteq held, split' \in {split, "no"}, untold' \in BOOLEAN,
         split' = "reorg" /\ StepDone(s) => s # "chain",
         split' = "reorg" => lost \/ \A w \in Workers : OfComponent(w)' # {},
         untold' => lost \/ (untold /\ OfComponent("spam")' # {})
  PROVE  Kept
<1>1. TypeOK
  BY DEF ScenarioInv
<1>2. RestTyped
  BY <1>1, FaultFacts DEF RestTyped, TypeOK
<1>3. /\ GoesOn
      /\ \/ thread.at = "recover" /\ thread'.todo = RecoverySteps(mem)
         \/ thread'.todo = thread.todo \ {s} /\ thread'.errors = thread.errors
         \/ /\ thread.at = "cleanup" /\ thread'.errors
            /\ thread'.todo = thread.todo \ (IF s = "restore" THEN {"restore", "record"} ELSE {s})
  BY GoOn
<1>4. \/ thread.at = "recover" /\ thread'.todo = RecoverySteps(mem)
      \/ /\ s \notin {"restore", "record"}
         /\ thread'.todo = thread.todo \ {s} /\ thread'.errors = thread.errors
      \/ /\ thread.at = "cleanup" /\ thread'.errors
         /\ thread'.todo = thread.todo \ (IF s = "restore" THEN {"restore", "record"} ELSE {s})
  <2>1. CASE s \in {"restore", "record"}
    <3>1. CASE thread.at = "recover"
      BY <1>1, <2>1, <3>1, NoThreadFacts DEF StepFails
    <3>2. CASE thread.at = "cleanup"
      <4>1. thread \in Threads
        BY <1>1 DEF TypeOK
      <4>2. thread'.errors
            /\ thread'.todo = thread.todo \ (IF s = "restore" THEN {"restore", "record"} ELSE {s})
        BY <2>1, <3>2, <4>1 DEF StepFails, Threads
      <4> QED
        BY <3>2, <4>2
    <3> QED
      BY <1>3, <3>1, <3>2 DEF GoesOn
  <2>2. CASE s \notin {"restore", "record"}
    BY <1>3, <2>2
  <2> QED
    BY <2>1, <2>2
<1>5. ASSUME script.restore PROVE Restoring' /\ RestoreSaved'
  <2>1. /\ thread.at \in {"cleanup", "recover"} /\ thread'.at = thread.at
        /\ mem' \in Records /\ mem'.active = mem.active /\ mem'.backup = mem.backup
        /\ disk' \in {disk, mem'} /\ desired' = desired
        /\ RecoverySteps(mem') = RecoverySteps(mem)
    BY <1>1, <1>3 DEF GoesOn, TypeOK
  <2> QED
    BY <1>4, <1>5, <2>1, BackupKept
<1>6. split' = "reorg" => "chain" \in thread'.todo
  BY ChainKept
<1> QED
  BY <1>2, <1>3, <1>5, <1>6, CleanKept

\* A call of the cleanup or the recovery fails.
LEMMA CallFailsStep ==
  ASSUME ScenarioInv, NEW s, CallFails(s)
  PROVE  Kept
<1>1. /\ IsNext(s) /\ StepFails(s) /\ Fault
      /\ UNCHANGED <<script, mem, disk, rt, renewer, held, abort, split, untold, lost, desired>>
  BY DEF CallFails
<1>2. /\ \A w : OfComponent(w)' = OfComponent(w)
      /\ untold' \in BOOLEAN
  BY <1>1 DEF OfComponent, ScenarioInv, TypeOK
<1>3. split' = "reorg" => lost \/ \A w \in Workers : OfComponent(w)' # {}
  BY <1>1, <1>2, ReorgHeld
<1>4. untold' => lost \/ (untold /\ OfComponent("spam")' # {})
  BY <1>1, <1>2 DEF ScenarioInv, Guarded, Telling
<1>5. split' = "reorg" /\ StepDone(s) => s # "chain"
  <2>1. ASSUME split = "reorg", StepDone(s), s = "chain" PROVE FALSE
    <3>1. thread.at = "recover" /\ mem.context # "none" /\ TypeOK /\ thread \in Threads
      BY <1>1, <2>1 DEF ScenarioInv, SplitPlace, IsNext, Op, TypeOK
    <3>2. thread'.todo = RecoverySteps(mem)
      BY <1>1, <3>1, NoThreadFacts DEF StepFails
    <3>3. thread'.todo = thread.todo \ {s}
      BY <2>1, <3>1 DEF StepDone, Threads
    <3> QED
      BY <2>1, <3>1, <3>2, <3>3, RecoveryFacts
  <2> QED
    BY <1>1, <2>1
<1> QED
  BY <1>1, <1>2, <1>3, <1>4, <1>5, TidyStep

\* The network, the nodes and the released workers.
LEMMA NodesStep ==
  ASSUME ScenarioInv, CleanNetwork \/ CleanConverge \/ RecoverReorg \/ VerifyReleased
  PROVE  Kept
<1>1. PICK s \in {"network", "converge", "chain", "verify"} :
        /\ IsNext(s) /\ (StepDone(s) \/ StepFails(s))
        /\ UNCHANGED <<script, mem, disk, rt, renewer, abort, untold, lost, desired, faults>>
        /\ held' = held \/ held' = held \ OfComponent("network")
        /\ split' \in {split, "no"}
        /\ s = "chain" => split' # "reorg"
  <2>1. CASE CleanNetwork
    BY <2>1 DEF CleanNetwork
  <2>2. CASE CleanConverge
    BY <2>2 DEF CleanConverge
  <2>3. CASE RecoverReorg
    BY <2>3 DEF RecoverReorg
  <2>4. CASE VerifyReleased
    BY <2>4 DEF VerifyReleased
  <2> QED
    BY <2>1, <2>2, <2>3, <2>4
<1>2. \A w \in Workers : OfComponent(w)' = OfComponent(w)
  BY <1>1 DEF OfComponent, Workers
<1>3. split' = "reorg" => lost \/ \A w \in Workers : OfComponent(w)' # {}
  BY <1>1, <1>2, ReorgHeld
<1>4. untold' => lost \/ (untold /\ OfComponent("spam")' # {})
  BY <1>1, <1>2 DEF ScenarioInv, Guarded, Telling, Workers
<1>5. held' \subseteq held /\ untold' \in BOOLEAN /\ (Fault \/ NoFault)
  BY <1>1 DEF NoFault, ScenarioInv, TypeOK
<1> QED
  BY <1>1, <1>3, <1>4, <1>5, TidyStep

\* A worker is released at the end.
LEMMA ReleaseWorkerStep ==
  ASSUME ScenarioInv, NEW w \in Workers, ReleaseWorker(w)
  PROVE  Kept
<1>1. /\ IsNext(w) /\ StepDone(w) /\ held' = held \ OfComponent(w)
      /\ untold' = IF OfComponent(w) # {} /\ thread.at = "recover" /\ w = "spam"
                   THEN FALSE
                   ELSE IF thread.at = "cleanup" THEN Told(w) ELSE untold
      /\ UNCHANGED <<script, mem, disk, rt, renewer, abort, split, lost, desired, faults>>
  BY DEF ReleaseWorker
<1>2. split # "reorg"
  <2>1. ASSUME split = "reorg" PROVE FALSE
    <3>1. "chain" \in thread.todo
      BY <1>1, <2>1 DEF ScenarioInv, SplitPlace, Op, IsNext
    <3>2. StepRank[w] <= StepRank["chain"]
      BY <1>1, <3>1 DEF IsNext
    <3> QED
      BY <3>2 DEF StepRank, Workers
  <2> QED
    BY <2>1
<1>3. held' \subseteq held /\ untold' \in BOOLEAN
  <2>1. untold \in BOOLEAN
    BY DEF ScenarioInv, TypeOK
  <2> QED
    BY <1>1, <2>1 DEF Told
<1>4. ASSUME untold', ~lost PROVE untold /\ OfComponent("spam")' # {}
  <2>1. untold
    BY <1>1, <1>4 DEF Told
  <2>2. OfComponent("spam") # {} /\ (thread.at = "cleanup" => rt.changed)
    BY <1>1, <1>4, <2>1 DEF ScenarioInv, Guarded, Telling, Op, IsNext
  <2>3. w # "spam"
    BY <1>1, <1>4, <2>2 DEF Told, IsNext
  <2>4. OfComponent("spam") \subseteq OfComponent("spam")'
    BY <1>1, <2>3 DEF OfComponent
  <2> QED
    BY <2>1, <2>2, <2>4
<1>5. w \notin {"restore", "record"}
  BY DEF Workers
<1> QED
  BY <1>1, <1>2, <1>3, <1>4, <1>5, TidyStep DEF NoFault

\* A recovery takes the workers.
LEMMA RecoveryLeaseStep ==
  ASSUME ScenarioInv, NEW w \in Workers, RecoveryLease(w)
  PROVE  Kept
<1> DEFINE m == [mem EXCEPT !.intents = @ \cup {Lease(w, 0)}]
<1>1. PICK s \in {"lease_spam", "lease_mining"} :
        /\ IsNext(s) /\ StepDone(s)
        /\ \/ UNCHANGED <<mem, disk, held>>
           \/ mem' = m /\ disk' = m /\ held' = held \cup {Lease(w, 0)}
        /\ UNCHANGED <<script, rt, renewer, abort, split, untold, lost, desired, faults>>
  BY DEF RecoveryLease
<1>2. TypeOK /\ mem \in Records
  BY DEF ScenarioInv, TypeOK
<1>3. Lease(w, 0) \in [c : Components, id : Nat]
  BY DEF Lease, Components
<1>4. /\ m \in Records /\ m.state = mem.state /\ m.active = mem.active
      /\ m.backup = mem.backup /\ m.context = mem.context /\ m.checkpoints = mem.checkpoints
  <2> DEFINE i == mem.intents \cup {Lease(w, 0)}
  <2>1. i \in SUBSET [c : Components, id : Nat]
    BY <1>2, <1>3 DEF Records
  <2>2. m = [mem EXCEPT !.intents = i]
    BY <1>2 DEF Records
  <2> HIDE DEF i, m
  <2> QED
    BY <1>2, <2>1, <2>2 DEF Records
<1> HIDE DEF m
<1>5. /\ mem' \in Records /\ mem'.state = mem.state /\ mem'.active = mem.active
      /\ mem'.backup = mem.backup /\ mem'.context = mem.context
      /\ mem'.checkpoints = mem.checkpoints /\ disk' \in {disk, mem'}
      /\ held \subseteq held' /\ held' \subseteq [c : Components, id : Nat]
  BY <1>1, <1>2, <1>3, <1>4 DEF TypeOK
<1>6. RestTyped
  BY <1>1, <1>2, <1>5 DEF RestTyped, TypeOK
<1>7. /\ GoesOn
      /\ thread'.todo = thread.todo \ {s} /\ thread'.errors = thread.errors
  BY <1>1, GoOn
<1>8. script.restore => Restoring' /\ RestoreSaved'
  BY <1>1, <1>5, <1>7, BackupKept DEF GoesOn
<1>9. "chain" \in thread.todo => "chain" \in thread'.todo
  BY <1>1, <1>7
<1>10. \A v \in Workers : OfComponent(v) # {} => OfComponent(v)' # {}
  BY <1>5 DEF OfComponent
<1>11. split' = "reorg" => lost \/ \A v \in Workers : OfComponent(v)' # {}
  BY <1>1, <1>10, ReorgHeld
<1>12. untold' => lost \/ (untold /\ OfComponent("spam")' # {})
  BY <1>1, <1>10 DEF ScenarioInv, Guarded, Telling, Workers
<1> QED
  BY <1>1, <1>5, <1>6, <1>7, <1>8, <1>9, <1>11, <1>12, CleanKept

\* A recovery or cleanup that goes on with everything but its backup kept.
LEMMA BackupStep ==
  ASSUME ScenarioInv, GoesOn, NEW p \in {"running", "restored"},
         mem' = [mem EXCEPT !.backup.phase = p], disk' \in {disk, mem'},
         desired' \in {desired, mem.backup.value}, Fault \/ NoFault,
         "chain" \in thread.todo => "chain" \in thread'.todo,
         UNCHANGED <<script, rt, renewer, held, abort, split, untold, lost>>,
         script.restore => Restoring' /\ RestoreSaved'
  PROVE  Kept
<1>1. TypeOK /\ mem \in Records
  BY DEF ScenarioInv, TypeOK
<1>2. /\ mem' \in Records /\ mem'.state = mem.state /\ mem'.active = mem.active
      /\ mem'.context = mem.context /\ mem'.checkpoints = mem.checkpoints
  BY <1>1 DEF Records
<1>3. mem.backup.value \in {"initial", "changed", "operator"}
  BY <1>1 DEF Records
<1>4. RestTyped
  BY <1>1, <1>2, <1>3, FaultFacts DEF RestTyped, TypeOK
<1>5. \A w : OfComponent(w)' = OfComponent(w)
  BY DEF OfComponent
<1>6. split' = "reorg" => lost \/ \A w \in Workers : OfComponent(w)' # {}
  BY <1>5, ReorgHeld
<1>7. untold' => lost \/ (untold /\ OfComponent("spam")' # {})
  BY <1>5 DEF ScenarioInv, Guarded, Telling
<1> QED
  BY <1>2, <1>4, <1>6, <1>7, CleanKept

\* The phase of the backup is changed.
LEMMA BackupEdit ==
  ASSUME TypeOK, NEW p \in {"running", "restored"}, mem' = [mem EXCEPT !.backup.phase = p]
  PROVE  mem'.backup.phase = p /\ mem'.backup.value = mem.backup.value /\ mem'.active = mem.active
  BY DEF TypeOK, Records

\* The settings are restored.
LEMMA RestoreStep ==
  ASSUME ScenarioInv, RestoreSettings
  PROVE  Kept
<1>1. /\ IsNext("restore") /\ StepDone("restore") /\ desired' = mem.backup.value
      /\ mem' = [mem EXCEPT !.backup.phase = "running"] /\ disk' = mem'
      /\ UNCHANGED <<script, rt, renewer, held, abort, split, untold, lost, faults>>
  BY DEF RestoreSettings
<1>2. /\ GoesOn
      /\ thread'.todo = thread.todo \ {"restore"} /\ thread'.errors = thread.errors
  BY <1>1, GoOn
<1>3. mem'.backup.phase = "running" /\ mem'.backup.value = mem.backup.value
  BY <1>1, BackupEdit DEF ScenarioInv
<1>4. ~Running' /\ ~Starting' /\ thread'.at # "idle"
  BY <1>2 DEF GoesOn, Running, Starting, Stepping, Engine
<1>5. Restoring' /\ RestoreSaved'
  BY <1>1, <1>3, <1>4 DEF Restoring, RestoreSaved, Settled
<1>6. "chain" \in thread.todo => "chain" \in thread'.todo
  BY <1>2
<1> QED
  BY <1>1, <1>2, <1>5, <1>6, BackupStep DEF NoFault

\* What was restored is recorded.
LEMMA RecordStep ==
  ASSUME ScenarioInv, RecordRestored
  PROVE  Kept
<1>1. /\ IsNext("record") /\ mem' = [mem EXCEPT !.backup.phase = "restored"]
      /\ \/ disk' = mem' /\ StepDone("record") /\ NoFault
         \/ /\ disk' = disk /\ Fault
            /\ thread' = IF thread.at = "cleanup"
                         THEN [thread EXCEPT !.errors = TRUE, !.todo = {}]
                         ELSE Recovering(mem')
      /\ UNCHANGED <<script, rt, renewer, held, abort, split, untold, lost, desired>>
  BY DEF RecordRestored
<1>2. /\ TypeOK /\ thread \in Threads /\ thread.at \in {"cleanup", "recover"}
      /\ thread.op \in 1 .. Len(Program(script.steps[thread.step]))
      /\ mem.active
  BY <1>1, RunningFacts DEF ScenarioInv, TypeOK, IsNext, Ops, StepType
<1>3. mem'.backup.phase = "restored" /\ mem'.backup.value = mem.backup.value
  BY <1>1, <1>2, BackupEdit
<1>4. "restore" \notin thread.todo /\ "chain" \notin thread.todo /\ "record" \in thread.todo
  BY <1>1 DEF IsNext, StepRank
<1>5. /\ GoesOn
      /\ "restore" \notin thread'.todo /\ "record" \notin thread'.todo
  <2>1. CASE StepDone("record")
    BY <1>1, <1>4, <2>1, GoOn
  <2>2. CASE thread' = [thread EXCEPT !.errors = TRUE, !.todo = {}] /\ thread.at = "cleanup"
    <3>1. /\ thread' \in Threads /\ thread'.at = thread.at /\ thread'.op = thread.op
          /\ thread'.step = thread.step /\ thread'.todo = {}
      BY <1>2, <2>2 DEF Threads
    <3> QED
      BY <1>2, <3>1 DEF GoesOn
  <2>3. CASE thread' = Recovering(mem') /\ thread.at = "recover"
    <3>1. /\ thread' \in Threads /\ thread'.at = "recover" /\ thread'.op = 1
          /\ thread'.step = 1 /\ thread'.todo = RecoverySteps(mem')
      BY <1>2, <2>3, NoThreadFacts
    <3>2. "restore" \notin thread'.todo /\ "record" \notin thread'.todo
      BY <1>3, <3>1, RecoveryFacts
    <3> QED
      BY <1>2, <2>3, <3>1, <3>2, FirstStep DEF GoesOn
  <2> QED
    BY <1>1, <1>2, <2>1, <2>2, <2>3
<1>6. ~Running' /\ ~Starting' /\ thread'.at # "idle"
  BY <1>5 DEF GoesOn, Running, Starting, Stepping, Engine
<1>7. ASSUME script.restore PROVE Restoring' /\ RestoreSaved'
  <2>1. Settled(mem) /\ RestoreSaved
    BY <1>2, <1>4, <1>7 DEF ScenarioInv, Restoring
  <2>2. Settled(mem)' /\ (disk' = disk /\ Settled(disk) => Settled(disk)')
        /\ (disk' = mem' => Settled(disk)')
    BY <1>1, <1>3, <2>1 DEF Settled
  <2>3. Restoring'
    BY <1>3, <1>5, <1>6, <2>2 DEF Restoring
  <2>4. RestoreSaved'
    BY <1>1, <1>3, <1>6, <2>1, <2>2 DEF RestoreSaved
  <2> QED
    BY <2>3, <2>4
<1> QED
  BY <1>1, <1>4, <1>5, <1>7, BackupStep

(***************************************************************************)
(* The theorems.                                                           *)
(***************************************************************************)
\* Before the job is submitted.
LEMMA InitInv ==
  ASSUME Init
  PROVE  ScenarioInv
<1>1. /\ NoThread.at = "idle" /\ NoThread.step = 1 /\ NoThread.op = 1 /\ thread = NoThread
      /\ NoThread.todo = {} /\ NoThread.acquired = {} /\ NoThread.failed = FALSE
      /\ NoThread.hold = "look" /\ NoThread.outcome = "ok" /\ NoThread.errors = FALSE
  BY DEF NoThread, Init
<1>2. script \in Scripts /\ Len(script.steps) \in Nat /\ Len(script.steps) > 0
      /\ script.steps \in Seq(StepTypes)
  BY ScenarioConstants DEF Init
<1>3. 1 \in 1 .. Len(script.steps)
  BY <1>2
<1>4. script.steps[1] \in StepTypes
  BY <1>2, <1>3
<1>5. 1 \in 1 .. Len(Program(script.steps[1]))
  BY <1>4, ProgramFacts
<1>6. thread \in Threads
  BY <1>3 DEF Init, NoThread, Threads
<1>7. NoJob \in Records
  BY DEF NoJob, NoBackup, Records, Terminal
<1>8. NoRuntime \in Runtimes /\ \A c \in Components : NoRuntime[c] <= NoRuntime.seq
  BY DEF NoRuntime, Runtimes, Components, Workers
<1>9. faults \in 0 .. MaxFaults
  BY ScenarioConstants DEF Init
<1>10. TypeOK
  BY <1>1, <1>2, <1>5, <1>6, <1>7, <1>8, <1>9 DEF Init, TypeOK, Ops, StepType
<1>11. ~Engine /\ ~Starting /\ ~Stepping /\ ~Running
       /\ ~Op("settle") /\ ~Op("mutate") /\ ~Op("reach")
  BY <1>1 DEF Engine, Starting, Stepping, Running, Op
<1>12. ~NoJob.active /\ NoJob.state = "none"
       /\ \A k \in 1 .. Len(script.steps) : NoJob.checkpoints[k] = "pending"
  BY DEF NoJob
<1>13. FailedLate /\ Paused /\ SplitPlace /\ SplitHeld /\ Leased /\ Telling
  BY <1>1, <1>11 DEF Init, FailedLate, Paused, SplitPlace, SplitHeld, Leased, Telling
<1>14. Admitted
  BY <1>1, <1>11 DEF Init, Admitted
<1>15. Restoring /\ RestoreSaved
  BY <1>12 DEF Init, Restoring, RestoreSaved
<1>16. Decided
  BY <1>12 DEF Init, Decided
<1> QED
  BY <1>10, <1>13, <1>14, <1>15, <1>16 DEF ScenarioInv, Guarded

\* Every step keeps the invariant and the two promises about steps.
LEMMA NextKept ==
  ASSUME ScenarioInv, Next
  PROVE  Kept
<1>1. CASE Execute
  <2>1. CASE Begin \/ StartRenewer
    BY <2>1, BeginStep
  <2>2. CASE Bootstrap \/ Boundary \/ Summary \/ StopRenewer
    BY <2>2, BootstrapStep, BoundaryStep, StopStep
  <2>3. CASE \/ Wait \/ Assert \/ Mine \/ SpamBurst \/ WaitHeight \/ FaucetPreflight
             \/ Transfer \/ WaitFaucetConfirmation \/ PrepareBursts
    BY <2>3, QuietStep
  <2>4. CASE \E c \in Components : Take(c)
    BY <2>4, TakeWorkerStep, TakeNetworkStep DEF Components
  <2>5. CASE \E w \in Workers : Free(w)
    BY <2>5, FreeStep
  <2>6. CASE \/ Apply \/ MarkPaused \/ PrepareReorg \/ MutateReorg \/ SettleReorg
             \/ MarkReorgSafe \/ SplitNetwork \/ ConvergePartition
    BY <2>6, ApplyStep, MarkStep, PrepareStep, MutateStep, SettleStep, SafeStep, SplitStep,
       ConvergeStep
  <2>7. CASE HealNetwork \/ Forget
    BY <2>7, HealStep
  <2>8. CASE Reach \/ Look \/ TimeOut
    BY <2>8, ReachStep, LookStep, TimeOutStep
  <2>9. CASE Sleep
    BY <2>9, BesideStep
  <2> QED
    BY <1>1, <2>1, <2>2, <2>3, <2>4, <2>5, <2>6, <2>7, <2>8, <2>9 DEF Execute
<1>2. CASE Clean
  <2>1. CASE CleanNetwork \/ CleanConverge \/ RecoverReorg \/ VerifyReleased
    BY <2>1, NodesStep
  <2>2. CASE \E w \in Workers : RecoveryLease(w) \/ ReleaseWorker(w)
    BY <2>2, RecoveryLeaseStep, ReleaseWorkerStep
  <2>3. CASE RestoreSettings \/ RecordRestored \/ FinishCleanup \/ RecoveryComplete
    BY <2>3, RestoreStep, RecordStep, FinishCleanupStep, RecoveredStep
  <2> QED
    BY <1>2, <2>1, <2>2, <2>3 DEF Clean
<1>3. CASE Fail
  BY <1>3, BeginStep, PanicStep, BesideStep, CallFailsStep DEF Fail
<1>4. CASE CopyHandles \/ Renew \/ BranchesRace \/ Configure
  BY <1>4, BesideStep
<1>5. CASE StartScenario \/ AbortJob \/ Restart
  BY <1>5, StartStep, AbortStep, RestartStep
<1>6. CASE \E k \in 1 .. Len(script.steps) : ReleaseCheckpoint(k)
  BY <1>6, ReleaseStep
<1> QED
  BY <1>1, <1>2, <1>3, <1>4, <1>5, <1>6 DEF Next

\* Nothing happens.
LEMMA StutterKept ==
  ASSUME ScenarioInv, UNCHANGED vars
  PROVE  Kept
<1>1. UNCHANGED <<script, mem, disk, thread, rt, renewer, held, abort, split, untold, lost,
                  desired, faults>>
  BY DEF vars
<1>2. RestTyped /\ Stays
  BY <1>1, StayFacts DEF ScenarioInv, RestTyped, TypeOK
<1>3. Decided' /\ FinalKept
  BY <1>1, <1>2, StayPlace, DecidedKept
<1> QED
  BY <1>1, <1>2, <1>3, StayKept

\* Everything that is used below: what a thread at some place of its job may
\* rely on, in memory, in the file and with the workers (jobs.rs, the executor
\* of a scenario, its cleanup and the recovery loop).
THEOREM ScenarioInvHolds == Spec => []ScenarioInv
<1>1. Init => ScenarioInv
  BY InitInv
<1>2. ScenarioInv /\ [Next]_vars => ScenarioInv'
  BY NextKept, StutterKept DEF Kept
<1> QED
  BY <1>1, <1>2, PTL DEF Spec

\* The pause of one step outlasts the steps after it, both workers are held
\* while a reorg or a partition has set the nodes apart, and spam is told of
\* every change of the chain before it resumes: for every script, and wherever
\* it fails, panics or is interrupted (ensure_*_lease, release_component and
\* the recovery of a reorg in jobs.rs).
THEOREM WorkersOfAScenario == Spec => []ScenarioInvariant
<1>1. ASSUME ScenarioInv PROVE ScenarioInvariant
  <2>1. ASSUME NEW w \in Workers, Holds(w) PROVE OfComponent(w) # {}
    <3>1. Lease(w, rt[w]) \in held /\ Lease(w, rt[w]).c = w
      BY <2>1 DEF Holds, Lease
    <3> QED
      BY <3>1 DEF OfComponent
  <2>2. TypeOK
    BY <1>1 DEF ScenarioInv
  <2>3. PauseHolds
    <3>1. SUFFICES ASSUME Engine, PausedByScript, ~lost PROVE OfComponent("mining") # {}
      BY DEF PauseHolds
    <3>2. rt.paused
      BY <1>1, <3>1 DEF ScenarioInv, Paused
    <3>3. StepType # "resume_mining"
      <4>1. thread.step \in 1 .. Len(script.steps) /\ Len(script.steps) \in Nat
        BY <2>2, ThreadFacts, ScriptFacts
      <4>2. ASSUME NEW i \in 1 .. (thread.step - 1) PROVE thread.step \in (i + 1) .. thread.step
        BY <4>1
      <4> QED
        BY <3>1, <4>2 DEF PausedByScript, StepType
    <3>4. Holds("mining")
      BY <1>1, <3>1, <3>2, <3>3 DEF ScenarioInv, Guarded, Leased
    <3> QED
      BY <2>1, <3>4 DEF Workers
  <2>4. WorkersHeldWhileSplit
    <3>1. CASE split = "reorg"
      BY <1>1, <3>1, ReorgHeld DEF WorkersHeldWhileSplit
    <3>2. CASE split = "partition" /\ (Engine \/ thread.at = "stop") /\ ~lost
      <4>1. \A w \in Workers : Holds(w)
        BY <1>1, <3>2 DEF ScenarioInv, Guarded, SplitHeld, Stepping
      <4> QED
        BY <2>1, <4>1 DEF WorkersHeldWhileSplit
    <3> QED
      BY <3>1, <3>2 DEF WorkersHeldWhileSplit
  <2>5. SpamToldOfChange
    BY <1>1 DEF ScenarioInv, Guarded, Telling, SpamToldOfChange
  <2> QED
    BY <2>2, <2>3, <2>4, <2>5 DEF ScenarioInvariant
<1> QED
  BY <1>1, ScenarioInvHolds, PTL

\* A scenario leaves its lane only with the settings it found: whatever its
\* steps have applied, and however often the restoration or its record fails
\* (restore_scenario_settings, finish_job and the recovery loop).
THEOREM SettingsAreRestored == Spec => SettingsRestored
<1>1. ASSUME ScenarioInv, [Next]_vars
      PROVE  [mem.active /\ ~mem'.active /\ script.restore
                => desired' \in {mem.backup.value, "operator"}]_vars
  BY <1>1, NextKept, StutterKept DEF Kept, Restored
<1> QED
  BY <1>1, ScenarioInvHolds, PTL DEF Spec, SettingsRestored

\* A checkpoint's outcome in the file is final, and the script goes on past it
\* only when it was released or the job is aborted (reach_scenario_checkpoint
\* and release_checkpoint, with the wait of one under the lock of the other).
THEOREM CheckpointsGate == Spec => CheckpointGate
<1>1. ASSUME ScenarioInv, [Next]_vars
      PROVE  [/\ \A k \in 1..Len(script.steps) :
                   disk.checkpoints[k] \in {"released", "timed_out"}
                     => disk'.checkpoints[k] = disk.checkpoints[k]
              /\ Op("hold") /\ thread'.at = "boundary" /\ ~thread'.failed
                   => Checkpoint = "released" \/ abort]_vars
  BY <1>1, NextKept, StutterKept DEF Kept, FinalKept, Gate
<1> QED
  BY <1>1, ScenarioInvHolds, PTL DEF Spec, CheckpointGate
=============================================================================
