-------------------------- MODULE JobManagerProofs --------------------------
(***************************************************************************)
(* Theorems about the job manager, for every set of jobs, nodes and        *)
(* requests, every length of the history and every number of faults.       *)
(***************************************************************************)
EXTENDS JobManager, TLAPS

(***************************************************************************)
(* The inductive invariant.  All of it but the lanes is about one job at a *)
(* time: what the two tables know of it, and how far its thread is.  The   *)
(* parts take the values they are about as arguments: j the job, t its     *)
(* thread, H the components that hold a lease for it, U the unsettled jobs *)
(* and L those that lost a lease.                                          *)
(***************************************************************************)
Holds(j) == {c \in Components : j \in held[c]}

Live == {"starting", "running", "abort_requested"}

Executing ==
  {"new", "intend", "call", "answer", "granted", "execute", "mutating", "cleanup"}

\* Beside degradations, each in the lane of its node, runs a mine job.
Lanes(m) ==
  /\ m.lane # None => m.job[m.lane].kind # "degrade"
  /\ \A n \in Nodes : m.degraded[n] # None =>
       m.job[m.degraded[n]].kind = "degrade" /\ m.job[m.degraded[n]].node = n
  /\ m.lane # None /\ (\E n \in Nodes : m.degraded[n] # None) =>
       m.job[m.lane].kind = "mine"

\* A job in a lane records only leases it may take, and a reorg is presumed
\* to have changed the chain.
Sound(rec) ==
  /\ rec.kind \in Kinds /\ rec.node \in Nodes
  /\ rec.state \notin {"none", "trimmed"}
  /\ rec.intents \subseteq Workers \cup {rec.node}
  /\ rec.kind = "reorg" => rec.context # "none"

\* What the recovery of an unsettled job goes by.
Traced(rec) ==
  CASE rec.kind = "partition" -> rec.node \in rec.intents
    [] rec.kind = "rewind" -> rec.context = "known"
    [] OTHER -> rec.kind = "reorg" /\ rec.context # "none"

\* Table m, in memory or in the file, knows what job j has out there.
Knows(j, t, m, H, U) ==
  /\ j \in Active(m) => Sound(m.job[j])
  /\ t.at # "idle" \/ H # {} \/ j \in U => j \in Active(m)
  /\ H \subseteq m.job[j].intents
  /\ j \in U => Traced(m.job[j])
  /\ t.at \in {"call", "answer"} =>
       Plan(m.job[j].kind, m.job[j].node).leases[t.i] \in m.job[j].intents

\* Table d, the file, is an earlier version of table m.
Saved(j, m, d) ==
  /\ j \in Active(m) /\ j \in Active(d) =>
       m.job[j].kind = d.job[j].kind /\ m.job[j].node = d.job[j].node
  /\ d.job[j].state \in Terminal => m.job[j].state \in {d.job[j].state, "trimmed"}

\* The leases an executor was granted, and those it may hold.
GrantedTo(t, rec) == {Plan(rec.kind, rec.node).leases[k] : k \in 1 .. (t.i - 1)}

Taken(t, rec) ==
  GrantedTo(t, rec)
    \cup (IF t.at = "answer" THEN {Plan(rec.kind, rec.node).leases[t.i]} ELSE {})

\* How far an executor is with its leases.
Leasing(j, t, rec, H, U, L) ==
  LET leases == Plan(rec.kind, rec.node).leases
  IN /\ t.at \in {"intend", "call", "answer"} => t.i \in 1 .. Len(leases)
     /\ t.at = "granted" => t.i \in 2 .. (Len(leases) + 1)
     /\ t.at \in {"execute", "mutating"} => t.i = Len(leases) + 1
     /\ t.at \in {"intend", "call", "answer", "granted", "execute", "mutating"} =>
          /\ H \subseteq Taken(t, rec)
          /\ j \in L \/ Taken(t, rec) \cap Workers \subseteq H
     /\ t.at \in {"intend", "call", "answer", "granted", "execute"} /\ j \in U =>
          rec.kind = "partition" /\ rec.node \in Taken(t, rec)

\* What a cleanup without errors and a recovery still have to do.
Cleaning(j, t, rec, H, U) ==
  /\ t.at = "cleanup" /\ rec.kind \in {"reorg", "rewind"} => j \notin U
  /\ t.at = "cleanup" /\ ~t.errors =>
       /\ H \cap Workers \subseteq t.todo
       /\ H \cap Nodes # {} => "network" \in t.todo
       /\ j \in U => "heal" \in t.todo
  /\ t.at = "recover" =>
       /\ H \cap Nodes # {} => "network" \in t.todo
       /\ j \in U => IF rec.kind = "partition" THEN "heal" \in t.todo
                                               ELSE "chain" \in t.todo

\* A thread executes a job that has not ended; without one nothing is held.
Runs(j, t, rec, H, U, L) ==
  /\ t.at \in Executing => rec.state \in Live
  /\ t.at \in {"idle", "new"} => H = {} /\ j \notin U /\ t.i = 1
  /\ Leasing(j, t, rec, H, U, L)
  /\ Cleaning(j, t, rec, H, U)
  /\ j \in U \ L /\ rec.kind \in {"reorg", "rewind"} => Workers \subseteq H

Own(j) ==
  /\ Knows(j, thread[j], mem, Holds(j), unsettled)
  /\ Knows(j, thread[j], disk, Holds(j), unsettled)
  /\ Saved(j, mem, disk)
  /\ Runs(j, thread[j], mem.job[j], Holds(j), unsettled, lost)

JobInv == TypeOK /\ Lanes(mem) /\ Lanes(disk) /\ \A j \in Jobs : Own(j)

(***************************************************************************)
(* What one step of job j may do.                                          *)
(***************************************************************************)
\* An ended job stays as it ended, until it leaves the table.
Final(rec, next) ==
  rec.state \in Terminal \cup {"trimmed"} => next.state \in {rec.state, "trimmed"}

\* Only job j is touched; another one may leave the table.
Others(j) ==
  \A k \in Jobs \ {j} :
    /\ thread'[k] = thread[k] /\ Holds(k)' = Holds(k)
    /\ k \in unsettled' <=> k \in unsettled
    /\ k \in lost => k \in lost'
    /\ k \in Active(mem') <=> k \in Active(mem)
    /\ \/ mem'.job[k] = mem.job[k]
       \/ /\ k \notin Active(mem) /\ mem.job[k].state \in Terminal
          /\ mem'.job[k] = [NoJob EXCEPT !.state = "trimmed"]

\* The tables after the step, and job j in them.
StepOK(j) ==
  /\ thread' \in [Jobs -> Threads]
  /\ Others(j)
  /\ mem' \in Tables /\ Lanes(mem')
  /\ disk' = disk \/ disk' = mem'
  /\ Final(mem.job[j], mem'.job[j])
  /\ Knows(j, thread'[j], mem', Holds(j)', unsettled')
  /\ disk' = disk => Knows(j, thread'[j], disk, Holds(j)', unsettled')
  /\ disk' = disk => Saved(j, mem', disk)
  /\ Runs(j, thread'[j], mem'.job[j], Holds(j)', unsettled', lost')

(***************************************************************************)
(* Lemmas about plans, job tables and the parts of the invariant.          *)
(***************************************************************************)
USE DEF Workers, Components

\* What the kinds of job lease: one to three leases, of the workers or of the
\* job's node; the kinds that can leave the nodes apart take both workers.
LEMMA PlanFacts ==
  ASSUME NEW kind \in Kinds, NEW n \in Nodes
  PROVE  LET p == Plan(kind, n)
         IN /\ Len(p.leases) \in 1 .. 3
            /\ \A k \in 1 .. Len(p.leases) : p.leases[k] \in Workers \cup {n}
            /\ kind \in {"reorg", "rewind"} =>
                 /\ Len(p.leases) = 2
                 /\ p.leases[1] = "spam" /\ p.leases[2] = "mining"
            /\ kind = "partition" =>
                 /\ Len(p.leases) = 3 /\ p.leases[1] = "spam"
                 /\ p.leases[2] = "mining" /\ p.leases[3] = n
            /\ p.mutates => kind \in {"reorg", "rewind", "partition"}
            /\ kind \in {"reorg", "rewind", "partition"} => p.mutates
<1>1. CASE kind = "reorg"
  BY <1>1 DEF Plan, ReorgJob
<1>2. CASE kind = "rewind"
  BY <1>2 DEF Plan, RewindJob
<1>3. CASE kind = "mine"
  BY <1>3 DEF Plan, MineJob
<1>4. CASE kind = "spam_burst"
  BY <1>4 DEF Plan, SpamBurstJob
<1>5. CASE kind = "spam_prepare"
  BY <1>5 DEF Plan, SpamPrepareJob
<1>6. CASE kind = "partition"
  BY <1>6 DEF Plan, PartitionJob
<1>7. CASE kind = "degrade"
  BY <1>7 DEF Plan, DegradeJob
<1> QED
  BY <1>1, <1>2, <1>3, <1>4, <1>5, <1>6, <1>7 DEF Kinds

\* A table in which one job's record was changed, but not its kind or node.
Edit(m, p, j) ==
  /\ p \in Tables /\ p.lane = m.lane /\ p.degraded = m.degraded
  /\ \A k \in Jobs \ {j} : p.job[k] = m.job[k]
  /\ p.job[j].kind = m.job[j].kind /\ p.job[j].node = m.job[j].node

\* The lanes do not see such a change.
LEMMA EditFacts ==
  ASSUME NEW m \in Tables, NEW p, NEW j \in Jobs, Edit(m, p, j), Lanes(m)
  PROVE  Lanes(p) /\ Active(p) = Active(m)
<1>1. Active(p) = Active(m)
  BY DEF Edit, Active
<1>2. \A k \in Jobs : p.job[k].kind = m.job[k].kind /\ p.job[k].node = m.job[k].node
  BY DEF Edit
<1>3. /\ m.lane # None => m.lane \in Jobs
      /\ \A n \in Nodes : m.degraded[n] # None => m.degraded[n] \in Jobs
  BY DEF Tables
<1> QED
  BY <1>1, <1>2, <1>3 DEF Edit, Lanes

\* A job leaves its lane, and nothing else changes.
LEMMA ClearFacts ==
  ASSUME NEW m \in Tables, NEW j \in Jobs, Lanes(m)
  PROVE  LET p == ClearActiveLane(m, j)
         IN /\ p \in Tables /\ Lanes(p) /\ p.job = m.job
            /\ j \notin Active(p)
            /\ \A k \in Jobs \ {j} : k \in Active(p) <=> k \in Active(m)
<1> DEFINE p == ClearActiveLane(m, j)
<1>1. /\ m.lane \in Jobs \cup {None} /\ m.degraded \in [Nodes -> Jobs \cup {None}]
      /\ m.job \in [Jobs -> JobRecords] /\ None \notin Jobs
  BY JobConstants DEF Tables
<1>2. /\ p.lane = (IF m.lane = j THEN None ELSE m.lane)
      /\ p.degraded = [n \in Nodes |-> IF m.degraded[n] = j THEN None ELSE m.degraded[n]]
      /\ p.job = m.job
  BY DEF Tables, ClearActiveLane
<1>3. p \in Tables
  BY JobConstants DEF Tables, ClearActiveLane
<1> HIDE DEF p
<1>4. Lanes(p)
  BY <1>1, <1>2 DEF Lanes
<1>5. /\ j \notin Active(p)
      /\ \A k \in Jobs \ {j} : k \in Active(p) <=> k \in Active(m)
  BY <1>1, <1>2 DEF Active
<1> QED
  BY <1>2, <1>3, <1>4, <1>5 DEF p

\* A table that knows a job knows it when the job has less out there.
LEMMA KnowsLess ==
  ASSUME NEW j, NEW t, NEW m, NEW H, NEW U, Knows(j, t, m, H, U),
         NEW t2, NEW H2, NEW U2,
         H2 \subseteq H, j \in U2 => j \in U,
         t2.at # "idle" => t.at # "idle", t2.at \notin {"call", "answer"}
  PROVE  Knows(j, t2, m, H2, U2)
  BY DEF Knows

\* It knows it as well when the record says more.
LEMMA KnowsMore ==
  ASSUME NEW j, NEW t, NEW m, NEW p, NEW H, NEW U, Knows(j, t, m, H, U),
         j \in Active(p) => j \in Active(m),
         t.at # "idle" \/ H # {} \/ j \in U => j \in Active(p),
         p.job[j].kind = m.job[j].kind, p.job[j].node = m.job[j].node,
         p.job[j].state \notin {"none", "trimmed"},
         m.job[j].intents \subseteq p.job[j].intents,
         p.job[j].intents \subseteq m.job[j].intents \cup Workers \cup {m.job[j].node},
         m.job[j].context # "none" => p.job[j].context # "none",
         m.job[j].context = "known" => p.job[j].context = "known"
  PROVE  Knows(j, t, p, H, U)
<1>1. Sound(m.job[j]) => Sound(p.job[j])
  BY DEF Sound
<1>2. Traced(m.job[j]) => Traced(p.job[j])
  BY DEF Traced
<1> QED
  BY <1>1, <1>2 DEF Knows

\* The file stays an earlier version of the memory.
LEMMA SavedKept ==
  ASSUME NEW j, NEW m, NEW d, NEW p, Saved(j, m, d),
         j \in Active(p) => j \in Active(m),
         p.job[j].kind = m.job[j].kind, p.job[j].node = m.job[j].node,
         Final(m.job[j], p.job[j])
  PROVE  Saved(j, p, d)
  BY DEF Saved, Final, Terminal

\* The record counts for a thread by kind, node and state only.
LEMMA RunsEdit ==
  ASSUME NEW j, NEW t, NEW rec, NEW next, NEW H, NEW U, NEW L,
         Runs(j, t, rec, H, U, L),
         next.kind = rec.kind, next.node = rec.node,
         rec.state \in Live => next.state \in Live
  PROVE  Runs(j, t, next, H, U, L)
  BY DEF Runs, Leasing, Cleaning, Taken, GrantedTo

\* A thread that does nothing.
LEMMA IdleFacts ==
  Idle \in Threads /\ Idle.at = "idle" /\ Idle.i = 1
<1>1. /\ FALSE \in BOOLEAN /\ 1 \in 1 .. 4 /\ {} \subseteq Steps
  OBVIOUS
<1> QED
  BY <1>1 DEF Idle, Threads

\* A recovery that starts has all of its steps before it.
LEMMA RecoveryStarts ==
  ASSUME NEW m, NEW j, NEW H, NEW U, NEW L,
         j \in U => Traced(m.job[j]),
         j \in U \ L /\ m.job[j].kind \in {"reorg", "rewind"} => Workers \subseteq H
  PROVE  /\ Recovering(m, j) \in Threads /\ Recovering(m, j).at = "recover"
         /\ Runs(j, Recovering(m, j), m.job[j], H, U, L)
<1> DEFINE t == Recovering(m, j)
<1>1. /\ t.at = "recover" /\ t.i = 1 /\ t.todo = RecoverySteps(m, j)
      /\ t.outcome = "ok" /\ t.errors = FALSE
  BY DEF Recovering, Idle
<1>2. RecoverySteps(m, j) \subseteq Steps
  BY DEF RecoverySteps, Steps, StepRank
<1>3. t \in Threads
  BY <1>2, IdleFacts DEF Threads, Recovering
<1>4. /\ "network" \in RecoverySteps(m, j)
      /\ j \in U => IF m.job[j].kind = "partition" THEN "heal" \in RecoverySteps(m, j)
                                                   ELSE "chain" \in RecoverySteps(m, j)
  BY DEF RecoverySteps, Traced
<1> HIDE DEF t
<1>5. Runs(j, t, m.job[j], H, U, L)
  BY <1>1, <1>4 DEF Runs, Leasing, Cleaning, Executing
<1> QED
  BY <1>1, <1>3, <1>5 DEF t

(***************************************************************************)
(* Lemmas about the steps of a job.                                        *)
(***************************************************************************)
\* The invariant about one job, from what a step of another one leaves alone,
\* and about the job itself from StepOK.
LEMMA StepKeeps ==
  ASSUME JobInv, NEW j \in Jobs, StepOK(j)
  PROVE  /\ disk' \in Tables /\ Lanes(mem)' /\ Lanes(disk)'
         /\ \A k \in Jobs : Own(k)'
<1>1. disk' \in Tables /\ Lanes(mem') /\ Lanes(disk')
  BY DEF JobInv, TypeOK, StepOK
<1>2. Own(j)'
  <2>1. CASE disk' = disk
    BY <2>1 DEF StepOK, Own
  <2>2. CASE disk' = mem'
    <3>1. Saved(j, mem', mem')
      BY DEF Saved
    <3> QED
      BY <2>2, <3>1 DEF StepOK, Own
  <2> QED
    BY <2>1, <2>2 DEF StepOK
<1>3. ASSUME NEW k \in Jobs \ {j}
      PROVE  Own(k)'
  <2>1. /\ thread'[k] = thread[k] /\ Holds(k)' = Holds(k)
        /\ k \in unsettled' <=> k \in unsettled
        /\ k \in lost => k \in lost'
        /\ k \in Active(mem') <=> k \in Active(mem)
    BY DEF StepOK, Others
  <2>2. Own(k)
    BY DEF JobInv
  <2>3. Knows(k, thread'[k], disk, Holds(k)', unsettled')
    BY <2>1, <2>2 DEF Own, Knows
  <2>4. CASE mem'.job[k] = mem.job[k]
    <3>1. Knows(k, thread'[k], mem', Holds(k)', unsettled')
      BY <2>1, <2>2, <2>4 DEF Own, Knows
    <3>2. Runs(k, thread'[k], mem'.job[k], Holds(k)', unsettled', lost')
      BY <2>1, <2>2, <2>4 DEF Own, Runs, Leasing, Cleaning
    <3>3. Saved(k, mem', disk) /\ Saved(k, mem', mem')
      BY <2>1, <2>2, <2>4 DEF Own, Saved
    <3>4. disk' = disk \/ disk' = mem'
      BY DEF StepOK
    <3>5. CASE disk' = disk
      BY <2>3, <3>1, <3>2, <3>3, <3>5 DEF Own
    <3>6. CASE disk' = mem'
      BY <3>1, <3>2, <3>3, <3>6 DEF Own
    <3> QED
      BY <3>4, <3>5, <3>6
  <2>5. CASE /\ k \notin Active(mem) /\ mem.job[k].state \in Terminal
             /\ mem'.job[k] = [NoJob EXCEPT !.state = "trimmed"]
    <3>1. thread[k].at = "idle" /\ Holds(k) = {} /\ k \notin unsettled /\ thread[k].i = 1
      BY <2>2, <2>5 DEF Own, Knows, Runs
    <3>2. mem'.job[k].state = "trimmed"
      BY <2>5 DEF NoJob
    <3>3. Knows(k, thread'[k], mem', Holds(k)', unsettled')
      BY <2>1, <2>5, <3>1 DEF Knows
    <3>4. Runs(k, thread'[k], mem'.job[k], Holds(k)', unsettled', lost')
      BY <2>1, <3>1 DEF Runs, Leasing, Cleaning, Executing
    <3>5. Saved(k, mem', disk) /\ Saved(k, mem', mem')
      BY <2>1, <2>2, <2>5, <3>2 DEF Own, Saved
    <3>6. disk' = disk \/ disk' = mem'
      BY DEF StepOK
    <3>7. CASE disk' = disk
      BY <2>3, <3>3, <3>4, <3>5, <3>7 DEF Own
    <3>8. CASE disk' = mem'
      BY <3>3, <3>4, <3>5, <3>8 DEF Own
    <3> QED
      BY <3>6, <3>7, <3>8
  <2> QED
    BY <2>4, <2>5 DEF StepOK, Others
<1>4. Lanes(mem)' /\ Lanes(disk)'
  BY <1>1 DEF Lanes
<1> QED
  BY <1>1, <1>2, <1>3, <1>4

\* A thread steps, and no other one does.
LEMMA ThreadEdit ==
  ASSUME thread \in [Jobs -> Threads], NEW j \in Jobs, NEW t \in Threads,
         thread' = [thread EXCEPT ![j] = t]
  PROVE  /\ thread' \in [Jobs -> Threads] /\ thread'[j] = t
         /\ \A k \in Jobs \ {j} : thread'[k] = thread[k]
  OBVIOUS

\* A thread that goes on to another place.
LEMMA GoToFacts ==
  ASSUME thread \in [Jobs -> Threads], NEW j \in Jobs,
         NEW a \in {"new", "intend", "call", "answer", "granted", "execute", "mutating"},
         GoTo(j, a)
  PROVE  /\ thread' \in [Jobs -> Threads]
         /\ thread'[j].at = a /\ thread'[j].i = thread[j].i
         /\ \A k \in Jobs \ {j} : thread'[k] = thread[k]
  BY DEF GoTo, Threads

\* A step that leaves the tables alone, while the job has no more out there.
LEMMA QuietStep ==
  ASSUME JobInv, NEW j \in Jobs, UNCHANGED <<mem, disk>>,
         thread' \in [Jobs -> Threads],
         \A k \in Jobs \ {j} : /\ thread'[k] = thread[k] /\ Holds(k)' = Holds(k)
                               /\ k \in unsettled' <=> k \in unsettled
                               /\ k \in lost => k \in lost',
         Holds(j)' \subseteq Holds(j), j \in unsettled' => j \in unsettled,
         thread'[j].at # "idle" => thread[j].at # "idle",
         thread'[j].at \notin {"call", "answer"} \/ thread'[j] = thread[j],
         Runs(j, thread'[j], mem.job[j], Holds(j)', unsettled', lost')
  PROVE  StepOK(j)
<1>1. Own(j) /\ mem \in Tables /\ Lanes(mem)
  BY DEF JobInv, TypeOK
<1>2. /\ Knows(j, thread'[j], mem, Holds(j)', unsettled')
      /\ Knows(j, thread'[j], disk, Holds(j)', unsettled')
  BY <1>1 DEF Own, Knows
<1>3. Final(mem.job[j], mem.job[j])
  BY DEF Final
<1>4. Others(j)
  BY DEF Others
<1> QED
  BY <1>1, <1>2, <1>3, <1>4 DEF StepOK, Own

\* A step that changes the job's record.
LEMMA EditStep ==
  ASSUME JobInv, NEW j \in Jobs, Edit(mem, mem', j), disk' = disk \/ disk' = mem',
         Final(mem.job[j], mem'.job[j]),
         thread' \in [Jobs -> Threads],
         \A k \in Jobs \ {j} : /\ thread'[k] = thread[k] /\ Holds(k)' = Holds(k)
                               /\ k \in unsettled' <=> k \in unsettled
                               /\ k \in lost => k \in lost',
         Knows(j, thread'[j], mem', Holds(j)', unsettled'),
         disk' = disk => Knows(j, thread'[j], disk, Holds(j)', unsettled'),
         Runs(j, thread'[j], mem'.job[j], Holds(j)', unsettled', lost')
  PROVE  StepOK(j)
<1>1. mem \in Tables /\ Lanes(mem) /\ Saved(j, mem, disk)
  BY DEF JobInv, TypeOK, Own
<1>2. Lanes(mem') /\ Active(mem') = Active(mem)
  BY <1>1, EditFacts
<1>3. Saved(j, mem', disk)
  <2>1. mem'.job[j].kind = mem.job[j].kind /\ mem'.job[j].node = mem.job[j].node
    BY DEF Edit
  <2> QED
    BY <1>1, <1>2, <2>1, SavedKept
<1>4. Others(j)
  BY <1>2 DEF Others, Edit
<1>5. mem' \in Tables
  BY DEF Edit
<1> QED
  BY <1>2, <1>3, <1>4, <1>5 DEF StepOK

\* A job that has nothing left out there leaves its lane and its thread ends.
LEMMA FreeStep ==
  ASSUME JobInv, NEW j \in Jobs, NEW done, Edit(mem, done, j),
         Final(mem.job[j], done.job[j]),
         mem' = ClearActiveLane(done, j), disk' = disk \/ disk' = mem',
         thread' = [thread EXCEPT ![j] = Idle],
         UNCHANGED <<held, unsettled, lost>>, Holds(j) = {}, j \notin unsettled
  PROVE  StepOK(j)
<1>1. mem \in Tables /\ Lanes(mem) /\ Own(j) /\ thread \in [Jobs -> Threads]
  BY DEF JobInv, TypeOK
<1>2. done \in Tables /\ Lanes(done) /\ Active(done) = Active(mem)
  BY <1>1, EditFacts DEF Edit
<1>3. /\ mem' \in Tables /\ Lanes(mem') /\ mem'.job = done.job
      /\ j \notin Active(mem')
      /\ \A k \in Jobs \ {j} : k \in Active(mem') <=> k \in Active(done)
  BY <1>2, ClearFacts
<1>4. /\ thread' \in [Jobs -> Threads] /\ thread'[j] = Idle
      /\ \A k \in Jobs \ {j} : thread'[k] = thread[k]
  BY <1>1, IdleFacts, ThreadEdit
<1>5. \A k \in Jobs : Holds(k)' = Holds(k)
  BY DEF Holds
<1>6. Others(j)
  BY <1>2, <1>3, <1>4, <1>5 DEF Others, Edit
<1>7. Saved(j, mem', disk)
  BY <1>1, <1>3, SavedKept DEF Own, Edit
<1>8. Knows(j, thread'[j], mem', Holds(j)', unsettled')
  BY <1>3, <1>4, <1>5, IdleFacts DEF Knows
<1>9. Knows(j, thread'[j], disk, Holds(j)', unsettled')
  BY <1>1, <1>4, <1>5, IdleFacts DEF Own, Knows
<1>10. Runs(j, thread'[j], mem'.job[j], Holds(j)', unsettled', lost')
  BY <1>4, <1>5, IdleFacts DEF Runs, Leasing, Cleaning, Executing
<1> QED
  BY <1>3, <1>4, <1>6, <1>7, <1>8, <1>9, <1>10 DEF StepOK, Edit

\* A component grants a lease to a job, or drops it.
LEMMA GrantFacts ==
  ASSUME held \in [Components -> SUBSET Jobs], NEW j \in Jobs, NEW c \in Components,
         held' = [held EXCEPT ![c] = @ \cup {j}]
  PROVE  /\ Holds(j)' = Holds(j) \cup {c}
         /\ \A k \in Jobs \ {j} : Holds(k)' = Holds(k)
  BY DEF Holds

\* Releasing a lease touches one component and one job.
LEMMA DropFacts ==
  ASSUME held \in [Components -> SUBSET Jobs], NEW j \in Jobs, NEW c \in Components,
         held' = [held EXCEPT ![c] = @ \ {j}]
  PROVE  /\ Holds(j)' = Holds(j) \ {c}
         /\ \A k \in Jobs \ {j} : Holds(k)' = Holds(k)
  BY DEF Holds

\* What is known of a job that has a thread.
LEMMA ThreadFacts ==
  ASSUME JobInv, NEW j \in Jobs, ~At(j, "idle")
  PROVE  /\ j \in Active(mem) /\ j \in Active(disk)
         /\ Sound(mem.job[j]) /\ Sound(disk.job[j])
         /\ mem.job[j].kind = disk.job[j].kind /\ mem.job[j].node = disk.job[j].node
         /\ Holds(j) \subseteq Workers \cup {Node(j)}
         /\ Holds(j) \subseteq mem.job[j].intents
         /\ Kind(j) \in Kinds /\ Node(j) \in Nodes
         /\ thread[j] \in Threads /\ mem.job[j] \in JobRecords
<1>1. Own(j) /\ TypeOK
  BY DEF JobInv
<1>2. j \in Active(mem) /\ j \in Active(disk)
  BY <1>1 DEF Own, Knows, At
<1> QED
  BY <1>1, <1>2 DEF Own, Knows, Saved, Sound, Kind, Node, TypeOK, Tables

\* A cleanup that starts on all leases the job may hold has them all to do.
LEMMA CleanupStarts ==
  ASSUME JobInv, NEW j \in Jobs, ~At(j, "idle"), NEW leases,
         NEW outcome \in {"ok", "error", "unstarted", "aborted"},
         StartCleanup(j, leases, outcome),
         Holds(j) \subseteq leases,
         NEW U, j \in U => Kind(j) = "partition" /\ Node(j) \in leases,
         NEW rec, rec.kind = Kind(j), rec.node = Node(j), rec.state \in Live
  PROVE  /\ thread' \in [Jobs -> Threads] /\ thread'[j].at = "cleanup"
         /\ \A k \in Jobs \ {j} : thread'[k] = thread[k]
         /\ Runs(j, thread'[j], rec, Holds(j), U, lost)
<1> DEFINE todo == CleanupSteps(j, leases)
           t == [thread[j] EXCEPT !.at = "cleanup", !.todo = todo,
                                  !.outcome = outcome, !.errors = FALSE]
<1>1. thread \in [Jobs -> Threads] /\ thread[j] \in Threads
  BY DEF JobInv, TypeOK
<1>2. todo \subseteq Steps
  BY DEF CleanupSteps, Steps, StepRank
<1>3. /\ Holds(j) \cap Workers \subseteq todo
      /\ Holds(j) \cap Nodes # {} => "network" \in todo
      /\ j \in U => "heal" \in todo
  <2>1. Holds(j) \subseteq Workers \cup {Node(j)} /\ Nodes \cap Workers = {}
    BY ThreadFacts, JobConstants
  <2>2. Holds(j) \cap Nodes \subseteq {Node(j)}
    BY <2>1
  <2> QED
    BY <2>2 DEF CleanupSteps
<1> HIDE DEF todo
<1>4. t \in Threads /\ t.at = "cleanup" /\ t.todo = todo /\ t.errors = FALSE
  BY <1>1, <1>2 DEF Threads
<1>5. thread' = [thread EXCEPT ![j] = t]
  BY DEF StartCleanup, todo
<1> HIDE DEF t
<1>6. /\ thread' \in [Jobs -> Threads] /\ thread'[j] = t
      /\ \A k \in Jobs \ {j} : thread'[k] = thread[k]
  BY <1>1, <1>4, <1>5, ThreadEdit
<1>7. Leasing(j, t, rec, Holds(j), U, lost)
  BY <1>4 DEF Leasing
<1>8. Cleaning(j, t, rec, Holds(j), U)
  BY <1>3, <1>4 DEF Cleaning
<1> QED
  BY <1>4, <1>6, <1>7, <1>8 DEF Runs, Executing

\* An executor that ends with its cleanup before it.
LEMMA CleanupStep ==
  ASSUME JobInv, NEW j \in Jobs, thread[j].at \in Executing \ {"new"}, NEW leases,
         NEW outcome \in {"ok", "error", "unstarted", "aborted"},
         StartCleanup(j, leases, outcome), Holds(j) \subseteq leases,
         unsettled' = unsettled \/ unsettled' = unsettled \ {j},
         j \in unsettled' => Kind(j) = "partition" /\ Node(j) \in leases,
         UNCHANGED <<mem, disk, held, lost>>
  PROVE  StepOK(j)
<1>1. ~At(j, "idle")
  BY DEF At, Executing
<1>2. mem.job[j].state \in Live
  BY DEF JobInv, Own, Runs
<1>3. /\ thread' \in [Jobs -> Threads] /\ thread'[j].at = "cleanup"
      /\ \A k \in Jobs \ {j} : thread'[k] = thread[k]
      /\ Runs(j, thread'[j], mem.job[j], Holds(j), unsettled', lost)
  BY <1>1, <1>2, CleanupStarts DEF Kind, Node
<1>4. \A k \in Jobs : Holds(k)' = Holds(k)
  BY DEF Holds
<1> QED
  BY <1>1, <1>3, <1>4, QuietStep DEF At

\* What an executor has, by how far it is.
LEMMA ExecutorFacts ==
  ASSUME JobInv, NEW j \in Jobs,
         thread[j].at \in {"intend", "call", "answer", "granted", "execute", "mutating"}
  PROVE  /\ ~At(j, "idle") /\ thread[j].at \in Executing \ {"new"}
         /\ mem.job[j].state \in Live
         /\ GrantedTo(thread[j], mem.job[j]) = Granted(j)
         /\ thread[j].at # "answer" => Holds(j) \subseteq Granted(j)
         /\ j \in lost \/ Granted(j) \cap Workers \subseteq Holds(j)
         /\ Holds(j) \subseteq mem.job[j].intents
         /\ thread[j].at # "mutating" /\ j \in unsettled =>
              /\ Kind(j) = "partition" /\ Node(j) \in mem.job[j].intents
              /\ thread[j].at # "answer" => Node(j) \in Granted(j)
         /\ thread[j].at \in {"execute", "mutating"} /\ Kind(j) = "partition" =>
              Node(j) \in Granted(j)
         /\ thread[j].at \in {"execute", "mutating"} /\ Kind(j) \in {"reorg", "rewind"} =>
              Workers \subseteq Granted(j)
<1> DEFINE t == thread[j]
           rec == mem.job[j]
<1>1. Own(j) /\ ~At(j, "idle") /\ t.at \in Executing \ {"new"}
  BY DEF JobInv, At, Executing
<1>2. GrantedTo(t, rec) = Granted(j)
  BY DEF GrantedTo, Granted, PlanOf, Kind, Node
<1>3. /\ Granted(j) \subseteq Taken(t, rec)
      /\ t.at # "answer" => Taken(t, rec) = Granted(j)
  BY <1>2 DEF Taken
<1>4. Leasing(j, t, rec, Holds(j), unsettled, lost)
  BY <1>1 DEF Own, Runs
<1>5. /\ t.at # "answer" => Holds(j) \subseteq Granted(j)
      /\ j \in lost \/ Granted(j) \cap Workers \subseteq Holds(j)
      /\ t.at # "mutating" /\ j \in unsettled =>
           rec.kind = "partition" /\ rec.node \in Taken(t, rec)
  BY <1>3, <1>4 DEF Leasing
<1>6. /\ Holds(j) \subseteq rec.intents /\ rec.state \in Live
      /\ j \in unsettled /\ rec.kind = "partition" => rec.node \in rec.intents
  BY <1>1 DEF Own, Knows, Runs, Traced
<1>7. rec.kind \in Kinds /\ rec.node \in Nodes
  BY <1>1, ThreadFacts DEF Kind, Node
<1>8. CASE t.at \in {"execute", "mutating"}
  <2> DEFINE leases == Plan(rec.kind, rec.node).leases
  <2>1. t.i = Len(leases) + 1
    BY <1>4, <1>8 DEF Leasing
  <2>2. Granted(j) = {leases[k] : k \in 1 .. (t.i - 1)}
    BY <1>2 DEF GrantedTo
  <2>3. rec.kind = "partition" => Len(leases) = 3 /\ leases[3] = rec.node
    BY <1>7, PlanFacts
  <2>4. rec.kind \in {"reorg", "rewind"} =>
          Len(leases) = 2 /\ leases[1] = "spam" /\ leases[2] = "mining"
    BY <1>7, PlanFacts
  <2> HIDE DEF leases
  <2>5. ASSUME rec.kind = "partition" PROVE rec.node \in Granted(j)
    <3>0. Len(leases) = 3
      BY <2>3, <2>5
    <3>1. t.i - 1 = 3
      BY <2>1, <3>0
    <3>2. leases[3] \in Granted(j)
      <4>1. Granted(j) = {leases[k] : k \in 1 .. 3}
        BY <2>2, <3>1
      <4> QED
        BY <4>1
    <3> QED
      BY <2>3, <2>5, <3>2
  <2>6. rec.kind \in {"reorg", "rewind"} => Workers \subseteq Granted(j)
    BY <2>1, <2>2, <2>4
  <2> QED
    BY <1>1, <1>2, <1>3, <1>5, <1>6, <2>5, <2>6 DEF Kind, Node
<1>9. CASE t.at \notin {"execute", "mutating"}
  BY <1>1, <1>2, <1>3, <1>5, <1>6, <1>9 DEF Kind, Node
<1> QED
  BY <1>8, <1>9

\* The steps that end an execution, or give it up.
LEMMA EndSteps ==
  ASSUME JobInv, NEW j \in Jobs,
         \/ ValidationFails(j) \/ AcquireFails(j) \/ RenewerFails(j)
         \/ ExecutionEnds(j) \/ ExecutionFails(j)
  PROVE  StepOK(j)
<1>1. CASE ValidationFails(j) \/ AcquireFails(j) \/ RenewerFails(j)
  <2>1. /\ thread[j].at \in {"intend", "call", "answer", "execute"}
        /\ StartCleanup(j, mem.job[j].intents, "unstarted")
        /\ UNCHANGED <<mem, disk, held, lost>> /\ unsettled' = unsettled
    BY <1>1 DEF ValidationFails, AcquireFails, RenewerFails, FailBeforeMutation, At
  <2>2. thread[j].at \in Executing \ {"new"} /\ Holds(j) \subseteq mem.job[j].intents
    BY <2>1, ExecutorFacts
  <2>3. j \in unsettled' => Kind(j) = "partition" /\ Node(j) \in mem.job[j].intents
    BY <2>1, ExecutorFacts
  <2> QED
    BY <2>1, <2>2, <2>3, CleanupStep
<1>2. CASE ExecutionEnds(j) \/ ExecutionFails(j)
  <2>1. thread[j].at \in {"execute", "mutating"}
    BY <1>2 DEF ExecutionEnds, ExecutionFails, At
  <2>2. PICK outcome \in {"ok", "error", "unstarted", "aborted"} :
          StartCleanup(j, Granted(j), outcome)
    BY <1>2 DEF ExecutionEnds, ExecutionFails
  <2>3. /\ UNCHANGED <<mem, disk, held, lost>>
        /\ unsettled' = unsettled \/ unsettled' = unsettled \ {j}
        /\ j \in unsettled' => Kind(j) = "partition"
    BY <1>2 DEF ExecutionEnds, ExecutionFails
  <2>4. /\ thread[j].at \in Executing \ {"new"} /\ Holds(j) \subseteq Granted(j)
        /\ Kind(j) = "partition" => Node(j) \in Granted(j)
    BY <2>1, ExecutorFacts
  <2> QED
    BY <2>2, <2>3, <2>4, CleanupStep
<1> QED
  BY <1>1, <1>2

\* A granted lease is followed by the cleanup, the next lease or the execution.
LEMMA ProceedStep ==
  ASSUME JobInv, NEW j \in Jobs, Proceed(j)
  PROVE  StepOK(j)
<1> DEFINE t == thread[j]
           rec == mem.job[j]
           leases == Plan(rec.kind, rec.node).leases
<1>1. /\ t.at = "granted" /\ UNCHANGED <<mem, disk, held, unsettled, lost>>
      /\ thread \in [Jobs -> Threads] /\ Runs(j, t, rec, Holds(j), unsettled, lost)
  BY DEF Proceed, At, JobInv, TypeOK, Own
<1>2. /\ t.at \in Executing \ {"new"} /\ Holds(j) \subseteq Granted(j)
      /\ j \in unsettled => Kind(j) = "partition" /\ Node(j) \in Granted(j)
  BY <1>1, ExecutorFacts
<1>3. CASE StartCleanup(j, Granted(j), "aborted")
  BY <1>1, <1>2, <1>3, CleanupStep
<1>4. CASE GoTo(j, IF t.i <= Len(leases) THEN "intend" ELSE "execute")
  <2> DEFINE a == IF t.i <= Len(leases) THEN "intend" ELSE "execute"
  <2>1. /\ thread' \in [Jobs -> Threads] /\ thread'[j].at = a /\ thread'[j].i = t.i
        /\ \A k \in Jobs \ {j} : thread'[k] = thread[k]
    BY <1>1, <1>4, GoToFacts
  <2>2. /\ t.i \in 2 .. (Len(leases) + 1) /\ Len(leases) \in 1 .. 3
        /\ a \in {"intend", "execute"}
    BY <1>1, ThreadFacts, PlanFacts DEF Runs, Leasing, At, Kind, Node
  <2>3. a = "intend" => t.i \in 1 .. Len(leases)
    BY <2>2
  <2>4. a = "execute" => t.i = Len(leases) + 1
    BY <2>2
  <2>5. Taken(thread'[j], rec) = Taken(t, rec)
    BY <1>1, <2>1, <2>2 DEF Taken, GrantedTo
  <2>6. Runs(j, thread'[j], rec, Holds(j), unsettled, lost)
    <3> HIDE DEF leases, a
    <3>1. Leasing(j, thread'[j], rec, Holds(j), unsettled, lost)
      BY <1>1, <2>1, <2>2, <2>3, <2>4, <2>5 DEF Runs, Leasing, leases
    <3> QED
      BY <1>1, <2>1, <2>2, <3>1 DEF Runs, Cleaning, Executing
  <2>7. \A k \in Jobs : Holds(k)' = Holds(k)
    BY <1>1 DEF Holds
  <2> QED
    BY <1>1, <2>1, <2>2, <2>6, <2>7, QuietStep
<1> QED
  BY <1>3, <1>4 DEF Proceed, PlanOf, Kind, Node

\* The answer to an acquire counts the lease as granted.
LEMMA AnsweredStep ==
  ASSUME JobInv, NEW j \in Jobs, AcquireAnswered(j)
  PROVE  StepOK(j)
<1> DEFINE t == thread[j]
           rec == mem.job[j]
           leases == Plan(rec.kind, rec.node).leases
           t2 == [t EXCEPT !.at = "granted", !.i = t.i + 1]
<1>1. /\ t.at = "answer" /\ UNCHANGED <<mem, disk, held, unsettled, lost>>
      /\ thread' = [thread EXCEPT ![j].at = "granted", ![j].i = @ + 1]
      /\ thread \in [Jobs -> Threads] /\ Runs(j, t, rec, Holds(j), unsettled, lost)
  BY DEF AcquireAnswered, At, JobInv, TypeOK, Own
<1>2. t.i \in 1 .. Len(leases) /\ Len(leases) \in 1 .. 3
  BY <1>1, ThreadFacts, PlanFacts DEF Runs, Leasing, At, Kind, Node
<1>3. t.i \in 1 .. 3
  <2>1. ASSUME NEW n \in 1 .. 3, t.i \in 1 .. n PROVE t.i \in 1 .. 3
    BY <2>1
  <2> QED
    BY <1>2, <2>1
<1> HIDE DEF leases
<1>4. t2 \in Threads /\ t2.at = "granted" /\ t2.i = t.i + 1
  BY <1>1, <1>3 DEF Threads
<1>5. thread' = [thread EXCEPT ![j] = t2]
  BY <1>1
<1> HIDE DEF t2
<1>6. /\ thread' \in [Jobs -> Threads] /\ thread'[j] = t2
      /\ \A k \in Jobs \ {j} : thread'[k] = thread[k]
  BY <1>1, <1>4, <1>5, ThreadEdit
<1>7. Taken(t2, rec) = Taken(t, rec)
  <2>1. 1 .. (t2.i - 1) = 1 .. (t.i - 1) \cup {t.i}
    BY <1>3, <1>4
  <2>2. Taken(t2, rec) = {leases[k] : k \in 1 .. (t2.i - 1)}
    BY <1>4 DEF Taken, GrantedTo, leases
  <2>3. Taken(t, rec) = {leases[k] : k \in 1 .. (t.i - 1)} \cup {leases[t.i]}
    BY <1>1 DEF Taken, GrantedTo, leases
  <2> QED
    BY <2>1, <2>2, <2>3
<1>8. Runs(j, t2, rec, Holds(j), unsettled, lost)
  <2>1. t2.i \in 2 .. (Len(leases) + 1)
    BY <1>2, <1>4
  <2>2. Leasing(j, t2, rec, Holds(j), unsettled, lost)
    BY <1>1, <1>4, <1>7, <2>1 DEF Runs, Leasing, leases
  <2> QED
    BY <1>1, <1>4, <2>2 DEF Runs, Cleaning, Executing
<1>9. \A k \in Jobs : Holds(k)' = Holds(k)
  BY <1>1 DEF Holds
<1> QED
  BY <1>1, <1>4, <1>6, <1>8, <1>9, QuietStep

\* A granted lease is one both tables have; a partition that cuts its node
\* off has the network lease in them.
LEMMA AcquireStep ==
  ASSUME JobInv, NEW j \in Jobs, AcquireTakesEffect(j)
  PROVE  StepOK(j)
<1> DEFINE t == thread[j]
           rec == mem.job[j]
           leases == Plan(rec.kind, rec.node).leases
           c == leases[t.i]
<1>1. /\ t.at = "call" /\ UNCHANGED <<mem, disk, lost>>
      /\ thread \in [Jobs -> Threads] /\ held \in [Components -> SUBSET Jobs]
      /\ Own(j) /\ GoTo(j, "answer") /\ mem \in Tables /\ Lanes(mem)
  BY DEF AcquireTakesEffect, At, JobInv, TypeOK
<1>2. c = LeaseOf(j)
  BY DEF LeaseOf, PlanOf, Kind, Node
<1>3. /\ held' = [held EXCEPT ![c] = @ \cup {j}]
      /\ unsettled' = IF c \in Nodes /\ Plan(rec.kind, rec.node).mutates
                      THEN unsettled \cup {j} ELSE unsettled
  BY <1>2 DEF AcquireTakesEffect, PlanOf, Kind, Node
<1>4. /\ rec.kind = disk.job[j].kind /\ rec.node = disk.job[j].node
      /\ rec.kind \in Kinds /\ rec.node \in Nodes
      /\ j \in Active(mem) /\ j \in Active(disk)
      /\ Nodes \cap Workers = {}
  BY <1>1, ThreadFacts, JobConstants DEF At, Kind, Node
<1>5. /\ t.i \in 1 .. Len(leases) /\ Len(leases) \in 1 .. 3 /\ c \in Workers \cup {rec.node}
      /\ Plan(rec.kind, rec.node).mutates /\ c \in Nodes =>
           rec.kind = "partition" /\ c = rec.node
  <2>1. t.i \in 1 .. Len(leases)
    BY <1>1 DEF Own, Runs, Leasing
  <2>2. /\ Len(leases) \in 1 .. 3
        /\ \A k \in 1 .. Len(leases) : leases[k] \in Workers \cup {rec.node}
        /\ rec.kind \in {"reorg", "rewind"} =>
             Len(leases) = 2 /\ leases[1] = "spam" /\ leases[2] = "mining"
        /\ Plan(rec.kind, rec.node).mutates => rec.kind \in {"reorg", "rewind", "partition"}
    BY <1>4, PlanFacts
  <2> HIDE DEF leases
  <2>3. c \in Workers \cup {rec.node}
    BY <2>1, <2>2
  <2>4. ASSUME rec.kind \in {"reorg", "rewind"} PROVE c \in Workers
    <3>1. t.i \in {1, 2}
      BY <2>1, <2>2, <2>4
    <3> QED
      BY <2>2, <2>4, <3>1
  <2> QED
    BY <1>4, <2>1, <2>2, <2>3, <2>4
<1>6. c \in mem.job[j].intents /\ c \in disk.job[j].intents
  BY <1>1, <1>4 DEF Own, Knows
<1> HIDE DEF c, leases
<1>7. /\ thread' \in [Jobs -> Threads] /\ thread'[j].at = "answer" /\ thread'[j].i = t.i
      /\ \A k \in Jobs \ {j} : thread'[k] = thread[k]
  BY <1>1, GoToFacts
<1>8. /\ Holds(j)' = Holds(j) \cup {c}
      /\ \A k \in Jobs \ {j} : Holds(k)' = Holds(k)
  <2>1. c \in Components
    BY <1>4, <1>5
  <2> QED
    BY <1>1, <1>3, <2>1, GrantFacts
<1>9. /\ \A k \in Jobs \ {j} : k \in unsettled' <=> k \in unsettled
      /\ j \in unsettled' => j \in unsettled \/ (rec.kind = "partition" /\ c = rec.node)
  BY <1>3, <1>5
<1>10. ASSUME NEW m, m = mem \/ m = disk
       PROVE  Knows(j, thread'[j], m, Holds(j)', unsettled')
  <2>1. /\ Knows(j, t, m, Holds(j), unsettled) /\ c \in m.job[j].intents
        /\ m.job[j].kind = rec.kind /\ m.job[j].node = rec.node /\ j \in Active(m)
    BY <1>1, <1>4, <1>6, <1>10 DEF Own
  <2>2. j \in unsettled' => Traced(m.job[j])
    BY <1>9, <2>1 DEF Knows, Traced
  <2>3. Plan(m.job[j].kind, m.job[j].node).leases[thread'[j].i] \in m.job[j].intents
    BY <1>7, <2>1 DEF c, leases
  <2> QED
    BY <1>7, <1>8, <2>1, <2>2, <2>3 DEF Knows
<1>11. Runs(j, thread'[j], rec, Holds(j)', unsettled', lost)
  <2>1. Taken(thread'[j], rec) = Taken(t, rec) \cup {c}
    BY <1>1, <1>7 DEF Taken, GrantedTo, c, leases
  <2>2. Leasing(j, t, rec, Holds(j), unsettled, lost)
    BY <1>1 DEF Own, Runs
  <2>3. Leasing(j, thread'[j], rec, Holds(j)', unsettled', lost)
    <3>1. /\ Holds(j) \subseteq Taken(t, rec)
          /\ j \in lost \/ Taken(t, rec) \cap Workers \subseteq Holds(j)
          /\ j \in unsettled => rec.kind = "partition" /\ rec.node \in Taken(t, rec)
      BY <1>1, <2>2 DEF Leasing
    <3>2. /\ Holds(j)' \subseteq Taken(thread'[j], rec)
          /\ j \in lost \/ Taken(thread'[j], rec) \cap Workers \subseteq Holds(j)'
          /\ j \in unsettled' => rec.kind = "partition" /\ rec.node \in Taken(thread'[j], rec)
      BY <1>8, <1>9, <2>1, <3>1
    <3> QED
      BY <1>5, <1>7, <3>2 DEF Leasing, leases
  <2>4. j \in unsettled' => rec.kind = "partition"
    BY <1>1, <1>9, <2>2 DEF Leasing
  <2>5. rec.state \in Live
    BY <1>1 DEF Own, Runs, Executing
  <2> QED
    BY <1>7, <2>3, <2>4, <2>5 DEF Runs, Cleaning
<1>12. Others(j)
  BY <1>1, <1>7, <1>8, <1>9 DEF Others
<1>13. Final(rec, rec) /\ Saved(j, mem, disk)
  BY <1>1 DEF Final, Own
<1> QED
  BY <1>1, <1>7, <1>10, <1>11, <1>12, <1>13 DEF StepOK

\* A new record for a job, of the same kind and node.
LEMMA RecordEdit ==
  ASSUME NEW m \in Tables, NEW j \in Jobs, NEW rec \in JobRecords,
         rec.kind = m.job[j].kind, rec.node = m.job[j].node
  PROVE  LET p == [m EXCEPT !.job[j] = rec]
         IN Edit(m, p, j) /\ p.job[j] = rec
  BY DEF Tables, Edit

\* A change of the state of a job.
LEMMA StateEdit ==
  ASSUME NEW m \in Tables, NEW j \in Jobs, NEW s \in JobStates
  PROVE  LET p == [m EXCEPT !.job[j].state = s]
         IN Edit(m, p, j) /\ p.job[j] = [m.job[j] EXCEPT !.state = s]
<1> DEFINE rec == [m.job[j] EXCEPT !.state = s]
<1>1. m.job \in [Jobs -> JobRecords] /\ m.job[j] \in JobRecords
  BY DEF Tables
<1>2. rec \in JobRecords /\ rec.kind = m.job[j].kind /\ rec.node = m.job[j].node
  BY <1>1 DEF JobRecords
<1>3. [m EXCEPT !.job[j].state = s] = [m EXCEPT !.job[j] = rec]
  OBVIOUS
<1> HIDE DEF rec
<1>4. Edit(m, [m EXCEPT !.job[j] = rec], j) /\ [m EXCEPT !.job[j] = rec].job[j] = rec
  BY <1>2, RecordEdit
<1> QED
  BY <1>3, <1>4 DEF rec

\* Recording how far the cleanup is.
LEMMA CleanupEdit ==
  ASSUME NEW m \in Tables, NEW j \in Jobs,
         NEW c \in {"pending", "running", "succeeded", "failed"}
  PROVE  LET p == [m EXCEPT !.job[j].cleanup = c]
         IN Edit(m, p, j) /\ p.job[j] = [m.job[j] EXCEPT !.cleanup = c]
<1> DEFINE rec == [m.job[j] EXCEPT !.cleanup = c]
<1>1. m.job \in [Jobs -> JobRecords] /\ m.job[j] \in JobRecords
  BY DEF Tables
<1>2. rec \in JobRecords /\ rec.kind = m.job[j].kind /\ rec.node = m.job[j].node
  BY <1>1 DEF JobRecords
<1>3. [m EXCEPT !.job[j].cleanup = c] = [m EXCEPT !.job[j] = rec]
  OBVIOUS
<1> HIDE DEF rec
<1>4. Edit(m, [m EXCEPT !.job[j] = rec], j) /\ [m EXCEPT !.job[j] = rec].job[j] = rec
  BY <1>2, RecordEdit
<1> QED
  BY <1>3, <1>4 DEF rec

\* Recording the end of a job, which keeps what its recovery needs.
LEMMA EndEdit ==
  ASSUME NEW m \in Tables, NEW j \in Jobs, NEW s \in JobStates,
         NEW c \in {"pending", "running", "succeeded", "failed"}
  PROVE  LET p == [m EXCEPT !.job[j] = [@ EXCEPT !.state = s, !.cleanup = c]]
         IN /\ Edit(m, p, j) /\ p.job[j].state = s
            /\ p.job[j].intents = m.job[j].intents /\ p.job[j].context = m.job[j].context
<1> DEFINE rec == [m.job[j] EXCEPT !.state = s, !.cleanup = c]
<1>1. m.job[j] \in JobRecords
  BY DEF Tables
<1>2. /\ rec \in JobRecords /\ rec.kind = m.job[j].kind /\ rec.node = m.job[j].node
      /\ rec.state = s /\ rec.intents = m.job[j].intents /\ rec.context = m.job[j].context
  BY <1>1 DEF JobRecords
<1> HIDE DEF rec
<1>3. Edit(m, [m EXCEPT !.job[j] = rec], j) /\ [m EXCEPT !.job[j] = rec].job[j] = rec
  BY <1>2, RecordEdit
<1> QED
  BY <1>2, <1>3 DEF rec

\* The intent to take a lease.
LEMMA IntentEdit ==
  ASSUME NEW m \in Tables, NEW j \in Jobs, NEW c \in Components
  PROVE  LET p == [m EXCEPT !.job[j].intents = @ \cup {c}]
         IN Edit(m, p, j) /\ p.job[j] = [m.job[j] EXCEPT !.intents = @ \cup {c}]
<1> DEFINE rec == [m.job[j] EXCEPT !.intents = @ \cup {c}]
<1>1. m.job \in [Jobs -> JobRecords] /\ m.job[j] \in JobRecords
  BY DEF Tables
<1>2. rec \in JobRecords /\ rec.kind = m.job[j].kind /\ rec.node = m.job[j].node
  BY <1>1 DEF JobRecords
<1>3. [m EXCEPT !.job[j].intents = @ \cup {c}] = [m EXCEPT !.job[j] = rec]
  OBVIOUS
<1> HIDE DEF rec
<1>4. Edit(m, [m EXCEPT !.job[j] = rec], j) /\ [m EXCEPT !.job[j] = rec].job[j] = rec
  BY <1>2, RecordEdit
<1> QED
  BY <1>3, <1>4 DEF rec

\* The recovery context of a chain job.
LEMMA ContextEdit ==
  ASSUME NEW m \in Tables, NEW j \in Jobs
  PROVE  LET p == [m EXCEPT !.job[j].context = "known"]
         IN Edit(m, p, j) /\ p.job[j] = [m.job[j] EXCEPT !.context = "known"]
<1> DEFINE rec == [m.job[j] EXCEPT !.context = "known"]
<1>1. m.job \in [Jobs -> JobRecords] /\ m.job[j] \in JobRecords
  BY DEF Tables
<1>2. rec \in JobRecords /\ rec.kind = m.job[j].kind /\ rec.node = m.job[j].node
  BY <1>1 DEF JobRecords
<1>3. [m EXCEPT !.job[j].context = "known"] = [m EXCEPT !.job[j] = rec]
  OBVIOUS
<1> HIDE DEF rec
<1>4. Edit(m, [m EXCEPT !.job[j] = rec], j) /\ [m EXCEPT !.job[j] = rec].job[j] = rec
  BY <1>2, RecordEdit
<1> QED
  BY <1>3, <1>4 DEF rec

\* A partition gives its network lease back before it ends.
LEMMA HealPartitionStep ==
  ASSUME JobInv, NEW j \in Jobs, HealPartition(j)
  PROVE  StepOK(j)
<1> DEFINE t == thread[j]
           rec == mem.job[j]
<1>1. /\ t.at = "execute" /\ rec.kind = "partition" /\ GoTo(j, "mutating")
      /\ UNCHANGED <<mem, disk, unsettled, lost>>
      /\ held' = [held EXCEPT ![rec.node] = @ \ {j}]
      /\ thread \in [Jobs -> Threads] /\ held \in [Components -> SUBSET Jobs]
      /\ Runs(j, t, rec, Holds(j), unsettled, lost)
  BY DEF HealPartition, At, Kind, Node, JobInv, TypeOK, Own
<1>2. rec.node \in Nodes /\ Nodes \cap Workers = {}
  BY <1>1, ThreadFacts, JobConstants DEF At, Node
<1>3. /\ thread' \in [Jobs -> Threads] /\ thread'[j].at = "mutating" /\ thread'[j].i = t.i
      /\ \A k \in Jobs \ {j} : thread'[k] = thread[k]
  BY <1>1, GoToFacts
<1>4. /\ Holds(j)' = Holds(j) \ {rec.node}
      /\ \A k \in Jobs \ {j} : Holds(k)' = Holds(k)
  BY <1>1, <1>2, DropFacts
<1>5. Taken(thread'[j], rec) = Taken(t, rec)
  BY <1>1, <1>3 DEF Taken, GrantedTo
<1>6. Leasing(j, thread'[j], rec, Holds(j)', unsettled, lost)
  BY <1>1, <1>2, <1>3, <1>4, <1>5 DEF Runs, Leasing
<1>7. Runs(j, thread'[j], rec, Holds(j)', unsettled, lost)
  BY <1>1, <1>3, <1>6 DEF Runs, Cleaning, Executing
<1> QED
  BY <1>1, <1>3, <1>4, <1>7, QuietStep

\* A failed renewal only raises the flag.
LEMMA RenewalStep ==
  ASSUME JobInv, NEW j \in Jobs, RenewalFails(j)
  PROVE  StepOK(j)
<1>1. UNCHANGED <<mem, disk, thread, held, unsettled, lost>>
  BY DEF RenewalFails
<1>2. \A k \in Jobs : Holds(k)' = Holds(k)
  BY <1>1 DEF Holds
<1>3. /\ thread' \in [Jobs -> Threads]
      /\ Runs(j, thread'[j], mem.job[j], Holds(j)', unsettled', lost')
  BY <1>1, <1>2 DEF JobInv, TypeOK, Own
<1> QED
  BY <1>1, <1>2, <1>3, QuietStep

\* finish_job of a job that has nothing out there.
LEMMA FinishFrees ==
  ASSUME JobInv, NEW j \in Jobs, NEW s \in Terminal, mem.job[j].state \in Live,
         FinishJob(j, s, "succeeded"), Holds(j) = {}, j \notin unsettled,
         UNCHANGED <<held, unsettled, lost>>
  PROVE  StepOK(j)
<1> DEFINE done == [mem EXCEPT !.job[j] = [@ EXCEPT !.state = s, !.cleanup = "succeeded"]]
<1>1. mem \in Tables /\ s \in JobStates
  BY DEF JobInv, TypeOK, JobStates
<1>2. Edit(mem, done, j)
  BY <1>1, EndEdit
<1>3. Final(mem.job[j], done.job[j])
  BY DEF Final, Live, Terminal
<1>4. /\ mem' = ClearActiveLane(done, j) /\ (disk' = disk \/ disk' = mem')
      /\ thread' = [thread EXCEPT ![j] = Idle]
  BY DEF FinishJob, SaveBestEffort
<1> HIDE DEF done
<1> QED
  BY <1>2, <1>3, <1>4, FreeStep

\* finish_job of a job whose cleanup failed starts the recovery.
LEMMA FinishRecovers ==
  ASSUME JobInv, NEW j \in Jobs, NEW s \in Terminal, thread[j].at \in Executing,
         FinishJob(j, s, "failed"), UNCHANGED <<held, unsettled, lost>>
  PROVE  StepOK(j)
<1> DEFINE done == [mem EXCEPT !.job[j] = [@ EXCEPT !.state = s, !.cleanup = "failed"]]
           rec == mem.job[j]
<1>1. /\ mem \in Tables /\ s \in JobStates /\ thread \in [Jobs -> Threads]
      /\ Own(j) /\ rec \in JobRecords /\ thread[j].at # "idle" /\ rec.state \in Live
  BY DEF JobInv, TypeOK, JobStates, Tables, Executing, Own, Runs
<1>2. /\ Edit(mem, done, j) /\ done.job[j].state = s
      /\ done.job[j].intents = rec.intents /\ done.job[j].context = rec.context
  BY <1>1, EndEdit
<1>3. /\ mem' = done /\ (disk' = disk \/ disk' = mem')
      /\ thread' = [thread EXCEPT ![j] = Recovering(done, j)]
  BY DEF FinishJob, SaveBestEffort
<1> HIDE DEF done
<1>4. /\ done.job[j].kind = rec.kind /\ done.job[j].node = rec.node
      /\ Active(done) = Active(mem)
  BY <1>1, <1>2, EditFacts DEF JobInv, Edit
<1>5. /\ Runs(j, Recovering(done, j), done.job[j], Holds(j), unsettled, lost)
      /\ Recovering(done, j) \in Threads /\ Recovering(done, j).at = "recover"
  <2>1. j \in unsettled => Traced(done.job[j])
    BY <1>1, <1>2, <1>4 DEF Own, Knows, Traced
  <2>2. j \in unsettled \ lost /\ done.job[j].kind \in {"reorg", "rewind"} =>
          Workers \subseteq Holds(j)
    BY <1>1, <1>4 DEF Own, Runs
  <2> QED
    BY <2>1, <2>2, RecoveryStarts
<1>6. /\ thread' \in [Jobs -> Threads] /\ thread'[j] = Recovering(done, j)
      /\ \A k \in Jobs \ {j} : thread'[k] = thread[k]
  BY <1>1, <1>3, <1>5, ThreadEdit
<1>7. \A k \in Jobs : Holds(k)' = Holds(k)
  BY DEF Holds
<1>8. /\ Knows(j, thread'[j], mem, Holds(j)', unsettled')
      /\ Knows(j, thread'[j], disk, Holds(j)', unsettled')
  BY <1>1, <1>5, <1>6, <1>7, KnowsLess DEF Own
<1>9. Knows(j, thread'[j], mem', Holds(j)', unsettled')
  <2>1. s \notin {"none", "trimmed"}
    BY DEF Terminal
  <2>2. /\ mem'.job[j].kind = mem.job[j].kind /\ mem'.job[j].node = mem.job[j].node
        /\ mem'.job[j].state \notin {"none", "trimmed"}
        /\ mem.job[j].intents \subseteq mem'.job[j].intents
        /\ mem'.job[j].intents \subseteq mem.job[j].intents \cup Workers \cup {mem.job[j].node}
        /\ mem.job[j].context # "none" => mem'.job[j].context # "none"
        /\ mem.job[j].context = "known" => mem'.job[j].context = "known"
    BY <1>2, <1>3, <1>4, <2>1
  <2>3. /\ j \in Active(mem') => j \in Active(mem)
        /\ thread'[j].at # "idle" \/ Holds(j)' # {} \/ j \in unsettled' => j \in Active(mem')
    BY <1>3, <1>4, <1>8 DEF Knows
  <2> QED
    BY <1>8, <2>2, <2>3, KnowsMore
<1>10. Final(mem.job[j], mem'.job[j])
  BY <1>1 DEF Final, Live, Terminal
<1> QED
  BY <1>2, <1>3, <1>5, <1>6, <1>7, <1>8, <1>9, <1>10, EditStep

\* The table knows the job by a record that says more.
LEMMA KnowsEdit ==
  ASSUME NEW j \in Jobs, NEW t, NEW m \in Tables, NEW p, NEW H, NEW U,
         Knows(j, t, m, H, U), Edit(m, p, j), Lanes(m),
         p.job[j].state \notin {"none", "trimmed"},
         m.job[j].intents \subseteq p.job[j].intents,
         p.job[j].intents \subseteq m.job[j].intents \cup Workers \cup {m.job[j].node},
         m.job[j].context # "none" => p.job[j].context # "none",
         m.job[j].context = "known" => p.job[j].context = "known"
  PROVE  Knows(j, t, p, H, U)
<1>1. Active(p) = Active(m)
  BY EditFacts
<1>2. p.job[j].kind = m.job[j].kind /\ p.job[j].node = m.job[j].node
  BY DEF Edit
<1>3. t.at # "idle" \/ H # {} \/ j \in U => j \in Active(p)
  BY <1>1 DEF Knows
<1> QED
  BY <1>1, <1>2, <1>3, KnowsMore

\* How an execution ended decides an end state.
LEMMA FinalStateFacts ==
  ASSUME NEW kind, NEW outcome \in {"ok", "error", "unstarted", "aborted"}, NEW aborted
  PROVE  FinalState(kind, outcome, aborted) \in Terminal
  BY DEF FinalState, Terminal

\* The steps by which an executor's thread ends.
LEMMA FinishSteps ==
  ASSUME JobInv, NEW j \in Jobs,
         \/ FailBeforeThread(j) \/ HandleExecutorPanic(j) \/ FinishCleanup(j)
         \/ At(j, "new") /\ FinishJob(j, "aborted", "succeeded")
              /\ UNCHANGED <<held, unsettled, lost>>
  PROVE  StepOK(j)
<1>1. Own(j) /\ thread[j] \in Threads /\ held \in [Components -> SUBSET Jobs]
  BY DEF JobInv, TypeOK
<1>2. CASE \/ FailBeforeThread(j)
           \/ At(j, "new") /\ FinishJob(j, "aborted", "succeeded")
                /\ UNCHANGED <<held, unsettled, lost>>
  <2>1. PICK s \in Terminal : /\ At(j, "new") /\ FinishJob(j, s, "succeeded")
                              /\ UNCHANGED <<held, unsettled, lost>>
    BY <1>2 DEF FailBeforeThread, Terminal
  <2>2. Holds(j) = {} /\ j \notin unsettled /\ mem.job[j].state \in Live
    BY <1>1, <2>1 DEF Own, Runs, At, Executing
  <2> QED
    BY <2>1, <2>2, FinishFrees
<1>3. CASE HandleExecutorPanic(j)
  <2>1. thread[j].at \in Executing
    BY <1>1, <1>3 DEF HandleExecutorPanic, Threads, Executing
  <2>2. "failed" \in Terminal
    BY DEF Terminal
  <2> QED
    BY <1>3, <2>1, <2>2, FinishRecovers DEF HandleExecutorPanic
<1>4. CASE FinishCleanup(j)
  <2> DEFINE s == FinalState(Kind(j), thread[j].outcome, j \in abort)
  <2>1. s \in Terminal
    BY <1>1, FinalStateFacts DEF Threads
  <2>2. /\ thread[j].at = "cleanup" /\ thread[j].todo = {}
        /\ UNCHANGED <<held, unsettled, lost>>
        /\ FinishJob(j, s, IF thread[j].errors THEN "failed" ELSE "succeeded")
    BY <1>4 DEF FinishCleanup, At
  <2>3. mem.job[j].state \in Live /\ thread[j].at \in Executing
    BY <1>1, <2>2 DEF Own, Runs, Executing
  <2> HIDE DEF s
  <2>4. CASE thread[j].errors
    <3>1. FinishJob(j, s, "failed")
      BY <2>2, <2>4
    <3> QED
      BY <2>1, <2>2, <2>3, <3>1, FinishRecovers
  <2>5. CASE ~thread[j].errors
    <3>1. FinishJob(j, s, "succeeded")
      BY <2>2, <2>5
    <3>2. Holds(j) = {} /\ j \notin unsettled
      <4>1. Holds(j) \cap Workers = {} /\ Holds(j) \cap Nodes = {} /\ j \notin unsettled
        BY <1>1, <2>2, <2>5 DEF Own, Runs, Cleaning
      <4>2. Holds(j) \subseteq Components
        BY DEF Holds
      <4> QED
        BY <4>1, <4>2
    <3> QED
      BY <2>1, <2>2, <2>3, <3>1, <3>2, FinishFrees
  <2> QED
    BY <2>4, <2>5
<1> QED
  BY <1>2, <1>3, <1>4

\* A thread starts on its first lease.
LEMMA BeginStep ==
  ASSUME JobInv, NEW j \in Jobs, Begin(j)
  PROVE  StepOK(j)
<1> DEFINE t == thread[j]
           rec == mem.job[j]
           s == IF rec.state = "abort_requested" THEN rec.state ELSE "running"
           p == [mem EXCEPT !.job[j].state = s]
<1>1. At(j, "new") /\ UNCHANGED <<held, unsettled, lost>>
  BY DEF Begin
<1>2. CASE FinishJob(j, "aborted", "succeeded")
  BY <1>1, <1>2, FinishSteps
<1>3. CASE SaveBestEffort(p) /\ GoTo(j, "intend")
  <2>1. /\ Own(j) /\ mem \in Tables /\ Lanes(mem) /\ rec \in JobRecords
        /\ thread \in [Jobs -> Threads] /\ t.at = "new"
    BY <1>1 DEF JobInv, TypeOK, Tables, At
  <2>2. rec.state \in Live /\ Holds(j) = {} /\ j \notin unsettled /\ t.i = 1
    BY <2>1 DEF Own, Runs, Executing
  <2>3. s \in JobStates /\ s \in Live
    BY <2>2 DEF Live, JobStates
  <2>4. mem' = p /\ (disk' = disk \/ disk' = mem')
    BY <1>3 DEF SaveBestEffort
  <2> HIDE DEF s
  <2>5. Edit(mem, p, j) /\ p.job[j] = [rec EXCEPT !.state = s]
    BY <2>1, <2>3, StateEdit
  <2>6. /\ p.job[j].state = s /\ p.job[j].intents = rec.intents
        /\ p.job[j].context = rec.context
        /\ p.job[j].kind = rec.kind /\ p.job[j].node = rec.node
    BY <2>1, <2>5 DEF JobRecords
  <2> HIDE DEF p
  <2>7. /\ thread' \in [Jobs -> Threads] /\ thread'[j].at = "intend" /\ thread'[j].i = 1
        /\ \A k \in Jobs \ {j} : thread'[k] = thread[k]
    BY <1>3, <2>1, <2>2, GoToFacts
  <2>8. \A k \in Jobs : Holds(k)' = Holds(k)
    BY <1>1 DEF Holds
  <2>9. /\ Knows(j, thread'[j], mem, Holds(j)', unsettled')
        /\ Knows(j, thread'[j], disk, Holds(j)', unsettled')
    BY <1>1, <2>1, <2>7, <2>8, KnowsLess DEF Own
  <2>10. Knows(j, thread'[j], mem', Holds(j)', unsettled')
    <3>1. s \notin {"none", "trimmed"}
      BY <2>3 DEF Live
    <3> QED
      BY <2>1, <2>4, <2>5, <2>6, <2>9, <3>1, KnowsEdit
  <2>11. Final(mem.job[j], mem'.job[j])
    BY <2>2 DEF Final, Live, Terminal
  <2>12. Runs(j, thread'[j], p.job[j], Holds(j)', unsettled', lost')
    <3>1. Len(Plan(rec.kind, rec.node).leases) \in 1 .. 3
      BY <1>1, ThreadFacts, PlanFacts DEF At, Kind, Node
    <3>2. Taken(thread'[j], p.job[j]) = {}
      BY <2>7 DEF Taken, GrantedTo
    <3>3. Leasing(j, thread'[j], p.job[j], Holds(j)', unsettled', lost')
      <4>1. \A n \in 1 .. 3 : 1 \in 1 .. n
        OBVIOUS
      <4>2. thread'[j].i \in 1 .. Len(Plan(p.job[j].kind, p.job[j].node).leases)
        BY <2>6, <2>7, <3>1, <4>1
      <4> QED
        BY <1>1, <2>2, <2>7, <2>8, <3>2, <4>2 DEF Leasing
    <3> QED
      BY <1>1, <2>2, <2>3, <2>6, <2>7, <2>8, <3>3 DEF Runs, Cleaning, Executing
  <2> QED
    BY <1>1, <2>4, <2>5, <2>7, <2>8, <2>9, <2>10, <2>11, <2>12, EditStep
<1> QED
  BY <1>2, <1>3 DEF Begin

\* An intent is recorded before the call it is for.
LEMMA IntentStep ==
  ASSUME JobInv, NEW j \in Jobs, PersistLeaseIntent(j)
  PROVE  StepOK(j)
<1> DEFINE t == thread[j]
           rec == mem.job[j]
           c == LeaseOf(j)
           p == [mem EXCEPT !.job[j].intents = @ \cup {c}]
<1>1. /\ Own(j) /\ mem \in Tables /\ Lanes(mem) /\ rec \in JobRecords
      /\ thread \in [Jobs -> Threads] /\ t.at = "intend" /\ ~At(j, "idle")
      /\ UNCHANGED <<held, unsettled, lost>> /\ mem' = p
  BY DEF PersistLeaseIntent, JobInv, TypeOK, Tables, At
<1>2. c = Plan(rec.kind, rec.node).leases[t.i]
  BY DEF LeaseOf, PlanOf, Kind, Node
<1>3. c \in Workers \cup {rec.node} /\ c \in Components
  <2>1. t.i \in 1 .. Len(Plan(rec.kind, rec.node).leases)
    BY <1>1 DEF Own, Runs, Leasing
  <2>2. rec.kind \in Kinds /\ rec.node \in Nodes
    BY <1>1, ThreadFacts DEF Kind, Node
  <2>3. \A k \in 1 .. Len(Plan(rec.kind, rec.node).leases) :
          Plan(rec.kind, rec.node).leases[k] \in Workers \cup {rec.node}
    BY <2>2, PlanFacts
  <2> QED
    BY <1>2, <2>1, <2>2, <2>3
<1> HIDE DEF c
<1>4. Edit(mem, p, j) /\ p.job[j] = [rec EXCEPT !.intents = @ \cup {c}]
  BY <1>1, <1>3, IntentEdit
<1>5. /\ p.job[j].state = rec.state /\ p.job[j].intents = rec.intents \cup {c}
      /\ p.job[j].context = rec.context
      /\ p.job[j].kind = rec.kind /\ p.job[j].node = rec.node
  BY <1>1, <1>4 DEF JobRecords
<1> HIDE DEF p
<1>6. \A k \in Jobs : Holds(k)' = Holds(k)
  BY <1>1 DEF Holds
<1>7. rec.state \in Live /\ rec.state \notin {"none", "trimmed"}
  BY <1>1 DEF Own, Runs, Executing, Live
<1>8. Knows(j, t, mem', Holds(j)', unsettled')
  BY <1>1, <1>3, <1>4, <1>5, <1>6, <1>7, KnowsEdit DEF Own
<1>9. Final(mem.job[j], mem'.job[j])
  BY <1>7 DEF Final, Live, Terminal
<1>10. CASE disk' = p /\ GoTo(j, "call")
  <2>1. /\ thread' \in [Jobs -> Threads] /\ thread'[j].at = "call" /\ thread'[j].i = t.i
        /\ \A k \in Jobs \ {j} : thread'[k] = thread[k]
    BY <1>1, <1>10, GoToFacts
  <2>2. Knows(j, thread'[j], mem', Holds(j)', unsettled')
    BY <1>1, <1>2, <1>5, <1>8, <2>1 DEF Knows
  <2>3. Taken(thread'[j], p.job[j]) = Taken(t, rec)
    BY <1>1, <1>5, <2>1 DEF Taken, GrantedTo
  <2>4. Leasing(j, thread'[j], p.job[j], Holds(j), unsettled, lost)
    BY <1>1, <1>5, <2>1, <2>3 DEF Own, Runs, Leasing
  <2>5. Runs(j, thread'[j], p.job[j], Holds(j), unsettled, lost)
    BY <1>1, <1>5, <1>7, <2>1, <2>4 DEF Own, Runs, Cleaning
  <2>6. disk' = disk => Knows(j, thread'[j], disk, Holds(j)', unsettled')
    BY <1>1, <1>10, <2>2
  <2> QED
    BY <1>1, <1>4, <1>6, <1>9, <1>10, <2>1, <2>2, <2>5, <2>6, EditStep
<1>11. CASE disk' = disk /\ FailBeforeMutation(j, p)
  <2>1. StartCleanup(j, p.job[j].intents, "unstarted")
    BY <1>11 DEF FailBeforeMutation
  <2>2. /\ Holds(j) \subseteq p.job[j].intents
        /\ j \in unsettled => Kind(j) = "partition" /\ Node(j) \in p.job[j].intents
    BY <1>1, <1>5, ExecutorFacts
  <2>3. /\ thread' \in [Jobs -> Threads] /\ thread'[j].at = "cleanup"
        /\ \A k \in Jobs \ {j} : thread'[k] = thread[k]
        /\ Runs(j, thread'[j], p.job[j], Holds(j), unsettled, lost)
    BY <1>1, <1>5, <1>7, <2>1, <2>2, CleanupStarts DEF Kind, Node
  <2>4. /\ Knows(j, thread'[j], mem', Holds(j)', unsettled')
        /\ Knows(j, thread'[j], disk, Holds(j)', unsettled')
    BY <1>1, <1>6, <1>8, <2>3, KnowsLess DEF Own
  <2> QED
    BY <1>1, <1>4, <1>6, <1>9, <1>11, <2>3, <2>4, EditStep
<1> QED
  BY <1>10, <1>11 DEF PersistLeaseIntent, c, p

\* Before the first invalidation the recovery context is recorded, saved for
\* a rewind; the job holds both workers unless it lost one.
LEMMA MutationStep ==
  ASSUME JobInv, NEW j \in Jobs, BeginMutation(j)
  PROVE  StepOK(j)
<1> DEFINE t == thread[j]
           rec == mem.job[j]
           p == [mem EXCEPT !.job[j].context = "known"]
<1>1. /\ Own(j) /\ mem \in Tables /\ Lanes(mem) /\ rec \in JobRecords
      /\ thread \in [Jobs -> Threads] /\ t.at = "execute" /\ ~At(j, "idle")
      /\ UNCHANGED <<held, lost>> /\ rec.kind \in {"reorg", "rewind"}
  BY DEF BeginMutation, JobInv, TypeOK, Tables, At, Kind
<1>2. Edit(mem, p, j) /\ p.job[j] = [rec EXCEPT !.context = "known"]
  BY <1>1, ContextEdit
<1>3. /\ p.job[j].state = rec.state /\ p.job[j].intents = rec.intents
      /\ p.job[j].context = "known"
      /\ p.job[j].kind = rec.kind /\ p.job[j].node = rec.node
  BY <1>1, <1>2 DEF JobRecords
<1>4. RecordRecovery(j)
  BY DEF BeginMutation
<1>5. mem' = p /\ (disk' = disk \/ disk' = mem')
  BY <1>4 DEF RecordRecovery, SaveBestEffort
<1>6. CASE /\ rec.kind = "rewind" => disk' = p
           /\ GoTo(j, "mutating") /\ unsettled' = unsettled \cup {j}
  <2> HIDE DEF p
  <2>1. /\ thread' \in [Jobs -> Threads] /\ thread'[j].at = "mutating" /\ thread'[j].i = t.i
        /\ \A k \in Jobs \ {j} : thread'[k] = thread[k]
    BY <1>1, <1>6, GoToFacts
  <2>2. \A k \in Jobs : Holds(k)' = Holds(k)
    BY <1>1 DEF Holds
  <2>3. /\ rec.state \in Live /\ rec.state \notin {"none", "trimmed"}
        /\ j \in lost \/ Workers \subseteq Holds(j)
    <3>1. rec.state \in Live
      BY <1>1, ExecutorFacts
    <3>2. /\ Workers \subseteq Granted(j)
          /\ j \in lost \/ Granted(j) \cap Workers \subseteq Holds(j)
      BY <1>1, ExecutorFacts DEF Kind
    <3> QED
      BY <3>1, <3>2 DEF Live
  <2>4. Knows(j, t, mem', Holds(j)', unsettled)
    BY <1>1, <1>2, <1>3, <1>5, <2>2, <2>3, KnowsEdit DEF Own
  <2>5. Knows(j, thread'[j], mem', Holds(j)', unsettled')
    <3>1. Traced(mem'.job[j])
      BY <1>1, <1>3, <1>5 DEF Traced
    <3> QED
      BY <1>1, <2>1, <2>4, <3>1 DEF Knows
  <2>6. ASSUME disk' = disk PROVE Knows(j, thread'[j], disk, Holds(j)', unsettled')
    <3>1. CASE rec.kind = "rewind"
      BY <1>5, <1>6, <2>5, <2>6, <3>1
    <3>2. CASE rec.kind = "reorg"
      <4>1. Sound(disk.job[j]) /\ disk.job[j].kind = "reorg"
        BY <1>1, <3>2, ThreadFacts
      <4>2. Traced(disk.job[j])
        BY <4>1 DEF Sound, Traced
      <4> QED
        BY <1>1, <2>1, <2>2, <4>2 DEF Own, Knows
    <3> QED
      BY <1>1, <3>1, <3>2
  <2>7. Final(mem.job[j], mem'.job[j])
    BY <2>3 DEF Final, Live, Terminal
  <2>8. Runs(j, thread'[j], p.job[j], Holds(j), unsettled', lost)
    <3>1. Taken(thread'[j], p.job[j]) = Taken(t, rec)
      BY <1>1, <1>3, <2>1 DEF Taken, GrantedTo
    <3>2. Leasing(j, thread'[j], p.job[j], Holds(j), unsettled', lost)
      BY <1>1, <1>3, <2>1, <3>1 DEF Own, Runs, Leasing
    <3> QED
      BY <1>1, <1>3, <2>1, <2>3, <3>2 DEF Runs, Cleaning
  <2>9. \A k \in Jobs \ {j} : k \in unsettled' <=> k \in unsettled
    BY <1>6
  <2> QED
    BY <1>1, <1>2, <1>5, <2>1, <2>2, <2>5, <2>6, <2>7, <2>8, <2>9, EditStep
<1>7. CASE /\ rec.kind = "rewind" /\ disk' = disk /\ unsettled' = unsettled
           /\ StartCleanup(j, Granted(j), "error")
  <2> HIDE DEF p
  <2>1. /\ Holds(j) \subseteq Granted(j) /\ rec.state \in Live
        /\ j \in unsettled => Kind(j) = "partition" /\ Node(j) \in Granted(j)
    BY <1>1, ExecutorFacts
  <2>2. /\ thread' \in [Jobs -> Threads] /\ thread'[j].at = "cleanup"
        /\ \A k \in Jobs \ {j} : thread'[k] = thread[k]
        /\ Runs(j, thread'[j], p.job[j], Holds(j), unsettled, lost)
    BY <1>1, <1>3, <1>7, <2>1, CleanupStarts DEF Kind, Node
  <2>3. \A k \in Jobs : Holds(k)' = Holds(k)
    BY <1>1 DEF Holds
  <2>4. /\ Knows(j, thread'[j], mem, Holds(j)', unsettled')
        /\ Knows(j, thread'[j], disk, Holds(j)', unsettled')
    BY <1>1, <1>7, <2>2, <2>3, KnowsLess DEF Own
  <2>5. rec.state \notin {"none", "trimmed"} /\ Final(mem.job[j], mem'.job[j])
    BY <2>1 DEF Final, Live, Terminal
  <2>6. Knows(j, thread'[j], mem', Holds(j)', unsettled')
    BY <1>1, <1>2, <1>3, <1>5, <2>4, <2>5, KnowsEdit
  <2> QED
    BY <1>1, <1>2, <1>5, <1>7, <2>2, <2>3, <2>4, <2>5, <2>6, EditStep
<1> QED
  BY <1>4, <1>6, <1>7 DEF RecordRecovery, Kind

\* An abort request changes the state of a job that has not ended.
LEMMA AbortStep ==
  ASSUME JobInv, NEW j \in Jobs, Abort(j)
  PROVE  StepOK(j)
<1> DEFINE t == thread[j]
           rec == mem.job[j]
           p == [mem EXCEPT !.job[j].state = "abort_requested"]
<1>1. /\ Own(j) /\ mem \in Tables /\ Lanes(mem) /\ rec \in JobRecords
      /\ thread \in [Jobs -> Threads] /\ rec.state \in {"starting", "running"}
      /\ UNCHANGED <<thread, held, unsettled, lost>>
      /\ mem' = p /\ (disk' = disk \/ disk' = mem')
  BY DEF Abort, SaveBestEffort, JobInv, TypeOK, Tables
<1>2. Edit(mem, p, j) /\ p.job[j] = [rec EXCEPT !.state = "abort_requested"]
  <2>1. "abort_requested" \in JobStates
    BY DEF JobStates
  <2> QED
    BY <1>1, <2>1, StateEdit
<1>3. /\ p.job[j].state = "abort_requested" /\ p.job[j].intents = rec.intents
      /\ p.job[j].context = rec.context
      /\ p.job[j].kind = rec.kind /\ p.job[j].node = rec.node
  BY <1>1, <1>2 DEF JobRecords
<1> HIDE DEF p
<1>4. \A k \in Jobs : Holds(k)' = Holds(k)
  BY <1>1 DEF Holds
<1>5. Knows(j, t, mem', Holds(j)', unsettled')
  BY <1>1, <1>2, <1>3, <1>4, KnowsEdit DEF Own
<1>6. Runs(j, t, p.job[j], Holds(j), unsettled, lost)
  <2>1. p.job[j].state \in Live
    BY <1>3 DEF Live
  <2> QED
    BY <1>1, <1>3, <2>1, RunsEdit DEF Own
<1>7. Final(mem.job[j], mem'.job[j])
  BY <1>1 DEF Final, Terminal
<1> QED
  BY <1>1, <1>2, <1>4, <1>5, <1>6, <1>7, EditStep DEF Own

(***************************************************************************)
(* Cleanup and recovery.                                                   *)
(***************************************************************************)
\* The chain is recovered before a worker's lease is given back, and what is
\* verified last is all that is left.
LEMMA RankFacts ==
  ASSUME NEW j
  PROVE  /\ \A w \in Workers : IsNext(j, w) => "chain" \notin thread[j].todo
         /\ IsNext(j, "verify") => /\ "network" \notin thread[j].todo
                                   /\ "heal" \notin thread[j].todo
                                   /\ "chain" \notin thread[j].todo
<1>1. /\ StepRank["network"] = 1 /\ StepRank["heal"] = 2 /\ StepRank["chain"] = 5
      /\ StepRank["spam"] = 6 /\ StepRank["mining"] = 7 /\ StepRank["verify"] = 8
  BY DEF StepRank
<1> QED
  BY <1>1 DEF IsNext

\* A step of a cleanup or a recovery is done.
LEMMA DoneFacts ==
  ASSUME thread \in [Jobs -> Threads], NEW j \in Jobs, NEW s, StepDone(j, s)
  PROVE  /\ thread' \in [Jobs -> Threads]
         /\ thread'[j].at = thread[j].at /\ thread'[j].errors = thread[j].errors
         /\ thread'[j].todo = thread[j].todo \ {s}
         /\ \A k \in Jobs \ {j} : thread'[k] = thread[k]
  BY DEF StepDone, Threads

\* What there is to know of a cleanup or a recovery.
LEMMA WorkingFacts ==
  ASSUME JobInv, NEW j \in Jobs, Working(j)
  PROVE  /\ thread \in [Jobs -> Threads] /\ held \in [Components -> SUBSET Jobs]
         /\ thread[j].at \in {"cleanup", "recover"} /\ ~At(j, "idle")
         /\ thread[j].at = "cleanup" => mem.job[j].state \in Live
         /\ Cleaning(j, thread[j], mem.job[j], Holds(j), unsettled)
         /\ j \in unsettled \ lost /\ mem.job[j].kind \in {"reorg", "rewind"} =>
              Workers \subseteq Holds(j)
         /\ j \in unsettled => Traced(mem.job[j])
         /\ Nodes \cap Workers = {} /\ Node(j) \in Nodes
<1>1. thread[j].at \in {"cleanup", "recover"} /\ ~At(j, "idle")
  BY DEF Working, At
<1>2. /\ thread \in [Jobs -> Threads] /\ held \in [Components -> SUBSET Jobs] /\ Own(j)
  BY DEF JobInv, TypeOK
<1>3. Nodes \cap Workers = {} /\ Node(j) \in Nodes
  BY <1>1, ThreadFacts, JobConstants
<1> QED
  BY <1>1, <1>2, <1>3 DEF Own, Knows, Runs, Executing

\* A cleanup or a recovery runs when it has to do what is left.
LEMMA WorkingRuns ==
  ASSUME NEW j, NEW t, NEW rec, NEW H, NEW U, NEW L,
         t.at \in {"cleanup", "recover"}, t.at = "cleanup" => rec.state \in Live,
         Cleaning(j, t, rec, H, U),
         j \in U \ L /\ rec.kind \in {"reorg", "rewind"} => Workers \subseteq H
  PROVE  Runs(j, t, rec, H, U, L)
  BY DEF Runs, Leasing, Executing

\* The next round of a recovery starts.
LEMMA RoundStarts ==
  ASSUME JobInv, NEW j \in Jobs, Working(j),
         thread' = [thread EXCEPT ![j] = Recovering(mem, j)],
         UNCHANGED <<mem, disk, held, unsettled, lost>>
  PROVE  StepOK(j)
<1>1. /\ Runs(j, Recovering(mem, j), mem.job[j], Holds(j), unsettled, lost)
      /\ Recovering(mem, j) \in Threads /\ Recovering(mem, j).at = "recover"
  BY WorkingFacts, RecoveryStarts
<1>2. /\ thread' \in [Jobs -> Threads] /\ thread'[j] = Recovering(mem, j)
      /\ \A k \in Jobs \ {j} : thread'[k] = thread[k]
  BY <1>1, WorkingFacts, ThreadEdit
<1>3. \A k \in Jobs : Holds(k)' = Holds(k)
  BY DEF Holds
<1>4. thread[j].at # "idle"
  BY WorkingFacts
<1> QED
  BY <1>1, <1>2, <1>3, <1>4, QuietStep

\* A step fails: the cleanup goes on, the recovery starts over.
LEMMA FailStep ==
  ASSUME JobInv, NEW j \in Jobs, NEW s, StepFails(j, s),
         UNCHANGED <<mem, disk, held, unsettled, lost>>
  PROVE  StepOK(j)
<1>1. Working(j)
  BY DEF StepFails
<1>2. CASE thread[j].at = "cleanup"
  <2> DEFINE t == [thread[j] EXCEPT !.todo = @ \ {s}, !.errors = TRUE]
  <2>0. thread' = [thread EXCEPT ![j] =
          IF thread[j].at = "cleanup" THEN t ELSE Recovering(mem, j)]
    BY DEF StepFails
  <2>2. t \in Threads /\ t.at = "cleanup" /\ t.errors = TRUE
    BY <1>1, <1>2, WorkingFacts DEF Threads
  <2> HIDE DEF t
  <2>1. thread' = [thread EXCEPT ![j] = t]
    BY <1>2, <2>0
  <2>3. /\ thread' \in [Jobs -> Threads] /\ thread'[j] = t
        /\ \A k \in Jobs \ {j} : thread'[k] = thread[k]
    BY <1>1, <2>1, <2>2, WorkingFacts, ThreadEdit
  <2>4. Cleaning(j, t, mem.job[j], Holds(j), unsettled)
    BY <1>1, <1>2, <2>2, WorkingFacts DEF Cleaning
  <2>5. Runs(j, t, mem.job[j], Holds(j), unsettled, lost)
    BY <1>1, <1>2, <2>2, <2>4, WorkingFacts, WorkingRuns
  <2>6. \A k \in Jobs : Holds(k)' = Holds(k)
    BY DEF Holds
  <2> QED
    BY <1>2, <2>2, <2>3, <2>5, <2>6, QuietStep
<1>3. CASE thread[j].at # "cleanup"
  BY <1>1, <1>3, RoundStarts DEF StepFails
<1> QED
  BY <1>2, <1>3

\* A step that is done, when what is left to do is still in the list.
LEMMA DoneStep ==
  ASSUME JobInv, NEW j \in Jobs, Working(j), NEW s, StepDone(j, s),
         UNCHANGED <<mem, disk, lost>>,
         \A k \in Jobs \ {j} : Holds(k)' = Holds(k) /\ (k \in unsettled' <=> k \in unsettled),
         Holds(j)' \subseteq Holds(j), j \in unsettled' => j \in unsettled,
         Cleaning(j, thread'[j], mem.job[j], Holds(j)', unsettled'),
         j \in unsettled' \ lost /\ mem.job[j].kind \in {"reorg", "rewind"} =>
           Workers \subseteq Holds(j)'
  PROVE  StepOK(j)
<1>1. /\ thread' \in [Jobs -> Threads] /\ thread'[j].at = thread[j].at
      /\ \A k \in Jobs \ {j} : thread'[k] = thread[k]
  BY WorkingFacts, DoneFacts
<1>2. /\ thread[j].at \in {"cleanup", "recover"}
      /\ thread[j].at = "cleanup" => mem.job[j].state \in Live
  BY WorkingFacts
<1>3. Runs(j, thread'[j], mem.job[j], Holds(j)', unsettled', lost)
  BY <1>1, <1>2, WorkingRuns
<1> QED
  BY <1>1, <1>2, <1>3, QuietStep

\* The network lease is given back.
LEMMA ReleaseNetworkStep ==
  ASSUME JobInv, NEW j \in Jobs, ReleaseNetwork(j)
  PROVE  StepOK(j)
<1>1. /\ Working(j) /\ StepDone(j, "network") /\ UNCHANGED <<mem, disk, unsettled, lost>>
      /\ held' = [c \in Components |-> IF c \in Nodes THEN held[c] \ {j} ELSE held[c]]
  BY DEF ReleaseNetwork
<1>2. /\ Holds(j)' = Holds(j) \ Nodes
      /\ \A k \in Jobs \ {j} : Holds(k)' = Holds(k)
  BY <1>1, WorkingFacts DEF Holds
<1>3. /\ thread'[j].at = thread[j].at /\ thread'[j].errors = thread[j].errors
      /\ thread'[j].todo = thread[j].todo \ {"network"}
  BY <1>1, WorkingFacts, DoneFacts
<1>4. Cleaning(j, thread'[j], mem.job[j], Holds(j)', unsettled)
  BY <1>1, <1>2, <1>3, WorkingFacts DEF Cleaning
<1>5. j \in unsettled \ lost /\ mem.job[j].kind \in {"reorg", "rewind"} =>
        Workers \subseteq Holds(j)'
  BY <1>1, <1>2, WorkingFacts
<1> QED
  BY <1>1, <1>2, <1>4, <1>5, DoneStep

\* The nodes are reconnected and witnessed on one tip.
LEMMA HealStep ==
  ASSUME JobInv, NEW j \in Jobs, Heal(j)
  PROVE  StepOK(j)
<1> DEFINE rec == mem.job[j]
<1>1. /\ Working(j) /\ StepDone(j, "heal") /\ UNCHANGED <<mem, disk, held, lost>>
      /\ unsettled' = IF rec.kind = "partition" THEN unsettled \ {j} ELSE unsettled
  BY DEF Heal, Kind
<1>2. \A k \in Jobs : Holds(k)' = Holds(k)
  BY <1>1 DEF Holds
<1>3. /\ thread'[j].at = thread[j].at /\ thread'[j].errors = thread[j].errors
      /\ thread'[j].todo = thread[j].todo \ {"heal"}
  BY <1>1, WorkingFacts, DoneFacts
<1>4. j \in unsettled' => j \in unsettled /\ rec.kind \in {"reorg", "rewind"}
  BY <1>1, WorkingFacts DEF Traced
<1>5. Cleaning(j, thread'[j], rec, Holds(j), unsettled')
  BY <1>1, <1>3, <1>4, WorkingFacts DEF Cleaning
<1>6. j \in unsettled' \ lost /\ rec.kind \in {"reorg", "rewind"} => Workers \subseteq Holds(j)'
  BY <1>1, <1>2, <1>4, WorkingFacts
<1>7. \A k \in Jobs \ {j} : k \in unsettled' <=> k \in unsettled
  BY <1>1
<1> QED
  BY <1>1, <1>2, <1>4, <1>5, <1>6, <1>7, DoneStep

\* The chain of a reorg or a rewind is recovered.
LEMMA RecoverChainStep ==
  ASSUME JobInv, NEW j \in Jobs, RecoverChain(j)
  PROVE  StepOK(j)
<1>1. /\ Working(j) /\ StepDone(j, "chain") /\ UNCHANGED <<mem, disk, held, lost>>
      /\ unsettled' = unsettled \ {j}
  BY DEF RecoverChain, Working, At
<1>2. \A k \in Jobs : Holds(k)' = Holds(k)
  BY <1>1 DEF Holds
<1>3. /\ thread'[j].at = thread[j].at /\ thread'[j].errors = thread[j].errors
      /\ thread'[j].todo = thread[j].todo \ {"chain"}
  BY <1>1, WorkingFacts, DoneFacts
<1>4. Cleaning(j, thread'[j], mem.job[j], Holds(j), unsettled')
  BY <1>1, <1>3, WorkingFacts DEF Cleaning
<1>5. \A k \in Jobs \ {j} : k \in unsettled' <=> k \in unsettled
  BY <1>1
<1> QED
  BY <1>1, <1>2, <1>4, <1>5, DoneStep

\* A worker's lease is given back: by a cleanup of a job that has settled, by
\* a recovery after the chain.
LEMMA ReleaseStep ==
  ASSUME JobInv, NEW j \in Jobs, NEW w \in Workers,
         CleanupRelease(j, w) \/ RecoveryRelease(j, w)
  PROVE  StepOK(j)
<1>1. /\ Working(j) /\ StepDone(j, w) /\ UNCHANGED <<mem, disk, unsettled, lost>>
      /\ IsNext(j, w)
      /\ held' = [held EXCEPT ![w] = @ \ {j}] \/ (held' = held /\ thread[j].at = "recover")
  BY DEF CleanupRelease, RecoveryRelease, Working, At
<1>2. /\ Holds(j)' = Holds(j) \ {w} \/ (Holds(j)' = Holds(j) /\ thread[j].at = "recover")
      /\ \A k \in Jobs \ {j} : Holds(k)' = Holds(k)
  <2>1. CASE held' = [held EXCEPT ![w] = @ \ {j}]
    BY <1>1, <2>1, WorkingFacts, DropFacts
  <2>2. CASE held' = held /\ thread[j].at = "recover"
    BY <2>2 DEF Holds
  <2> QED
    BY <1>1, <2>1, <2>2
<1>3. /\ thread'[j].at = thread[j].at /\ thread'[j].errors = thread[j].errors
      /\ thread'[j].todo = thread[j].todo \ {w}
  BY <1>1, WorkingFacts, DoneFacts
<1>4. w # "network" /\ w # "heal" /\ w # "chain"
  OBVIOUS
<1>5. Cleaning(j, thread'[j], mem.job[j], Holds(j)', unsettled)
  BY <1>1, <1>2, <1>3, <1>4, WorkingFacts DEF Cleaning
<1>6. ~(j \in unsettled /\ mem.job[j].kind \in {"reorg", "rewind"})
  <2>1. "chain" \notin thread[j].todo
    BY <1>1, RankFacts
  <2> QED
    BY <1>1, <2>1, WorkingFacts DEF Cleaning
<1> QED
  BY <1>1, <1>2, <1>5, <1>6, DoneStep

\* A recovery takes a worker's lease again: it is recorded in both tables.
LEMMA EnsureStep ==
  ASSUME JobInv, NEW j \in Jobs, NEW w \in Workers, EnsureRecoveryLease(j, w)
  PROVE  StepOK(j)
<1> DEFINE rec == mem.job[j]
           s == LeaseStep(w)
           p == [mem EXCEPT !.job[j].intents = @ \cup {w}]
<1>1. /\ Working(j) /\ thread[j].at = "recover" /\ StepDone(j, s)
      /\ UNCHANGED <<unsettled, lost>>
      /\ IF j \in held[w] THEN UNCHANGED <<mem, disk>> ELSE mem' = p /\ disk' = p
      /\ held' = [held EXCEPT ![w] = @ \cup {j}]
  BY DEF EnsureRecoveryLease, Working, At
<1>2. /\ Holds(j)' = Holds(j) \cup {w}
      /\ \A k \in Jobs \ {j} : Holds(k)' = Holds(k)
  BY <1>1, WorkingFacts, GrantFacts
<1>3. s # "network" /\ s # "heal" /\ s # "chain"
  BY DEF LeaseStep
<1> HIDE DEF s
<1>4. /\ thread'[j].at = "recover" /\ thread'[j].todo = thread[j].todo \ {s}
      /\ thread' \in [Jobs -> Threads]
      /\ \A k \in Jobs \ {j} : thread'[k] = thread[k]
  BY <1>1, WorkingFacts, DoneFacts
<1>5. Cleaning(j, thread'[j], rec, Holds(j)', unsettled)
  BY <1>1, <1>2, <1>3, <1>4, WorkingFacts DEF Cleaning
<1>6. j \in unsettled \ lost /\ rec.kind \in {"reorg", "rewind"} => Workers \subseteq Holds(j)'
  BY <1>1, <1>2, WorkingFacts
<1>7. CASE j \in held[w]
  <2>1. Holds(j)' \subseteq Holds(j)
    BY <1>2, <1>7 DEF Holds
  <2> QED
    BY <1>1, <1>2, <1>5, <1>6, <1>7, <2>1, DoneStep
<1>8. CASE j \notin held[w]
  <2>1. /\ mem \in Tables /\ Lanes(mem) /\ rec \in JobRecords /\ Own(j)
        /\ mem' = p /\ disk' = p
    BY <1>1, <1>8 DEF JobInv, TypeOK, Tables
  <2>2. Edit(mem, p, j) /\ p.job[j] = [rec EXCEPT !.intents = @ \cup {w}]
    BY <2>1, IntentEdit
  <2>3. /\ p.job[j].state = rec.state /\ p.job[j].intents = rec.intents \cup {w}
        /\ p.job[j].context = rec.context
        /\ p.job[j].kind = rec.kind /\ p.job[j].node = rec.node
    BY <2>1, <2>2 DEF JobRecords
  <2> HIDE DEF p
  <2>4. rec.state \notin {"none", "trimmed"}
    BY <1>1, WorkingFacts, ThreadFacts DEF Sound
  <2>5. Knows(j, thread[j], p, Holds(j), unsettled)
    BY <2>1, <2>2, <2>3, <2>4, KnowsEdit DEF Own
  <2>6. Knows(j, thread'[j], mem', Holds(j)', unsettled')
    BY <1>1, <1>2, <1>4, <2>1, <2>3, <2>5 DEF Knows
  <2>7. Runs(j, thread'[j], p.job[j], Holds(j)', unsettled', lost')
    <3>1. Runs(j, thread'[j], rec, Holds(j)', unsettled', lost')
      BY <1>1, <1>4, <1>5, <1>6, WorkingRuns
    <3> QED
      BY <2>3, <3>1, RunsEdit
  <2>8. Final(mem.job[j], mem'.job[j])
    BY <2>1, <2>3 DEF Final
  <2>9. disk' = disk => Knows(j, thread'[j], disk, Holds(j)', unsettled')
    BY <2>1, <2>6
  <2> QED
    BY <1>1, <1>2, <1>4, <2>1, <2>2, <2>6, <2>7, <2>8, <2>9, EditStep
<1> QED
  BY <1>7, <1>8

\* A recovery that has verified the workers has nothing left out there.
LEMMA CompleteStep ==
  ASSUME JobInv, NEW j \in Jobs, RecoveryComplete(j)
  PROVE  StepOK(j)
<1> DEFINE done == [mem EXCEPT !.job[j].cleanup = "succeeded"]
<1>1. /\ Working(j) /\ thread[j].at = "recover" /\ IsNext(j, "verify")
      /\ \A w \in Workers : j \notin held[w]
      /\ mem' = ClearActiveLane(done, j) /\ (disk' = disk \/ disk' = mem')
      /\ thread' = [thread EXCEPT ![j] = Idle]
      /\ UNCHANGED <<held, unsettled, lost>>
  BY DEF RecoveryComplete, Working, At, VerifyLeases, SaveBestEffort
<1>2. mem \in Tables /\ mem.job[j] \in JobRecords
  BY DEF JobInv, TypeOK, Tables
<1>3. Edit(mem, done, j) /\ done.job[j] = [mem.job[j] EXCEPT !.cleanup = "succeeded"]
  BY <1>2, CleanupEdit
<1>4. Final(mem.job[j], done.job[j])
  BY <1>2, <1>3 DEF Final, JobRecords
<1>5. Holds(j) = {} /\ j \notin unsettled
  <2>1. /\ "network" \notin thread[j].todo /\ "heal" \notin thread[j].todo
        /\ "chain" \notin thread[j].todo
    BY <1>1, RankFacts
  <2>2. Holds(j) \cap Nodes = {} /\ j \notin unsettled
    BY <1>1, <2>1, WorkingFacts DEF Cleaning
  <2> QED
    BY <1>1, <2>2 DEF Holds
<1> HIDE DEF done
<1> QED
  BY <1>1, <1>3, <1>4, <1>5, FreeStep

\* A lease that is not renewed is lost to its job.
LEMMA ExpireStep ==
  ASSUME JobInv, NEW j \in Jobs, NEW c \in Components, LeaseExpires(j, c)
  PROVE  StepOK(j)
<1> DEFINE t == thread[j]
           rec == mem.job[j]
<1>1. /\ UNCHANGED <<mem, disk, thread, unsettled>> /\ lost' = lost \cup {j}
      /\ held' = [held EXCEPT ![c] = @ \ {j}]
      /\ thread \in [Jobs -> Threads] /\ held \in [Components -> SUBSET Jobs]
      /\ Runs(j, t, rec, Holds(j), unsettled, lost)
  BY DEF LeaseExpires, JobInv, TypeOK, Own
<1>2. /\ Holds(j)' = Holds(j) \ {c}
      /\ \A k \in Jobs \ {j} : Holds(k)' = Holds(k)
  BY <1>1, DropFacts
<1>3. Leasing(j, t, rec, Holds(j)', unsettled, lost')
  BY <1>1, <1>2 DEF Runs, Leasing
<1>4. Cleaning(j, t, rec, Holds(j)', unsettled)
  BY <1>1, <1>2 DEF Runs, Cleaning
<1>5. Runs(j, thread'[j], rec, Holds(j)', unsettled', lost')
  BY <1>1, <1>2, <1>3, <1>4 DEF Runs
<1> QED
  BY <1>1, <1>2, <1>5, QuietStep

(***************************************************************************)
(* Admission, restarts.                                                    *)
(***************************************************************************)
\* A job that is in no table enters a free lane.
LEMMA EnterFacts ==
  ASSUME JobInv, NEW j \in Jobs, NEW r \in Requests, Admitted(j, r)
  PROVE  LET q == WithJob(mem, j, r)
         IN /\ q \in Tables /\ Lanes(q)
            /\ q.job[j] = NewJob(r) /\ NewJob(r) \in JobRecords
            /\ \A k \in Jobs \ {j} : q.job[k] = mem.job[k]
            /\ \A k \in Jobs : k \in Active(q) <=> k \in Active(mem) \/ k = j
<1> DEFINE q == WithJob(mem, j, r)
           rec == NewJob(r)
<1>1. /\ mem.lane \in Jobs \cup {None} /\ mem.degraded \in [Nodes -> Jobs \cup {None}]
      /\ mem.job \in [Jobs -> JobRecords] /\ None \notin Jobs /\ mem \in Tables
      /\ Lanes(mem)
  BY JobConstants DEF JobInv, TypeOK, Tables
<1>2. r.kind \in Kinds /\ r.node \in Nodes
  BY JobConstants
<1>3. /\ rec.kind = r.kind /\ rec.node = r.node /\ rec.state = "starting"
      /\ rec \in JobRecords
  BY <1>2 DEF NewJob, JobRecords, JobStates, Kinds
<1>4. \A k \in Active(mem) : mem.job[k].kind \in Kinds /\ k # j
  <2>1. \A k \in Active(mem) : Sound(mem.job[k])
    BY DEF JobInv, Own, Knows, Active
  <2> QED
    BY <2>1 DEF Sound, Admitted
<1>5. mem.lane # None => mem.lane \in Active(mem)
  BY <1>1 DEF Active
<1>6. \A n \in Nodes : mem.degraded[n] # None => mem.degraded[n] \in Active(mem)
  BY <1>1 DEF Active
<1>7. ExclusiveKind(mem) = "none" => mem.lane = None
  <2>1. "none" \notin Kinds
    BY DEF Kinds
  <2> QED
    BY <1>4, <1>5, <2>1 DEF ExclusiveKind
<1>8. JobsAreCompatible(mem, r)
  BY DEF Admitted
<1> HIDE DEF rec
<1>9. CASE r.kind = "degrade"
  <2>1. /\ mem.lane # None => mem.job[mem.lane].kind = "mine"
        /\ mem.degraded[r.node] = None
    BY <1>7, <1>8, <1>9 DEF JobsAreCompatible, ExclusiveKind
  <2>2. /\ q.lane = mem.lane /\ q.degraded = [mem.degraded EXCEPT ![r.node] = j]
        /\ q.job = [mem.job EXCEPT ![j] = rec]
    BY <1>1, <1>9 DEF WithJob, EnterLane, Tables, rec
  <2>3. q \in Tables
    BY <1>1, <1>2, <1>3, <1>9 DEF WithJob, EnterLane, Tables, rec
  <2> HIDE DEF q
  <2>4. \A k \in Jobs : k \in Active(q) <=> k \in Active(mem) \/ k = j
    BY <1>1, <1>2, <2>1, <2>2 DEF Active
  <2>5. /\ q.job[j] = rec /\ \A k \in Jobs \ {j} : q.job[k] = mem.job[k]
    BY <1>1, <2>2
  <2>6. Lanes(q)
    <3>1. q.lane # None => q.job[q.lane].kind = "mine"
      BY <1>1, <1>4, <1>5, <2>1, <2>2, <2>5
    <3>2. ASSUME NEW n \in Nodes, q.degraded[n] # None
          PROVE  q.job[q.degraded[n]].kind = "degrade" /\ q.job[q.degraded[n]].node = n
      <4>1. CASE n = r.node
        BY <1>1, <1>3, <1>9, <2>2, <2>5, <4>1
      <4>2. CASE n # r.node
        <5>1. q.degraded[n] = mem.degraded[n]
          BY <1>1, <2>2, <4>2
        <5>2. mem.degraded[n] \in Jobs \ {j}
          BY <1>1, <1>4, <1>6, <3>2, <5>1 DEF Active
        <5> QED
          BY <1>1, <2>5, <3>2, <5>1, <5>2 DEF Lanes
      <4> QED
        BY <4>1, <4>2
    <3> QED
      BY <3>1, <3>2 DEF Lanes
  <2> QED
    BY <1>3, <2>3, <2>4, <2>5, <2>6 DEF q, rec
<1>10. CASE r.kind # "degrade"
  <2>1. mem.lane = None /\ (r.kind = "mine" \/ \A n \in Nodes : mem.degraded[n] = None)
    BY <1>7, <1>8, <1>10 DEF JobsAreCompatible
  <2>2. /\ q.lane = j /\ q.degraded = mem.degraded
        /\ q.job = [mem.job EXCEPT ![j] = rec]
    BY <1>1, <1>10 DEF WithJob, EnterLane, Tables, rec
  <2>3. q \in Tables
    BY <1>1, <1>2, <1>3, <1>10 DEF WithJob, EnterLane, Tables, rec
  <2> HIDE DEF q
  <2>4. \A k \in Jobs : k \in Active(q) <=> k \in Active(mem) \/ k = j
    BY <1>1, <2>1, <2>2 DEF Active
  <2>5. /\ q.job[j] = rec /\ \A k \in Jobs \ {j} : q.job[k] = mem.job[k]
    BY <1>1, <2>2
  <2>6. Lanes(q)
    <3>1. \A n \in Nodes : q.degraded[n] # None => q.degraded[n] \in Jobs \ {j}
      BY <1>1, <1>4, <1>6, <2>2 DEF Active
    <3>2. q.job[q.lane].kind # "degrade"
      BY <1>3, <1>10, <2>2, <2>5
    <3>3. (\E n \in Nodes : q.degraded[n] # None) => q.job[q.lane].kind = "mine"
      BY <1>3, <2>1, <2>2, <2>5
    <3>4. \A n \in Nodes : q.degraded[n] # None =>
            q.job[q.degraded[n]].kind = "degrade" /\ q.job[q.degraded[n]].node = n
      BY <1>1, <2>2, <2>5, <3>1 DEF Lanes
    <3> QED
      BY <3>2, <3>3, <3>4 DEF Lanes
  <2> QED
    BY <1>3, <2>3, <2>4, <2>5, <2>6 DEF q, rec
<1> QED
  BY <1>9, <1>10

\* Trimming takes at most one job out of the table, an ended one in no lane.
LEMMA TrimFacts ==
  ASSUME NEW q \in Tables, Lanes(q), NEW m \in TrimHistory(q)
  PROVE  /\ m \in Tables /\ Lanes(m) /\ Active(m) = Active(q)
         /\ \A k \in Jobs :
              \/ m.job[k] = q.job[k]
              \/ /\ k \notin Active(q) /\ q.job[k].state \in Terminal
                 /\ m.job[k] = [NoJob EXCEPT !.state = "trimmed"]
<1>1. CASE m = q
  BY <1>1
<1>2. CASE m # q
  <2> DEFINE gone == [NoJob EXCEPT !.state = "trimmed"]
  <2>1. PICK x \in Stored(q) : /\ q.job[x].state \in Terminal /\ x \notin Active(q)
                               /\ m = [q EXCEPT !.job[x] = gone]
    <3>1. m \in {[q EXCEPT !.job[x] = gone] :
                   x \in {k \in Stored(q) : q.job[k].state \in Terminal /\ k \notin Active(q)}}
      BY <1>2 DEF TrimHistory
    <3> QED
      BY <3>1
  <2>2. gone \in JobRecords
    BY DEF NoJob, JobRecords, JobStates
  <2>3. x \in Jobs
    BY DEF Stored
  <2> HIDE DEF gone
  <2>4. /\ m \in Tables /\ m.lane = q.lane /\ m.degraded = q.degraded
        /\ m.job = [q.job EXCEPT ![x] = gone]
    BY <2>1, <2>2, <2>3 DEF Tables
  <2>5. Active(m) = Active(q)
    BY <2>4 DEF Active
  <2>6. /\ q.job \in [Jobs -> JobRecords]
        /\ q.lane # None => q.lane \in Active(q) /\ q.lane \in Jobs
        /\ \A n \in Nodes : q.degraded[n] # None =>
             q.degraded[n] \in Active(q) /\ q.degraded[n] \in Jobs
    BY DEF Tables, Active
  <2>7. \A k \in Jobs : k # x => m.job[k] = q.job[k]
    BY <2>4, <2>6
  <2>8. Lanes(m)
    BY <2>1, <2>4, <2>6, <2>7 DEF Lanes
  <2> QED
    BY <2>1, <2>3, <2>4, <2>5, <2>6, <2>7, <2>8 DEF gone
<1> QED
  BY <1>1, <1>2

\* A job is admitted, with its thread or, when it could not be saved, without.
LEMMA AdmitStep ==
  ASSUME JobInv, NEW j \in Jobs, NEW r \in Requests, Admitted(j, r),
         mem' \in TrimHistory(WithJob(mem, j, r)),
         \/ disk' = mem' /\ GoTo(j, "new")
         \/ disk' = disk /\ thread' = thread,
         UNCHANGED <<held, unsettled, lost>>
  PROVE  StepOK(j)
<1> DEFINE q == WithJob(mem, j, r)
           rec == NewJob(r)
<1>1. /\ q \in Tables /\ Lanes(q) /\ q.job[j] = rec /\ rec \in JobRecords
      /\ \A k \in Jobs \ {j} : q.job[k] = mem.job[k]
      /\ \A k \in Jobs : k \in Active(q) <=> k \in Active(mem) \/ k = j
  BY EnterFacts
<1>2. /\ r.kind \in Kinds /\ r.node \in Nodes
      /\ rec.kind = r.kind /\ rec.node = r.node /\ rec.state = "starting"
      /\ rec.intents = {}
      /\ r.kind = "reorg" => rec.context # "none"
  BY JobConstants DEF NewJob
<1> HIDE DEF q, rec
<1>3. /\ mem' \in Tables /\ Lanes(mem') /\ Active(mem') = Active(q)
      /\ \A k \in Jobs :
           \/ mem'.job[k] = q.job[k]
           \/ /\ k \notin Active(q) /\ q.job[k].state \in Terminal
              /\ mem'.job[k] = [NoJob EXCEPT !.state = "trimmed"]
  BY <1>1, TrimFacts DEF q
<1>4. mem'.job[j] = rec /\ j \in Active(mem')
  BY <1>1, <1>3
<1>5. /\ Own(j) /\ thread \in [Jobs -> Threads] /\ thread[j].at = "idle"
      /\ mem.job[j].state = "none" /\ disk.job[j].state = "none"
  BY DEF JobInv, TypeOK, Admitted, At
<1>6. Holds(j) = {} /\ j \notin unsettled /\ thread[j].i = 1
  BY <1>5 DEF Own, Runs
<1>7. j \notin Active(disk)
  BY <1>5 DEF Own, Knows, Sound
<1>8. \A k \in Jobs : Holds(k)' = Holds(k)
  BY DEF Holds
<1>9. /\ thread' \in [Jobs -> Threads] /\ thread'[j].i = 1
      /\ thread'[j].at = "new" \/ (thread'[j].at = "idle" /\ thread' = thread)
      /\ \A k \in Jobs \ {j} : thread'[k] = thread[k]
      /\ disk' = disk \/ disk' = mem'
  <2>1. CASE GoTo(j, "new") /\ disk' = mem'
    BY <1>5, <1>6, <2>1, GoToFacts
  <2>2. CASE thread' = thread /\ disk' = disk
    BY <1>5, <1>6, <2>2
  <2> QED
    BY <2>1, <2>2
<1>10. Others(j)
  BY <1>1, <1>3, <1>8, <1>9 DEF Others
<1>11. Sound(rec)
  BY <1>2 DEF Sound
<1>12. Knows(j, thread'[j], mem', Holds(j)', unsettled')
  BY <1>4, <1>6, <1>8, <1>9, <1>11 DEF Knows
<1>13. Saved(j, mem', disk)
  BY <1>5, <1>7 DEF Saved, Terminal
<1>14. Runs(j, thread'[j], mem'.job[j], Holds(j)', unsettled', lost')
  BY <1>2, <1>4, <1>6, <1>8, <1>9 DEF Runs, Leasing, Cleaning, Executing, Live
<1>15. Final(mem.job[j], mem'.job[j])
  BY <1>5 DEF Final, Terminal
<1>16. ASSUME disk' = disk PROVE Knows(j, thread'[j], disk, Holds(j)', unsettled')
  <2>1. CASE thread' = thread
    BY <1>5, <1>8, <2>1 DEF Own
  <2>2. CASE thread' # thread
    BY <1>4, <1>7, <1>9, <1>12, <1>16, <2>2
  <2> QED
    BY <2>1, <2>2
<1> QED
  BY <1>3, <1>9, <1>10, <1>12, <1>13, <1>14, <1>15, <1>16 DEF StepOK

\* A worker that starts anew has dropped what it held.
LEMMA WorkerRestartStep ==
  ASSUME JobInv, NEW w \in Workers, WorkerRestarts(w)
  PROVE  Lanes(mem)' /\ Lanes(disk)' /\ \A k \in Jobs : Own(k)'
<1>1. /\ UNCHANGED <<mem, disk, thread, unsettled>> /\ lost' = lost \cup held[w]
      /\ held' = [held EXCEPT ![w] = {}] /\ held \in [Components -> SUBSET Jobs]
      /\ Lanes(mem) /\ Lanes(disk)
  BY DEF WorkerRestarts, JobInv, TypeOK
<1>2. ASSUME NEW k \in Jobs
      PROVE  Own(k)'
  <2> DEFINE t == thread[k]
             rec == mem.job[k]
  <2>1. Own(k) /\ Runs(k, t, rec, Holds(k), unsettled, lost)
    BY DEF JobInv, Own
  <2>2. /\ Holds(k)' \subseteq Holds(k)
        /\ k \in lost => k \in lost'
        /\ k \in lost' \/ Holds(k)' = Holds(k)
    BY <1>1 DEF Holds
  <2>3. /\ Knows(k, t, mem, Holds(k)', unsettled)
        /\ Knows(k, t, disk, Holds(k)', unsettled)
    BY <2>1, <2>2 DEF Own, Knows
  <2>4. Leasing(k, t, rec, Holds(k)', unsettled, lost')
    BY <2>1, <2>2 DEF Runs, Leasing
  <2>5. Cleaning(k, t, rec, Holds(k)', unsettled)
    BY <2>1, <2>2 DEF Runs, Cleaning
  <2>6. Runs(k, t, rec, Holds(k)', unsettled, lost')
    BY <2>1, <2>2, <2>4, <2>5 DEF Runs
  <2> QED
    BY <1>1, <2>1, <2>3, <2>6 DEF Own
<1> QED
  BY <1>1, <1>2 DEF Lanes

\* The control plane starts anew from the saved table, with a recovery for
\* every job that is in a lane there.
LEMMA RestartStep ==
  ASSUME JobInv, Restart
  PROVE  /\ mem' \in Tables /\ disk' \in Tables /\ thread' \in [Jobs -> Threads]
         /\ Lanes(mem)' /\ Lanes(disk)' /\ \A k \in Jobs : Own(k)'
         /\ \A k \in Jobs : disk.job[k].state \in Terminal => disk'.job[k] = disk.job[k]
<1> DEFINE m == Interrupted(disk)
<1>1. /\ mem' = m /\ disk' = m /\ UNCHANGED <<held, unsettled, lost>>
      /\ thread' = [j \in Jobs |-> IF j \in Active(m) THEN Recovering(m, j) ELSE Idle]
  BY DEF Restart
<1>2. /\ disk.lane \in Jobs \cup {None} /\ disk.degraded \in [Nodes -> Jobs \cup {None}]
      /\ disk.job \in [Jobs -> JobRecords] /\ disk \in Tables /\ Lanes(disk)
  BY DEF JobInv, TypeOK, Tables
<1>3. /\ m.lane = disk.lane /\ m.degraded = disk.degraded
      /\ m.job = [j \in Jobs |->
           IF j \in Active(disk) /\ disk.job[j].state \notin Terminal
           THEN [disk.job[j] EXCEPT !.state = "interrupted", !.cleanup = "running"]
           ELSE disk.job[j]]
  BY <1>2 DEF Interrupted, Tables
<1>4. ASSUME NEW k \in Jobs
      PROVE  /\ m.job[k] \in JobRecords /\ m.job[k].kind = disk.job[k].kind
             /\ m.job[k].node = disk.job[k].node /\ m.job[k].intents = disk.job[k].intents
             /\ m.job[k].context = disk.job[k].context
             /\ m.job[k].state \in {disk.job[k].state, "interrupted"}
             /\ disk.job[k].state \in Terminal => m.job[k] = disk.job[k]
  <2>1. "interrupted" \in JobStates /\ disk.job[k] \in JobRecords
    BY <1>2 DEF JobStates, Terminal
  <2>2. CASE k \in Active(disk) /\ disk.job[k].state \notin Terminal
    <3>1. m.job[k] = [disk.job[k] EXCEPT !.state = "interrupted", !.cleanup = "running"]
      BY <1>3, <2>2
    <3> HIDE DEF m
    <3> QED
      BY <2>1, <2>2, <3>1 DEF JobRecords
  <2>3. CASE ~(k \in Active(disk) /\ disk.job[k].state \notin Terminal)
    <3>1. m.job[k] = disk.job[k]
      BY <1>3, <2>3
    <3> QED
      BY <2>1, <3>1
  <2> QED
    BY <2>2, <2>3
<1>5. m \in Tables
  <2>1. m.job \in [Jobs -> JobRecords]
    BY <1>3, <1>4
  <2>2. m = [disk EXCEPT !.job = m.job]
    BY <1>2 DEF Interrupted, Tables
  <2> HIDE DEF m
  <2> QED
    BY <1>2, <2>1, <2>2 DEF Tables
<1> HIDE DEF m
<1>6. Active(m) = Active(disk)
  BY <1>3 DEF Active
<1>7. Lanes(m)
  <2>1. /\ disk.lane # None => disk.lane \in Jobs
        /\ \A n \in Nodes : disk.degraded[n] # None => disk.degraded[n] \in Jobs
    BY <1>2
  <2>2. \A k \in Jobs : m.job[k].kind = disk.job[k].kind /\ m.job[k].node = disk.job[k].node
    BY <1>4
  <2>3. m.lane = disk.lane /\ m.degraded = disk.degraded
    BY <1>3
  <2> QED
    BY <1>2, <2>1, <2>2, <2>3 DEF Lanes
<1>8. ASSUME NEW k \in Jobs
      PROVE  Own(k)' /\ thread'[k] \in Threads
  <2>1. /\ Own(k) /\ Holds(k)' = Holds(k)
        /\ thread'[k] = IF k \in Active(m) THEN Recovering(m, k) ELSE Idle
    BY <1>1 DEF JobInv, Holds
  <2>2. Knows(k, thread[k], disk, Holds(k), unsettled)
    BY <2>1 DEF Own
  <2>3. CASE k \in Active(m)
    <3>1. k \in unsettled => Traced(m.job[k])
      BY <1>4, <2>2 DEF Knows, Traced
    <3>2. k \in unsettled \ lost /\ m.job[k].kind \in {"reorg", "rewind"} =>
            Workers \subseteq Holds(k)
      <4>1. k \in unsettled => mem.job[k].kind = disk.job[k].kind
        BY <2>1 DEF Own, Knows, Saved
      <4> QED
        BY <1>4, <2>1, <4>1 DEF Own, Runs
    <3>3. /\ thread'[k] \in Threads /\ thread'[k].at = "recover"
          /\ Runs(k, thread'[k], m.job[k], Holds(k), unsettled, lost)
      BY <2>1, <2>3, <3>1, <3>2, RecoveryStarts
    <3>4. Sound(m.job[k])
      <4>1. Sound(disk.job[k])
        BY <1>6, <2>2, <2>3 DEF Knows
      <4> QED
        BY <1>4, <4>1 DEF Sound
    <3>5. Knows(k, thread'[k], m, Holds(k), unsettled)
      BY <1>4, <2>2, <2>3, <3>1, <3>3, <3>4 DEF Knows
    <3> QED
      BY <1>1, <2>1, <3>3, <3>5 DEF Own, Saved
  <2>4. CASE k \notin Active(m)
    <3>1. Holds(k) = {} /\ k \notin unsettled
      BY <1>6, <2>2, <2>4 DEF Knows
    <3>2. thread'[k] = Idle /\ thread'[k] \in Threads /\ Idle.at = "idle" /\ Idle.i = 1
      BY <2>1, <2>4, IdleFacts
    <3>3. Runs(k, thread'[k], m.job[k], Holds(k), unsettled, lost)
      BY <3>1, <3>2 DEF Runs, Leasing, Cleaning, Executing
    <3>4. Knows(k, thread'[k], m, Holds(k), unsettled)
      BY <2>4, <3>1, <3>2 DEF Knows
    <3> QED
      BY <1>1, <2>1, <3>2, <3>3, <3>4 DEF Own, Saved
  <2> QED
    BY <2>3, <2>4
<1>9. thread' \in [Jobs -> Threads]
  BY <1>1, <1>8
<1>10. Lanes(mem)' /\ Lanes(disk)'
  BY <1>1, <1>7 DEF Lanes
<1> QED
  BY <1>1, <1>4, <1>5, <1>8, <1>9, <1>10

(***************************************************************************)
(* The types of what StepOK does not speak of.                             *)
(***************************************************************************)
RestOK ==
  /\ abort \subseteq Jobs
  /\ held \in [Components -> SUBSET Jobs]
  /\ remembered \in [Workers -> [Jobs -> 0 .. RequestLimit]]
  /\ unsettled \subseteq Jobs /\ lost \subseteq Jobs
  /\ faults \in 0 .. MaxFaults

\* What components hold and remember, which jobs are unsettled, and how many
\* faults are left stay of their types.
LEMMA RestStep == JobInv /\ Next => RestOK'
<1> SUFFICES ASSUME JobInv, Next PROVE RestOK'
  OBVIOUS
<1>1. RestOK /\ MaxFaults \in Nat /\ RequestLimit \in Nat
  BY JobConstants DEF JobInv, TypeOK, RestOK
<1>2. Fault \/ NoFault => faults' \in 0 .. MaxFaults
  BY <1>1 DEF Fault, NoFault, RestOK
<1>3. ASSUME NEW m, SaveBestEffort(m) PROVE faults' \in 0 .. MaxFaults
  BY <1>2, <1>3 DEF SaveBestEffort
<1>4. ASSUME NEW j \in Jobs, NEW s, NEW c, FinishJob(j, s, c)
      PROVE  faults' \in 0 .. MaxFaults /\ abort' \subseteq Jobs
  <2>1. faults' \in 0 .. MaxFaults
    BY <1>3, <1>4 DEF FinishJob
  <2> QED
    BY <1>1, <1>4, <2>1 DEF FinishJob, RestOK
<1>5. ASSUME NEW j \in Jobs, NEW r \in Requests, Start(j, r)
      PROVE  RestOK'
  <2>1. CASE ReserveUnsaved(j, r)
    BY <1>1, <1>2, <2>1 DEF ReserveUnsaved, RestOK
  <2>2. CASE ReserveActionJob(j, r)
    BY <1>1, <2>2 DEF ReserveActionJob, RestOK
  <2> QED
    BY <1>5, <2>1, <2>2 DEF Start, StartReorg, StartRewind, StartMine, StartSpamBurst,
      StartSpamPrepare, StartPartition, StartDegrade
<1>6. ASSUME NEW j \in Jobs, Abort(j)
      PROVE  RestOK'
  BY <1>1, <1>3, <1>6 DEF Abort, RestOK
<1>7. ASSUME NEW j \in Jobs, Execute(j)
      PROVE  RestOK'
  <2>1. CASE Begin(j)
    <3>1. faults' \in 0 .. MaxFaults /\ abort' \subseteq Jobs
      BY <1>1, <1>3, <1>4, <2>1 DEF Begin, RestOK
    <3> QED
      BY <1>1, <2>1, <3>1 DEF Begin, RestOK
  <2>2. CASE PersistLeaseIntent(j)
    BY <1>1, <1>2, <2>2 DEF PersistLeaseIntent, RestOK
  <2>3. CASE AcquireTakesEffect(j)
    <3>1. held' \in [Components -> SUBSET Jobs]
      BY <1>1, <2>3 DEF AcquireTakesEffect, RestOK
    <3> QED
      BY <1>1, <2>3, <3>1 DEF AcquireTakesEffect, RestOK
  <2>4. CASE AcquireAnswered(j) \/ Proceed(j)
    BY <1>1, <2>4 DEF AcquireAnswered, Proceed, RestOK
  <2>5. CASE BeginMutation(j)
    <3>1. faults' \in 0 .. MaxFaults /\ unsettled' \subseteq Jobs
      BY <1>1, <1>2, <1>3, <2>5 DEF BeginMutation, RecordRecovery, RestOK
    <3> QED
      BY <1>1, <2>5, <3>1 DEF BeginMutation, RestOK
  <2>6. CASE HealPartition(j)
    BY <1>1, <2>6 DEF HealPartition, RestOK
  <2>7. CASE ExecutionEnds(j)
    BY <1>1, <2>7 DEF ExecutionEnds, RestOK
  <2>8. CASE FinishCleanup(j)
    <3>1. faults' \in 0 .. MaxFaults /\ abort' \subseteq Jobs
      BY <1>4, <2>8 DEF FinishCleanup
    <3> QED
      BY <1>1, <2>8, <3>1 DEF FinishCleanup, RestOK
  <2> QED
    BY <1>7, <2>1, <2>2, <2>3, <2>4, <2>5, <2>6, <2>7, <2>8 DEF Execute
<1>8. ASSUME NEW j \in Jobs, Recover(j)
      PROVE  RestOK'
  <2>1. CASE ReleaseNetwork(j)
    BY <1>1, <2>1 DEF ReleaseNetwork, RestOK
  <2>2. CASE Heal(j) \/ RecoverChain(j) \/ VerifyFails(j)
    BY <1>1, <2>2 DEF Heal, RecoverChain, VerifyFails, RestOK
  <2>3. CASE HealFails(j)
    BY <1>1, <1>2, <2>3 DEF HealFails, RestOK
  <2>4. ASSUME NEW w \in Workers, EnsureRecoveryLease(j, w)
        PROVE  RestOK'
    <3>1. Forget(w, j) \in 0 .. RequestLimit
      BY <1>1 DEF Forget, RestOK
    <3>2. /\ held' \in [Components -> SUBSET Jobs]
          /\ remembered' \in [Workers -> [Jobs -> 0 .. RequestLimit]]
      BY <1>1, <2>4, <3>1 DEF EnsureRecoveryLease, RestOK
    <3> QED
      BY <1>1, <2>4, <3>2 DEF EnsureRecoveryLease, RestOK
  <2>5. ASSUME NEW w \in Workers, CleanupRelease(j, w)
        PROVE  RestOK'
    BY <1>1, <2>5 DEF CleanupRelease, RestOK
  <2>6. ASSUME NEW w \in Workers, RecoveryRelease(j, w)
        PROVE  RestOK'
    <3>1. /\ held' \in [Components -> SUBSET Jobs]
          /\ remembered' \in [Workers -> [Jobs -> 0 .. RequestLimit]]
      <4>1. CASE j \in held[w] /\ remembered[w][j] = 0
        <5>1. /\ held' = [held EXCEPT ![w] = @ \ {j}]
              /\ remembered' = [remembered EXCEPT ![w][j] = RequestLimit]
          BY <2>6, <4>1 DEF RecoveryRelease
        <5>2. RequestLimit \in 0 .. RequestLimit
          BY <1>1
        <5> QED
          BY <1>1, <5>1, <5>2 DEF RestOK
      <4>2. CASE ~(j \in held[w] /\ remembered[w][j] = 0)
        BY <1>1, <2>6, <4>2 DEF RecoveryRelease, RestOK
      <4> QED
        BY <4>1, <4>2
    <3> QED
      BY <1>1, <2>6, <3>1 DEF RecoveryRelease, RestOK
  <2>7. CASE RecoveryComplete(j)
    BY <1>1, <1>3, <2>7 DEF RecoveryComplete, RestOK
  <2> QED
    BY <1>8, <2>1, <2>2, <2>3, <2>4, <2>5, <2>6, <2>7 DEF Recover
<1>9. ASSUME NEW j \in Jobs, Fail(j)
      PROVE  RestOK'
  <2>1. CASE FailBeforeThread(j) \/ HandleExecutorPanic(j)
    <3>1. faults' \in 0 .. MaxFaults /\ abort' \subseteq Jobs
      BY <1>4, <2>1 DEF FailBeforeThread, HandleExecutorPanic
    <3> QED
      BY <1>1, <2>1, <3>1 DEF FailBeforeThread, HandleExecutorPanic, RestOK
  <2>2. CASE ValidationFails(j) \/ AcquireFails(j) \/ RenewerFails(j)
    BY <1>1, <1>2, <2>2 DEF ValidationFails, AcquireFails, RenewerFails, RestOK
  <2>3. CASE RenewalFails(j)
    BY <1>1, <1>2, <2>3 DEF RenewalFails, RestOK
  <2>4. CASE ExecutionFails(j)
    BY <1>1, <1>2, <2>4 DEF ExecutionFails, RestOK
  <2>5. ASSUME NEW s, CallFails(j, s)
        PROVE  RestOK'
    BY <1>1, <1>2, <2>5 DEF CallFails, RestOK
  <2>6. ASSUME NEW c \in Components, LeaseExpires(j, c)
        PROVE  RestOK'
    BY <1>1, <1>2, <2>6 DEF LeaseExpires, RestOK
  <2> QED
    BY <1>9, <2>1, <2>2, <2>3, <2>4, <2>5, <2>6 DEF Fail
<1>10. ASSUME NEW w \in Workers, WorkerRestarts(w)
       PROVE  RestOK'
  <2>1. /\ held' \in [Components -> SUBSET Jobs] /\ lost' \subseteq Jobs
        /\ remembered' \in [Workers -> [Jobs -> 0 .. RequestLimit]]
    BY <1>1, <1>10 DEF WorkerRestarts, RestOK
  <2> QED
    BY <1>1, <1>2, <1>10, <2>1 DEF WorkerRestarts, RestOK
<1>11. CASE Restart
  BY <1>1, <1>2, <1>11 DEF Restart, RestOK
<1> QED
  BY <1>5, <1>6, <1>7, <1>8, <1>9, <1>10, <1>11 DEF Next

(***************************************************************************)
(* The invariant holds.                                                    *)
(***************************************************************************)
\* A step is one of a job, or a worker or the control plane starts anew.
LEMMA NextCases ==
  ASSUME JobInv, Next
  PROVE  \/ \E j \in Jobs : StepOK(j)
         \/ \E w \in Workers : WorkerRestarts(w)
         \/ Restart
<1>1. ASSUME NEW j \in Jobs, NEW r \in Requests, Start(j, r)
      PROVE  StepOK(j)
  <2>1. CASE ReserveUnsaved(j, r)
    BY <2>1, AdmitStep DEF ReserveUnsaved
  <2>2. CASE ReserveActionJob(j, r)
    BY <2>2, AdmitStep DEF ReserveActionJob
  <2> QED
    BY <1>1, <2>1, <2>2 DEF Start, StartReorg, StartRewind, StartMine, StartSpamBurst,
      StartSpamPrepare, StartPartition, StartDegrade
<1>2. ASSUME NEW j \in Jobs, Execute(j)
      PROVE  StepOK(j)
  BY <1>2, BeginStep, IntentStep, AcquireStep, AnsweredStep, ProceedStep, MutationStep,
     HealPartitionStep, EndSteps, FinishSteps DEF Execute
<1>3. ASSUME NEW j \in Jobs, Recover(j)
      PROVE  StepOK(j)
  <2>1. CASE HealFails(j)
    BY <2>1, FailStep DEF HealFails
  <2>2. CASE VerifyFails(j)
    BY <2>2, RoundStarts DEF VerifyFails, Working, At
  <2> QED
    BY <1>3, <2>1, <2>2, ReleaseNetworkStep, HealStep, RecoverChainStep, EnsureStep,
       ReleaseStep, CompleteStep DEF Recover
<1>4. ASSUME NEW j \in Jobs, Fail(j)
      PROVE  StepOK(j)
  <2>1. ASSUME NEW s, CallFails(j, s)
        PROVE  StepOK(j)
    BY <2>1, FailStep DEF CallFails
  <2> QED
    BY <1>4, <2>1, FinishSteps, EndSteps, RenewalStep, ExpireStep DEF Fail
<1> QED
  BY <1>1, <1>2, <1>3, <1>4, AbortStep DEF Next

\* Every step keeps the invariant.
LEMMA JobStep == JobInv /\ [Next]_vars => JobInv'
<1> SUFFICES ASSUME JobInv, [Next]_vars PROVE JobInv'
  OBVIOUS
<1>1. CASE UNCHANGED vars
  <2>1. \A k \in Jobs : Holds(k)' = Holds(k)
    BY <1>1 DEF vars, Holds
  <2>2. \A k \in Jobs : Own(k)'
    BY <1>1, <2>1 DEF vars, JobInv, Own
  <2>3. TypeOK'
    BY <1>1 DEF vars, JobInv, TypeOK
  <2>4. Lanes(mem)' /\ Lanes(disk)'
    BY <1>1 DEF vars, JobInv, Lanes
  <2> QED
    BY <2>2, <2>3, <2>4 DEF JobInv
<1>2. CASE Next
  <2>1. RestOK'
    BY <1>2, RestStep
  <2>2. ASSUME NEW j \in Jobs, StepOK(j)
        PROVE  JobInv'
    <3>1. /\ disk' \in Tables /\ Lanes(mem)' /\ Lanes(disk)' /\ \A k \in Jobs : Own(k)'
          /\ mem' \in Tables /\ thread' \in [Jobs -> Threads]
      BY <2>2, StepKeeps DEF StepOK
    <3> QED
      BY <2>1, <3>1 DEF JobInv, TypeOK, RestOK
  <2>3. ASSUME NEW w \in Workers, WorkerRestarts(w)
        PROVE  JobInv'
    <3>1. Lanes(mem)' /\ Lanes(disk)' /\ \A k \in Jobs : Own(k)'
      BY <2>3, WorkerRestartStep
    <3>2. mem' \in Tables /\ disk' \in Tables /\ thread' \in [Jobs -> Threads]
      BY <2>3 DEF WorkerRestarts, JobInv, TypeOK
    <3> QED
      BY <2>1, <3>1, <3>2 DEF JobInv, TypeOK, RestOK
  <2>4. CASE Restart
    BY <2>1, <2>4, RestartStep DEF JobInv, TypeOK, RestOK
  <2> QED
    BY <1>2, <2>2, <2>3, <2>4, NextCases
<1> QED
  BY <1>1, <1>2

\* It holds when the control plane starts for the first time.
LEMMA JobInit == Init => JobInv
<1> SUFFICES ASSUME Init PROVE JobInv
  OBVIOUS
<1>1. NoJob \in JobRecords /\ NoJob.state = "none" /\ NoJob.intents = {}
  BY DEF NoJob, JobRecords, JobStates
<1>2. /\ mem.lane = None /\ mem.degraded = [n \in Nodes |-> None]
      /\ mem.job = [j \in Jobs |-> NoJob] /\ disk = mem
  BY DEF Init
<1>3. mem \in Tables
  BY <1>1 DEF Init, Tables
<1>4. TypeOK
  BY <1>2, <1>3, IdleFacts, JobConstants DEF Init, TypeOK
<1>5. Lanes(mem) /\ Active(mem) = {}
  BY <1>2, JobConstants DEF Lanes, Active
<1>6. ASSUME NEW j \in Jobs
      PROVE  Own(j)
  <2>1. /\ thread[j] = Idle /\ Holds(j) = {} /\ j \notin unsettled
    BY DEF Init, Holds
  <2>2. mem.job[j].intents = {} /\ mem.job[j].state = "none"
    BY <1>1, <1>2
  <2>3. Knows(j, thread[j], mem, Holds(j), unsettled)
    BY <1>5, <2>1, <2>2, IdleFacts DEF Knows
  <2>4. Runs(j, thread[j], mem.job[j], Holds(j), unsettled, lost)
    BY <2>1, IdleFacts DEF Runs, Leasing, Cleaning, Executing
  <2>5. Saved(j, mem, disk)
    BY <1>2, <2>2 DEF Saved, Terminal
  <2> QED
    BY <1>2, <2>3, <2>4, <2>5 DEF Own
<1> QED
  BY <1>2, <1>4, <1>5, <1>6 DEF JobInv

\* The inductive invariant: both tables know what every job has out there,
\* and every thread has before it what its job still has to give back.
THEOREM JobInvHolds == Spec => []JobInv
<1>1. Init => JobInv
  BY JobInit
<1>2. JobInv /\ [Next]_vars => JobInv'
  BY JobStep
<1> QED
  BY <1>1, <1>2, PTL DEF Spec

\* The tables, threads and leases are of their types, and a reorg or a rewind
\* that may have left the nodes apart holds both workers, unless it lost one.
THEOREM WorkersHeldThroughMutation == Spec => []LaneInvariant
<1>1. JobInv => LaneInvariant
  <2> SUFFICES ASSUME JobInv, NEW j \in unsettled \ lost, Kind(j) \in {"reorg", "rewind"}
               PROVE  TypeOK /\ \A w \in Workers : j \in held[w]
    BY DEF LaneInvariant, LeasesCoverMutation, JobInv
  <2>1. j \in Jobs /\ TypeOK
    BY DEF JobInv, TypeOK
  <2>2. Workers \subseteq Holds(j)
    BY <2>1 DEF JobInv, Own, Runs, Kind
  <2> QED
    BY <2>1, <2>2 DEF Holds
<1> QED
  BY <1>1, JobInvHolds, PTL

\* A restart finds in the saved table every lease that is out there and what
\* the recovery of every unsettled chain goes by.
THEOREM SavedTableSuffices == Spec => []RecoveryInvariant
<1>1. JobInv => RecoveryInvariant
  <2> SUFFICES ASSUME JobInv PROVE RecoveryInvariant
    OBVIOUS
  <2>1. \A j \in Jobs : Knows(j, thread[j], disk, Holds(j), unsettled)
    BY DEF JobInv, Own
  <2>2. ASSUME NEW c \in Components, NEW j \in held[c]
        PROVE  j \in Active(disk) /\ c \in disk.job[j].intents
    <3>1. j \in Jobs /\ c \in Holds(j)
      BY DEF JobInv, TypeOK, Holds
    <3> QED
      BY <2>1, <3>1 DEF Knows
  <2>3. ASSUME NEW j \in unsettled
        PROVE  j \in Active(disk) /\ Traced(disk.job[j])
    <3>1. j \in Jobs
      BY DEF JobInv, TypeOK
    <3> QED
      BY <2>1, <3>1 DEF Knows
  <2>4. HeldLeasesRecoverable
    BY <2>2 DEF HeldLeasesRecoverable
  <2>5. UnsettledChainRecorded
    BY <2>3 DEF UnsettledChainRecorded, Traced
  <2> QED
    BY <2>4, <2>5 DEF RecoveryInvariant
<1> QED
  BY <1>1, JobInvHolds, PTL

\* Jobs that touch the system at the same time are a degradation and a mine
\* job, or degradations of different nodes.
THEOREM NoConflictingOverlap == Spec => []ConflictingJobsNeverOverlap
<1>1. JobInv => ConflictingJobsNeverOverlap
  <2> SUFFICES ASSUME JobInv, NEW j \in Footprint, NEW k \in Footprint \ {j}
               PROVE  \/ {Kind(j), Kind(k)} = {"mine", "degrade"}
                      \/ Kind(j) = "degrade" /\ Kind(k) = "degrade" /\ Node(j) # Node(k)
    BY DEF ConflictingJobsNeverOverlap
  <2>1. ASSUME NEW x \in Footprint
        PROVE  /\ x \in Active(mem) /\ x \in Jobs
               /\ mem.lane = x \/ \E n \in Nodes : mem.degraded[n] = x
    <3>1. x \in Jobs /\ (x \in unsettled \/ Holds(x) # {})
      BY DEF Footprint, JobInv, TypeOK, Holds
    <3>2. x \in Active(mem)
      BY <3>1 DEF JobInv, Own, Knows
    <3> QED
      BY <3>1, <3>2 DEF Active
  <2>2. Lanes(mem) /\ None \notin Jobs
    BY JobConstants DEF JobInv
  <2>3. CASE mem.lane = j
    <3>1. PICK n \in Nodes : mem.degraded[n] = k
      BY <2>1, <2>3
    <3> QED
      BY <2>1, <2>2, <2>3, <3>1 DEF Lanes, Kind
  <2>4. CASE mem.lane = k
    <3>1. PICK n \in Nodes : mem.degraded[n] = j
      BY <2>1, <2>4
    <3> QED
      BY <2>1, <2>2, <2>4, <3>1 DEF Lanes, Kind
  <2>5. CASE mem.lane # j /\ mem.lane # k
    <3>1. PICK n \in Nodes : mem.degraded[n] = j
      BY <2>1, <2>5
    <3>2. PICK p \in Nodes : mem.degraded[p] = k
      BY <2>1, <2>5
    <3> QED
      BY <2>1, <2>2, <3>1, <3>2 DEF Lanes, Kind, Node
  <2> QED
    BY <2>3, <2>4, <2>5
<1> QED
  BY <1>1, JobInvHolds, PTL

\* A saved outcome is not taken back, by a restart or by a recovery.
THEOREM OutcomesAreFinal == Spec => DurableOutcomeIsFinal
<1> DEFINE Kept == \A j \in Jobs : disk.job[j].state \in Terminal =>
                     disk'.job[j].state \in {disk.job[j].state, "trimmed"}
<1>1. JobInv /\ [Next]_vars => [Kept]_vars
  <2> SUFFICES ASSUME JobInv, Next PROVE Kept
    OBVIOUS
  <2>1. ASSUME NEW j \in Jobs, StepOK(j)
        PROVE  Kept
    <3>1. CASE disk' = disk
      BY <3>1
    <3>2. CASE disk' = mem'
      <4> SUFFICES ASSUME NEW k \in Jobs, disk.job[k].state \in Terminal
                   PROVE  mem'.job[k].state \in {disk.job[k].state, "trimmed"}
        BY <3>2
      <4>1. mem.job[k].state \in {disk.job[k].state, "trimmed"}
        BY DEF JobInv, Own, Saved
      <4>2. CASE k = j
        BY <2>1, <4>1, <4>2 DEF StepOK, Final
      <4>3. CASE k # j
        <5>1. mem'.job[k] = mem.job[k] \/ mem'.job[k] = [NoJob EXCEPT !.state = "trimmed"]
          BY <2>1, <4>3 DEF StepOK, Others
        <5>2. [NoJob EXCEPT !.state = "trimmed"].state = "trimmed"
          BY DEF NoJob
        <5> QED
          BY <4>1, <5>1, <5>2
      <4> QED
        BY <4>2, <4>3
    <3> QED
      BY <2>1, <3>1, <3>2 DEF StepOK
  <2>2. ASSUME NEW w \in Workers, WorkerRestarts(w)
        PROVE  Kept
    BY <2>2 DEF WorkerRestarts
  <2>3. CASE Restart
    BY <2>3, RestartStep
  <2> QED
    BY <2>1, <2>2, <2>3, NextCases
<1> QED
  BY <1>1, JobInvHolds, PTL DEF Spec, DurableOutcomeIsFinal
=============================================================================
