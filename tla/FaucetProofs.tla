---------------------------- MODULE FaucetProofs ----------------------------
(***************************************************************************)
(* Theorems about a faucet transfer, for all wallets, amounts and reserves *)
(* and any number of failures, restarts and reorganisations.               *)
(***************************************************************************)
EXTENDS Faucet, SequenceTheorems, TLAPS

(***************************************************************************)
(* The inductive invariant.                                                *)
(***************************************************************************)
Records ==
  [state : JobStates, active : BOOLEAN, source : Miners \cup {"none"},
   coins : Seq(Nat), raw : BOOLEAN, submitted : SUBSET Miners]

\* Places of run_faucet_job alone, of arm_prepared, and of the recovery alone.
JobPlaces == {"preflight", "lease", "select", "lock", "prepare", "armed",
              "unprioritise", "release", "settle", "finish"}
ArmingPlaces == {"prioritise2", "prioritise3", "test", "submit2", "submit3",
                 "verify", "arm"}
RecoveryPlaces == {"confirmed?", "inputs?", "succeed", "recovered"}

JobTypes == job \in Records /\ jdisk \in Records

ControlTypes ==
  /\ at \in {"idle"} \cup JobPlaces \cup ArmingPlaces \cup RecoveryPlaces
  /\ run \in [outcome : {"ok", "error", "succeeded", "failed", "aborted"},
              errors : BOOLEAN, recovers : BOOLEAN]
  /\ abort \in BOOLEAN
  /\ ledger \in LedgerStates /\ ldisk \in LedgerStates
  /\ guard \in {"poll", "verify", "recover", "inputs?", "rearm2", "rearm3",
                "reverify", "undo", "mark"}

NodeTypes ==
  /\ funds \in Funds
  /\ pool \subseteq Miners /\ prio \subseteq Miners /\ mined \subseteq Nodes
  /\ lease \subseteq {"job", "guard"}
  /\ locked \in BOOLEAN /\ conflict \in BOOLEAN /\ upset \in BOOLEAN
  /\ pool \cap mined = {} /\ faults \in 0 .. MaxFaults

Types == JobTypes /\ ControlTypes /\ NodeTypes

\* The record has no recovery material.
Blank(j) == j.coins = <<>> /\ ~j.raw

\* Where the job's thread is, and what memory and file say of the job then.
Progress ==
  /\ at = "idle" <=> ~job.active
  /\ at \in {"idle"} \cup JobPlaces => ~run.recovers
  /\ at \in RecoveryPlaces => run.recovers
  /\ run.recovers => ~abort /\ job.state # "running"
  /\ at # "idle" => jdisk.active
  /\ at # "idle" /\ ~run.recovers
       => job.state = "running" /\ jdisk.state = "running"
  /\ jdisk.state = "running" => jdisk.active
  /\ job.state = "none" => at = "idle" /\ Blank(job)
  /\ jdisk.state = "none" => ~jdisk.active /\ Blank(jdisk)
  /\ at \in {"preflight", "lease"} => Blank(job)
  /\ job.raw => job.coins # <<>>
  /\ jdisk.raw => jdisk.coins # <<>>
  /\ at \in {"lock", "prepare"} => job.coins # <<>>
  /\ at \in ArmingPlaces \cup {"inputs?"} => job.raw
  /\ at # "finish" => run.outcome \in {"ok", "error"}
  /\ at = "finish" => run.outcome \in {"succeeded", "failed", "aborted"}
  /\ jdisk.state = "aborted" => /\ job.raw => jdisk.raw
                                /\ job.coins # <<>> => jdisk.coins # <<>>

\* Selected coins pay for the transfer and leave the reserve, in the file too.
Covered(j) ==
  j.coins # <<>> =>
    /\ Total(j.coins) >= Amount + MinChange
    /\ Total(funds[j.source]) - Total(j.coins) >= Reserve
Covers == Covered(job) /\ Covered(jdisk)

\* Both miners were verified, and nothing but a loss or a block came after:
\* so it stays from the verification to the end of the job and beyond.
Secured == upset \/ mined # {} \/ VerifyMiners
SecuredWhen ==
  /\ conflict => upset
  /\ \/ at \in {"arm", "armed", "succeed"}
     \/ at = "unprioritise" /\ run.outcome = "ok"
     \/ at \in {"release", "settle"} /\ run.outcome = "ok" /\ ~abort
     \/ at = "finish" /\ run.outcome = "succeeded"
     \/ job.state = "succeeded" \/ jdisk.state = "succeeded"
     => Secured

\* What is locked or preferred is found by the recovery material or by the
\* ledger; a job that ends aborted without an error has left nothing behind,
\* or the ledger has the transfer.
Traceless == ~locked /\ prio = {}
InLedger == ldisk # "none"
Findable(j) == /\ prio # {} => j.raw \/ InLedger
               /\ locked => j.coins # <<>>
Tidy ==
  /\ InLedger => ledger # "none"
  /\ guard \in {"inputs?", "rearm2", "rearm3"} => InLedger
  /\ job.state \in {"none", "running", "aborted"} => Findable(job)
  /\ jdisk.state \in {"none", "aborted"} => Findable(jdisk)
  /\ at = "armed" \/ (at = "unprioritise" /\ run.outcome = "ok") => InLedger
  /\ \/ at \in {"release", "settle", "finish"} /\ ~run.errors
     \/ at = "recovered" /\ job.state = "aborted"
     \/ job.state = "aborted" /\ ~job.active
     \/ jdisk.state = "aborted" /\ ~jdisk.active
     => Traceless \/ InLedger

FaucetInv == Types /\ Progress /\ Covers /\ SecuredWhen /\ Tidy

(***************************************************************************)
(* What the steps are made of.                                             *)
(***************************************************************************)
\* A failure uses up one of the faults that are left.
LEMMA FaultsCount ==
  ASSUME NodeTypes, Fault \/ NoFault
  PROVE  faults' \in 0 .. MaxFaults
BY FaucetConstants DEF NodeTypes, Fault, NoFault

\* A save that may fail changes memory, and the file or nothing else.
LEMMA Saving ==
  ASSUME NodeTypes, NEW j, SaveBestEffort(j)
  PROVE  /\ job' = j /\ (jdisk' = j \/ jdisk' = jdisk)
         /\ faults' \in 0 .. MaxFaults
BY FaultsCount DEF SaveBestEffort, Save, Unsaved

\* update_faucet_context goes on, or ends execution or recovery round with an
\* error, and then the file is as it was.
LEMMA Updating ==
  ASSUME NodeTypes, NEW j, NEW next, UpdateContext(j, next)
  PROVE  /\ job' = j /\ faults' \in 0 .. MaxFaults
         /\ \/ jdisk' = j /\ at' = next /\ run' = run
            \/ jdisk' = jdisk /\ run.recovers /\ at' = "confirmed?" /\ run' = run
            \/ /\ jdisk' = jdisk /\ ~run.recovers /\ at' = "unprioritise"
               /\ run' = [run EXCEPT !.outcome = "error"]
BY FaultsCount DEF UpdateContext, Save, Unsaved, Error, Go

\* A step that leaves the job's records alone keeps what is about them only.
LEMMA RecordsUntouched ==
  ASSUME FaucetInv, UNCHANGED <<job, jdisk, funds>>
  PROVE  JobTypes' /\ Covers'
BY DEF FaucetInv, Types, JobTypes, Covers, Covered

\* A step of the guard or of the nodes keeps what is about the job only.
LEMMA JobUntouched ==
  ASSUME FaucetInv, UNCHANGED <<jobVars, funds>>
  PROVE  JobTypes' /\ Progress' /\ Covers'
BY RecordsUntouched DEF FaucetInv, Progress, Blank, jobVars

\* finish_job before the transfer has begun: nothing was selected or locked.
LEMMA EndsEarly ==
  ASSUME FaucetInv, at \in {"preflight", "lease"},
         NEW s \in {"aborted", "failed"}, FinishJob(s, FALSE),
         lease' \subseteq {"job", "guard"},
         UNCHANGED <<funds, ledgerVars, nodeVars, guard>>
  PROVE  FaucetInv'
<1> USE DEF FaucetInv, Types, ledgerVars, nodeVars
<1> DEFINE j == [job EXCEPT !.state = s, !.active = FALSE]
<1>1. /\ at' = "idle" /\ abort' = FALSE
      /\ run' = [outcome |-> "ok", errors |-> FALSE, recovers |-> FALSE]
      /\ job' = j /\ (jdisk' = j \/ jdisk' = jdisk) /\ faults' \in 0 .. MaxFaults
  BY Saving DEF FinishJob, Go
<1>2. j \in Records /\ j.state = s /\ ~j.active /\ Blank(j) /\ job.source = j.source
  BY DEF JobTypes, Records, JobStates, Progress, Blank
<1> HIDE DEF j
<1>3. JobTypes'
  BY <1>1, <1>2 DEF JobTypes
<1>4. ControlTypes'
  BY <1>1 DEF ControlTypes
<1>5. NodeTypes'
  BY <1>1 DEF NodeTypes
<1>6. Progress'
  BY <1>1, <1>2 DEF Progress, Blank, JobPlaces, ArmingPlaces, RecoveryPlaces
<1>7. Covers'
  BY <1>1, <1>2 DEF Covers, Covered, Blank
<1>8. SecuredWhen'
  BY <1>1, <1>2 DEF SecuredWhen, Secured, VerifyMiners, Armed, Progress
<1>9. Tidy'
  BY <1>1, <1>2
     DEF Tidy, Traceless, InLedger, Findable, Progress, Blank, JobPlaces
<1> QED  BY <1>3, <1>4, <1>5, <1>6, <1>7, <1>8, <1>9

\* select_inputs returns a first part of the coins that pays for the transfer
\* and leaves the reserve.
LEMMA SelectedInputs ==
  ASSUME NEW f \in Seq(Nat), NEW coins \in SelectInputs(f)
  PROVE  /\ coins \in Seq(Nat) /\ coins # <<>>
         /\ Total(coins) >= Amount + MinChange
         /\ Total(f) - Total(coins) >= Reserve
<1>1. PICK k \in 1 .. Len(f) :
        /\ coins = SubSeq(f, 1, k)
        /\ Total(SubSeq(f, 1, k)) >= Amount + MinChange
        /\ Total(f) - Total(SubSeq(f, 1, k)) >= Reserve
  BY DEF SelectInputs
<1>2. Len(f) \in Nat /\ \A i \in 1 .. k : f[i] \in Nat
  BY LenProperties, ElementOfSeq
<1>3. 1 \in Int /\ k \in Int /\ 1 <= k
  BY <1>2
<1>4. /\ SubSeq(f, 1, k) \in Seq(Nat)
      /\ Len(SubSeq(f, 1, k)) = IF 1 <= k THEN k - 1 + 1 ELSE 0
  BY ONLY <1>2, <1>3, SubSeqProperties
<1>5. Len(coins) = k /\ k # 0
  BY <1>1, <1>3, <1>4
<1> QED  BY <1>1, <1>4, <1>5, EmptySeq

(***************************************************************************)
(* The steps.                                                              *)
(***************************************************************************)
\* start_faucet, and run_faucet_job up to its mining lease.
LEMMA Starting ==
  ASSUME FaucetInv,
         StartFaucet \/ Preflight \/ AcquireLease \/ AcquireLeaseFails,
         UNCHANGED <<guard, funds>>
  PROVE  FaucetInv'
<1> USE DEF FaucetInv, Types, jobVars, nodeVars, ledgerVars, Go, Watch,
             Fault, NoFault
<1>1. CASE StartFaucet
  <2>1. JobTypes'
    BY <1>1 DEF StartFaucet, Save, JobTypes, Records, JobStates
  <2>2. ControlTypes'
    BY <1>1 DEF StartFaucet, ControlTypes, JobPlaces
  <2>3. NodeTypes'
    BY <1>1 DEF StartFaucet, Save, NodeTypes
  <2>4. Progress'
    BY <1>1 DEF StartFaucet, Save, Progress, ArmingPlaces, RecoveryPlaces,
         Blank
  <2>5. Covers'
    BY <1>1 DEF StartFaucet, Save, Covers, Covered
  <2>6. SecuredWhen'
    BY <1>1 DEF StartFaucet, Save, SecuredWhen
  <2>7. Tidy'
    BY <1>1 DEF StartFaucet, Save, Tidy, Traceless, InLedger, Findable
  <2> QED  BY <2>1, <2>2, <2>3, <2>4, <2>5, <2>6, <2>7
<1>2. CASE Preflight
  <2>1. CASE \E s \in {"aborted", "failed"} : FinishJob(s, FALSE)
    BY <1>2, <2>1, EndsEarly DEF Preflight, NodeTypes
  <2>2. CASE at' = "lease" /\ UNCHANGED <<job, jdisk, run, abort, faults>>
    <3> USE <1>2, <2>2 DEF Preflight
    <3>1. JobTypes' /\ Covers'
      BY RecordsUntouched
    <3>2. ControlTypes'
      BY DEF ControlTypes, JobPlaces
    <3>3. NodeTypes'
      BY DEF NodeTypes
    <3>4. Progress'
      BY DEF Progress, Blank, JobPlaces, ArmingPlaces, RecoveryPlaces
    <3>5. SecuredWhen'
      BY DEF SecuredWhen, Secured, VerifyMiners, Armed
    <3>6. Tidy'
      BY DEF Tidy, Traceless, InLedger, Findable
    <3> QED  BY <3>1, <3>2, <3>3, <3>4, <3>5, <3>6
  <2> QED  BY <1>2, <2>1, <2>2 DEF Preflight
<1>3. CASE AcquireLease
  <2>1. JobTypes' /\ Covers'
    BY <1>3, RecordsUntouched DEF AcquireLease
  <2>2. ControlTypes'
    BY <1>3 DEF AcquireLease, ControlTypes, JobPlaces
  <2>3. NodeTypes'
    BY <1>3 DEF AcquireLease, NodeTypes
  <2>4. Progress'
    BY <1>3 DEF AcquireLease, ControlTypes, Progress, ArmingPlaces,
         RecoveryPlaces
  <2>5. SecuredWhen'
    BY <1>3 DEF AcquireLease, SecuredWhen, Secured, VerifyMiners, Armed
  <2>6. Tidy'
    BY <1>3 DEF AcquireLease, Tidy, Traceless, InLedger, Findable
  <2> QED  BY <2>1, <2>2, <2>3, <2>4, <2>5, <2>6
<1>4. CASE AcquireLeaseFails
  BY <1>4, EndsEarly DEF AcquireLeaseFails, NodeTypes
<1> QED  BY <1>1, <1>2, <1>3, <1>4

\* execute_faucet up to the signed transaction.
LEMMA Executing ==
  ASSUME FaucetInv,
         \/ Aborted \/ Select \/ InsufficientFunds \/ LockInputs
         \/ PrepareTransaction \/ ExecutorFails,
         UNCHANGED <<guard, funds>>
  PROVE  FaucetInv'
<1> USE DEF FaucetInv, Types, jobVars, nodeVars, ledgerVars, Go, Watch,
             Fault, NoFault
<1>1. CASE Aborted
  <2>1. JobTypes' /\ Covers'
    BY <1>1, RecordsUntouched DEF Aborted
  <2>2. ControlTypes'
    BY <1>1 DEF Aborted, Error, ControlTypes, JobPlaces
  <2>3. NodeTypes'
    BY <1>1 DEF Aborted, NodeTypes
  <2>4. Progress'
    BY <1>1 DEF Aborted, Error, ControlTypes, Progress, ArmingPlaces,
         RecoveryPlaces
  <2>5. SecuredWhen'
    BY <1>1 DEF Aborted, Error, ControlTypes, SecuredWhen, Secured,
         VerifyMiners, Armed
  <2>6. Tidy'
    BY <1>1 DEF Aborted, Error, ControlTypes, Tidy, Traceless, InLedger,
         Findable
  <2> QED  BY <2>1, <2>2, <2>3, <2>4, <2>5, <2>6
<1>2. CASE Select
  <2>1. PICK s \in ChooseFaucetSource(funds) :
          \E coins \in SelectInputs(funds[s]) :
            UpdateContext([job EXCEPT !.source = s, !.coins = coins], "lock")
    BY <1>2 DEF Select
  <2>2. PICK coins \in SelectInputs(funds[s]) :
          UpdateContext([job EXCEPT !.source = s, !.coins = coins], "lock")
    BY <2>1
  <2>3. s \in Miners /\ funds[s] \in Seq(Nat)
    BY FaucetConstants DEF ChooseFaucetSource, NodeTypes, Miners
  <2>4. /\ coins \in Seq(Nat) /\ coins # <<>>
        /\ Total(coins) >= Amount + MinChange
        /\ Total(funds[s]) - Total(coins) >= Reserve
    BY <2>2, <2>3, SelectedInputs
  <2> DEFINE j == [job EXCEPT !.source = s, !.coins = coins]
  <2>5. /\ job' = j /\ faults' \in 0 .. MaxFaults
        /\ \/ jdisk' = j /\ at' = "lock" /\ run' = run
           \/ /\ jdisk' = jdisk /\ run.recovers
              /\ at' = "confirmed?" /\ run' = run
           \/ /\ jdisk' = jdisk /\ ~run.recovers /\ at' = "unprioritise"
              /\ run' = [run EXCEPT !.outcome = "error"]
    BY <2>2, Updating
  <2>6. /\ j \in Records /\ j.state = job.state /\ j.active = job.active
        /\ j.raw = job.raw /\ j.coins = coins /\ j.source = s
    BY <2>3, <2>4 DEF JobTypes, Records
  <2> HIDE DEF j
  <2>7. JobTypes'
    BY <1>2, <2>4, <2>5, <2>6 DEF Select, JobTypes
  <2>8. ControlTypes'
    BY <1>2, <2>4, <2>5, <2>6
       DEF Select, ControlTypes, JobPlaces, ArmingPlaces,
         RecoveryPlaces
  <2>9. NodeTypes'
    BY <1>2, <2>4, <2>5, <2>6 DEF Select, NodeTypes
  <2>10. Progress'
    BY <1>2, <2>4, <2>5, <2>6
       DEF Select, Progress, Blank, ControlTypes, JobPlaces,
         ArmingPlaces, RecoveryPlaces
  <2>11. Covers'
    BY <1>2, <2>4, <2>5, <2>6 DEF Select, Covers, Covered
  <2>12. SecuredWhen'
    BY <1>2, <2>4, <2>5, <2>6
       DEF Select, SecuredWhen, Secured, VerifyMiners, Armed,
         Progress, ControlTypes, JobPlaces, ArmingPlaces, RecoveryPlaces
  <2>13. Tidy'
    BY <1>2, <2>4, <2>5, <2>6 DEF Select, Tidy, Traceless, InLedger, Findable,
         Progress, Blank, ControlTypes, JobPlaces, ArmingPlaces, RecoveryPlaces
  <2> QED  BY <2>7, <2>8, <2>9, <2>10, <2>11, <2>12, <2>13
<1>3. CASE InsufficientFunds
  <2>1. JobTypes' /\ Covers'
    BY <1>3, RecordsUntouched DEF InsufficientFunds
  <2>2. ControlTypes'
    BY <1>3 DEF InsufficientFunds, Error, ControlTypes, JobPlaces,
         RecoveryPlaces
  <2>3. NodeTypes'
    BY <1>3 DEF InsufficientFunds, NodeTypes
  <2>4. Progress'
    BY <1>3 DEF InsufficientFunds, Error, ControlTypes, Progress,
         ArmingPlaces, RecoveryPlaces
  <2>5. SecuredWhen'
    BY <1>3 DEF InsufficientFunds, Error, ControlTypes, SecuredWhen, Secured,
         VerifyMiners, Armed
  <2>6. Tidy'
    BY <1>3 DEF InsufficientFunds, Error, ControlTypes, Tidy, Traceless,
         InLedger, Findable
  <2> QED  BY <2>1, <2>2, <2>3, <2>4, <2>5, <2>6
<1>4. CASE LockInputs
  <2>1. JobTypes'
    BY <1>4 DEF LockInputs, UpdateContext, Save, Unsaved, JobTypes
  <2>2. ControlTypes'
    BY <1>4 DEF LockInputs, UpdateContext, Error, ControlTypes, JobPlaces,
         RecoveryPlaces
  <2>3. NodeTypes'
    BY <1>4, FaucetConstants DEF LockInputs, UpdateContext, Save, Unsaved,
         NodeTypes
  <2>4. Progress'
    BY <1>4 DEF LockInputs, UpdateContext, Save, Unsaved, Error,
         ControlTypes, Progress, ArmingPlaces, RecoveryPlaces
  <2>5. Covers'
    BY <1>4 DEF LockInputs, UpdateContext, Save, Unsaved, Covers, Covered
  <2>6. SecuredWhen'
    BY <1>4 DEF LockInputs, UpdateContext, Save, Unsaved, Error,
         ControlTypes, SecuredWhen, Secured, VerifyMiners, Armed
  <2>7. Tidy'
    BY <1>4 DEF LockInputs, UpdateContext, Save, Unsaved, Error,
         ControlTypes, Tidy, Traceless, InLedger, Findable, Progress
  <2> QED  BY <2>1, <2>2, <2>3, <2>4, <2>5, <2>6, <2>7
<1>5. CASE PrepareTransaction
  <2>1. CASE /\ at' = "unprioritise" /\ ~run.recovers
             /\ run' = [run EXCEPT !.outcome = "error"]
             /\ UNCHANGED <<job, jdisk, faults>>
    <3>1. JobTypes' /\ Covers'
      BY <2>1, RecordsUntouched
    <3>2. JobTypes'
      BY <1>5, <2>1 DEF PrepareTransaction, JobTypes
    <3>3. ControlTypes'
      BY <1>5, <2>1
         DEF PrepareTransaction, ControlTypes, JobPlaces, ArmingPlaces,
             RecoveryPlaces
    <3>4. NodeTypes'
      BY <1>5, <2>1 DEF PrepareTransaction, NodeTypes
    <3>5. Progress'
      BY <1>5, <2>1
         DEF PrepareTransaction, Progress, Blank, ControlTypes, JobPlaces,
             ArmingPlaces,
           RecoveryPlaces
    <3>6. Covers'
      BY <1>5, <2>1 DEF PrepareTransaction, Covers, Covered
    <3>7. SecuredWhen'
      BY <1>5, <2>1
         DEF PrepareTransaction, SecuredWhen, Secured, VerifyMiners, Armed,
             Progress,
           ControlTypes, JobPlaces, ArmingPlaces, RecoveryPlaces
    <3>8. Tidy'
      BY <1>5, <2>1
         DEF PrepareTransaction, Tidy, Traceless, InLedger, Findable,
             Progress, Blank,
           ControlTypes, JobPlaces, ArmingPlaces, RecoveryPlaces
    <3> QED  BY <3>2, <3>3, <3>4, <3>5, <3>6, <3>7, <3>8
  <2>2. CASE UpdateContext([job EXCEPT !.raw = TRUE], "prioritise2")
    <3> DEFINE j == [job EXCEPT !.raw = TRUE]
    <3>1. /\ job' = j /\ faults' \in 0 .. MaxFaults
          /\ \/ jdisk' = j /\ at' = "prioritise2" /\ run' = run
             \/ /\ jdisk' = jdisk /\ run.recovers
                /\ at' = "confirmed?" /\ run' = run
             \/ /\ jdisk' = jdisk /\ ~run.recovers /\ at' = "unprioritise"
                /\ run' = [run EXCEPT !.outcome = "error"]
      BY <2>2, Updating
    <3>2. /\ j \in Records /\ j.state = job.state /\ j.active = job.active
          /\ j.raw /\ j.coins = job.coins /\ j.source = job.source
      BY DEF JobTypes, Records
    <3> HIDE DEF j
    <3>3. JobTypes'
      BY <1>5, <3>1, <3>2 DEF PrepareTransaction, JobTypes
    <3>4. ControlTypes'
      BY <1>5, <3>1, <3>2
         DEF PrepareTransaction, ControlTypes, JobPlaces, ArmingPlaces,
           RecoveryPlaces
    <3>5. NodeTypes'
      BY <1>5, <3>1, <3>2 DEF PrepareTransaction, NodeTypes
    <3>6. Progress'
      BY <1>5, <3>1, <3>2
         DEF PrepareTransaction, Progress, Blank, ControlTypes, JobPlaces,
           ArmingPlaces, RecoveryPlaces
    <3>7. Covers'
      BY <1>5, <3>1, <3>2 DEF PrepareTransaction, Covers, Covered
    <3>8. SecuredWhen'
      BY <1>5, <3>1, <3>2
         DEF PrepareTransaction, SecuredWhen, Secured, VerifyMiners, Armed,
           Progress, ControlTypes, JobPlaces, ArmingPlaces, RecoveryPlaces
    <3>9. Tidy'
      BY <1>5, <3>1, <3>2
         DEF PrepareTransaction, Tidy, Traceless, InLedger, Findable,
             Progress,
           Blank, ControlTypes, JobPlaces, ArmingPlaces, RecoveryPlaces
    <3> QED  BY <3>3, <3>4, <3>5, <3>6, <3>7, <3>8, <3>9
  <2> QED  BY <1>5, <2>1, <2>2
              DEF PrepareTransaction, Error, Progress, JobPlaces
<1>6. CASE ExecutorFails
  <2>1. JobTypes' /\ Covers'
    BY <1>6, RecordsUntouched DEF ExecutorFails, StepFails
  <2>2. ControlTypes'
    BY <1>6 DEF ExecutorFails, StepFails, Error, ControlTypes, JobPlaces,
         RecoveryPlaces
  <2>3. NodeTypes'
    BY <1>6, FaucetConstants DEF ExecutorFails, StepFails, NodeTypes
  <2>4. Progress'
    BY <1>6 DEF ExecutorFails, StepFails, Error, ControlTypes, Progress,
         JobPlaces, ArmingPlaces, RecoveryPlaces
  <2>5. SecuredWhen'
    BY <1>6 DEF ExecutorFails, StepFails, Error, ControlTypes, SecuredWhen,
         Secured, VerifyMiners, Armed
  <2>6. Tidy'
    BY <1>6 DEF ExecutorFails, StepFails, Error, ControlTypes, Tidy,
         Traceless, InLedger, Findable
  <2> QED  BY <2>1, <2>2, <2>3, <2>4, <2>5, <2>6
<1> QED  BY <1>1, <1>2, <1>3, <1>4, <1>5, <1>6

\* arm_prepared for the job or its recovery, and the ledger: from the
\* verification on the transfer is secured.
LEMMA Arming ==
  ASSUME FaucetInv, ArmPrepared \/ Arm \/ ArmedInContext,
         UNCHANGED <<guard, funds>>
  PROVE  FaucetInv'
<1> USE DEF FaucetInv, Types, jobVars, nodeVars, ledgerVars, Go, Watch,
             Fault, NoFault
<1>1. ASSUME NEW m \in Miners, NEW here \in {"prioritise2", "prioritise3"},
             NEW next \in {"prioritise3", "test"}, SetPriority(m, here, next)
      PROVE  FaucetInv'
  <2>1. JobTypes'
    BY <1>1 DEF SetPriority, UpdateContext, Save, Unsaved, JobTypes
  <2>2. ControlTypes'
    BY <1>1 DEF SetPriority, UpdateContext, Error, ControlTypes, JobPlaces,
         ArmingPlaces, RecoveryPlaces
  <2>3. NodeTypes'
    BY <1>1, FaucetConstants DEF SetPriority, Prefer, UpdateContext, Save,
         Unsaved, NodeTypes
  <2>4. Progress'
    BY <1>1 DEF SetPriority, UpdateContext, Save, Unsaved, Error,
         ControlTypes, Progress, JobPlaces, RecoveryPlaces
  <2>5. Covers'
    BY <1>1 DEF SetPriority, UpdateContext, Save, Unsaved, Covers, Covered
  <2>6. SecuredWhen'
    BY <1>1 DEF SetPriority, Prefer, UpdateContext, Save, Unsaved, Error,
         ControlTypes, SecuredWhen, Secured, VerifyMiners, Armed
  <2>7. Tidy'
    BY <1>1 DEF SetPriority, UpdateContext, Save, Unsaved, Error,
         ControlTypes, Tidy, Traceless, InLedger, Findable, Progress,
         ArmingPlaces
  <2> QED  BY <2>1, <2>2, <2>3, <2>4, <2>5, <2>6, <2>7
<1>2. CASE TestAccept
  <2>1. JobTypes' /\ Covers'
    BY <1>2, RecordsUntouched DEF TestAccept
  <2>2. ControlTypes'
    BY <1>2 DEF TestAccept, Error, ControlTypes, JobPlaces, ArmingPlaces,
         RecoveryPlaces
  <2>3. NodeTypes'
    BY <1>2 DEF TestAccept, NodeTypes
  <2>4. Progress'
    BY <1>2 DEF TestAccept, Error, ControlTypes, Progress, JobPlaces,
         RecoveryPlaces
  <2>5. SecuredWhen'
    BY <1>2 DEF TestAccept, Error, ControlTypes, SecuredWhen, Secured,
         VerifyMiners, Armed
  <2>6. Tidy'
    BY <1>2 DEF TestAccept, Error, ControlTypes, Tidy, Traceless, InLedger,
         Findable
  <2> QED  BY <2>1, <2>2, <2>3, <2>4, <2>5, <2>6
<1>3. ASSUME NEW m \in Miners, NEW here \in {"submit2", "submit3"},
             NEW next \in {"submit3", "verify"}, Submit(m, here, next)
      PROVE  FaucetInv'
  <2> DEFINE j == [job EXCEPT !.submitted = @ \cup {m}]
  <2>1. /\ job' = j /\ faults' \in 0 .. MaxFaults
        /\ \/ jdisk' = j /\ at' = next /\ run' = run
           \/ /\ jdisk' = jdisk /\ run.recovers
              /\ at' = "confirmed?" /\ run' = run
           \/ /\ jdisk' = jdisk /\ ~run.recovers /\ at' = "unprioritise"
              /\ run' = [run EXCEPT !.outcome = "error"]
    BY <1>3, Updating DEF Submit
  <2>2. /\ j \in Records /\ j.state = job.state /\ j.active = job.active
        /\ j.raw = job.raw /\ j.coins = job.coins /\ j.source = job.source
    BY <1>3 DEF JobTypes, Records
  <2> HIDE DEF j
  <2>3. JobTypes'
    BY <1>3, <2>1, <2>2 DEF Submit, JobTypes
  <2>4. ControlTypes'
    BY <1>3, <2>1, <2>2
       DEF Submit, ControlTypes, JobPlaces, ArmingPlaces, RecoveryPlaces
  <2>5. NodeTypes'
    BY <1>3, <2>1, <2>2 DEF Submit, NodeTypes
  <2>6. Progress'
    BY <1>3, <2>1, <2>2 DEF Submit, Progress, Blank, ControlTypes, JobPlaces,
         ArmingPlaces, RecoveryPlaces
  <2>7. Covers'
    BY <1>3, <2>1, <2>2 DEF Submit, Covers, Covered
  <2>8. SecuredWhen'
    BY <1>3, <2>1, <2>2 DEF Submit, SecuredWhen, Secured, VerifyMiners, Armed,
         Progress, ControlTypes, JobPlaces, ArmingPlaces, RecoveryPlaces
  <2>9. Tidy'
    BY <1>3, <2>1, <2>2
       DEF Submit, Tidy, Traceless, InLedger, Findable, Progress,
         Blank, ControlTypes, JobPlaces, ArmingPlaces, RecoveryPlaces
  <2> QED  BY <2>3, <2>4, <2>5, <2>6, <2>7, <2>8, <2>9
<1>4. ASSUME NEW m \in Miners, NEW here \in {"submit2", "submit3"},
             SubmitFails(m, here)
      PROVE  FaucetInv'
  <2>1. JobTypes' /\ Covers'
    BY <1>4, RecordsUntouched DEF SubmitFails
  <2>2. ControlTypes'
    BY <1>4 DEF SubmitFails, Error, ControlTypes, JobPlaces, RecoveryPlaces
  <2>3. NodeTypes'
    BY <1>4, FaucetConstants DEF SubmitFails, Acceptable, Error, NodeTypes
  <2>4. Progress'
    BY <1>4 DEF SubmitFails, Error, ControlTypes, Progress, JobPlaces,
         RecoveryPlaces
  <2>5. SecuredWhen'
    BY <1>4 DEF SubmitFails, Error, ControlTypes, SecuredWhen, Secured,
         VerifyMiners, Armed
  <2>6. Tidy'
    BY <1>4 DEF SubmitFails, Error, ControlTypes, Tidy, Traceless, InLedger,
         Findable
  <2> QED  BY <2>1, <2>2, <2>3, <2>4, <2>5, <2>6
<1>5. CASE Verify
  <2>1. JobTypes' /\ Covers'
    BY <1>5, RecordsUntouched DEF Verify
  <2>2. ControlTypes'
    BY <1>5 DEF Verify, Error, ControlTypes, JobPlaces, ArmingPlaces,
         RecoveryPlaces
  <2>3. NodeTypes'
    BY <1>5 DEF Verify, NodeTypes
  <2>4. Progress'
    BY <1>5 DEF Verify, Error, ControlTypes, Progress, JobPlaces,
         RecoveryPlaces
  <2>5. SecuredWhen'
    BY <1>5 DEF Verify, Error, ControlTypes, SecuredWhen, Secured,
         VerifyMiners, Armed
  <2>6. Tidy'
    BY <1>5 DEF Verify, Error, ControlTypes, Tidy, Traceless, InLedger,
         Findable
  <2> QED  BY <2>1, <2>2, <2>3, <2>4, <2>5, <2>6
<1>6. CASE Arm
  <2>1. JobTypes' /\ Covers'
    BY <1>6, RecordsUntouched DEF Arm
  <2>2. ControlTypes'
    BY <1>6 DEF Arm, WriteLedger, LedgerUnsaved, Error, ControlTypes,
         LedgerStates, Pending, JobPlaces
  <2>3. NodeTypes'
    BY <1>6, FaucetConstants DEF Arm, WriteLedger, LedgerUnsaved, NodeTypes
  <2>4. Progress'
    BY <1>6 DEF Arm, Error, ControlTypes, Progress, JobPlaces, RecoveryPlaces
  <2>5. SecuredWhen'
    BY <1>6 DEF Arm, SecuredWhen, Secured, VerifyMiners, Armed
  <2>6. Tidy'
    BY <1>6 DEF Arm, WriteLedger, LedgerUnsaved, Error, ControlTypes, Tidy,
         Traceless, InLedger, Findable
  <2> QED  BY <2>1, <2>2, <2>3, <2>4, <2>5, <2>6
<1>7. CASE ArmedInContext
  <2>1. JobTypes'
    BY <1>7 DEF ArmedInContext, UpdateContext, Save, Unsaved, JobTypes
  <2>2. ControlTypes'
    BY <1>7 DEF ArmedInContext, UpdateContext, Error, ControlTypes,
         JobPlaces, RecoveryPlaces
  <2>3. NodeTypes'
    BY <1>7, FaucetConstants DEF ArmedInContext, UpdateContext, Save,
         Unsaved, NodeTypes
  <2>4. Progress'
    BY <1>7 DEF ArmedInContext, UpdateContext, Save, Unsaved, Error,
         ControlTypes, Progress, ArmingPlaces, RecoveryPlaces
  <2>5. Covers'
    BY <1>7 DEF ArmedInContext, UpdateContext, Save, Unsaved, Covers, Covered
  <2>6. SecuredWhen'
    BY <1>7 DEF ArmedInContext, SecuredWhen, Secured, VerifyMiners, Armed
  <2>7. Tidy'
    BY <1>7 DEF ArmedInContext, UpdateContext, Save, Unsaved, Tidy,
         Traceless, InLedger, Findable
  <2> QED  BY <2>1, <2>2, <2>3, <2>4, <2>5, <2>6, <2>7
<1> QED  BY <1>1, <1>2, <1>3, <1>4, <1>5, <1>6, <1>7 DEF ArmPrepared, Miners

\* The end of run_faucet_job: cleanup, ledger, record.
LEMMA Ending ==
  ASSUME FaucetInv,
         Unprioritise \/ ReleaseLease \/ SettleLedger \/ Finish,
         UNCHANGED <<guard, funds>>
  PROVE  FaucetInv'
<1> USE DEF FaucetInv, Types, jobVars, nodeVars, ledgerVars, Go, Watch,
             Fault, NoFault
<1>1. CASE Unprioritise
  <2>1. JobTypes' /\ Covers'
    BY <1>1, RecordsUntouched DEF Unprioritise
  <2>2. ControlTypes'
    BY <1>1 DEF Unprioritise, ControlTypes, JobPlaces
  <2>3. NodeTypes'
    BY <1>1, FaultsCount DEF Unprioritise, NodeTypes
  <2>4. Progress'
    BY <1>1 DEF Unprioritise, ControlTypes, Progress, ArmingPlaces,
         RecoveryPlaces
  <2>5. SecuredWhen'
    BY <1>1 DEF Unprioritise, ControlTypes, SecuredWhen, Secured,
         VerifyMiners, Armed, Progress, JobPlaces
  <2>6. Tidy'
    <3>1. CASE run' = run /\ prio' = (IF job.raw THEN {} ELSE prio)
               /\ locked' = (IF job.coins # <<>> THEN FALSE ELSE locked)
      BY <1>1, <3>1 DEF Unprioritise, ControlTypes, NodeTypes, Tidy, Traceless,
         InLedger, Findable, Progress, JobPlaces
    <3>2. CASE run'.errors /\ prio' \subseteq prio /\ locked' \in {locked, FALSE}
      <4>1. prio = {} => prio' = {}
        BY <3>2
      <4>2. locked' => locked
        BY <3>2, Zenon
      <4>3. job.state = "running" /\ jdisk.state = "running"
        BY <1>1 DEF Unprioritise, Progress, JobPlaces
      <4> QED  BY <1>1, <3>2, <4>1, <4>2, <4>3
                  DEF Unprioritise, Tidy, Traceless,
                 InLedger, Findable
    <3>3. CASE UNCHANGED <<prio, locked, run>> /\ run.outcome # "error" /\ ~abort
      BY <1>1, <3>3 DEF Unprioritise, ControlTypes, Tidy, Traceless,
         InLedger, Findable, Progress, JobPlaces
    <3> QED  BY <1>1, <3>1, <3>2, <3>3 DEF Unprioritise, ControlTypes
  <2> QED  BY <2>1, <2>2, <2>3, <2>4, <2>5, <2>6
<1>2. CASE ReleaseLease
  <2>1. JobTypes' /\ Covers'
    BY <1>2, RecordsUntouched DEF ReleaseLease
  <2>2. ControlTypes'
    BY <1>2 DEF ReleaseLease, ControlTypes, JobPlaces
  <2>3. NodeTypes'
    BY <1>2, FaucetConstants DEF ReleaseLease, NodeTypes
  <2>4. Progress'
    BY <1>2 DEF ReleaseLease, ControlTypes, Progress, ArmingPlaces,
         RecoveryPlaces
  <2>5. SecuredWhen'
    BY <1>2 DEF ReleaseLease, ControlTypes, SecuredWhen, Secured,
         VerifyMiners, Armed
  <2>6. Tidy'
    BY <1>2 DEF ReleaseLease, ControlTypes, Tidy, Traceless, InLedger, Findable
  <2> QED  BY <2>1, <2>2, <2>3, <2>4, <2>5, <2>6
<1>3. CASE SettleLedger
  <2>1. JobTypes' /\ Covers'
    BY <1>3, RecordsUntouched DEF SettleLedger
  <2>2. ControlTypes'
    BY <1>3 DEF SettleLedger, Settlement, WriteLedgerBestEffort, WriteLedger,
         LedgerUnsaved, ControlTypes, LedgerStates, Pending, JobPlaces
  <2>3. NodeTypes'
    BY <1>3, FaucetConstants DEF SettleLedger, WriteLedgerBestEffort,
         WriteLedger, LedgerUnsaved, NodeTypes
  <2>4. Progress'
    BY <1>3 DEF SettleLedger, Settlement, WriteLedgerBestEffort,
         ControlTypes, Progress, ArmingPlaces, RecoveryPlaces
  <2>5. SecuredWhen'
    BY <1>3 DEF SettleLedger, Settlement, WriteLedgerBestEffort, SecuredWhen,
         Secured, VerifyMiners, Armed
  <2>6. Tidy'
    BY <1>3 DEF SettleLedger, Settlement, WriteLedgerBestEffort, WriteLedger,
         LedgerUnsaved, Tidy, Traceless, InLedger, Findable
  <2> QED  BY <2>1, <2>2, <2>3, <2>4, <2>5, <2>6
<1>4. CASE Finish
  <2> DEFINE done == IF run.outcome = "succeeded"
                     THEN [job EXCEPT !.raw = FALSE, !.coins = <<>>] ELSE job
             j == [done EXCEPT !.state = run.outcome, !.active = run.errors]
  <2>1. /\ job' = j /\ (jdisk' = j \/ jdisk' = jdisk)
        /\ faults' \in 0 .. MaxFaults
    BY <1>4, Saving DEF Finish
  <2>2. /\ run.outcome \in {"succeeded", "failed", "aborted"}
        /\ run.errors \in BOOLEAN /\ job.state = "running"
        /\ ~run.recovers /\ jdisk.state = "running" /\ jdisk.active
    BY <1>4 DEF Finish, Progress, ControlTypes, JobPlaces
  <2>3. /\ j \in Records /\ j.state = run.outcome /\ j.active = run.errors
        /\ j.source = job.source
        /\ \/ j.raw = job.raw /\ j.coins = job.coins
           \/ j.state = "succeeded" /\ ~j.raw /\ j.coins = <<>>
    <3>1. CASE run.outcome = "succeeded"
      BY <2>2, <3>1, EmptySeq DEF JobTypes, Records, JobStates
    <3>2. CASE run.outcome # "succeeded"
      BY <2>2, <3>2 DEF JobTypes, Records, JobStates
    <3> QED  BY <3>1, <3>2
  <2> HIDE DEF j
  <2>4. JobTypes'
    BY <1>4, <2>1, <2>2, <2>3 DEF Finish, JobTypes
  <2>5. ControlTypes'
    BY <1>4, <2>1, <2>2, <2>3
       DEF Finish, ControlTypes, JobPlaces, ArmingPlaces,
         RecoveryPlaces
  <2>6. NodeTypes'
    BY <1>4, <2>1, <2>2, <2>3 DEF Finish, NodeTypes
  <2>7. Progress'
    BY <1>4, <2>1, <2>2, <2>3
       DEF Finish, Progress, Blank, ControlTypes, JobPlaces,
         ArmingPlaces, RecoveryPlaces
  <2>8. Covers'
    BY <1>4, <2>1, <2>2, <2>3 DEF Finish, Covers, Covered
  <2>9. SecuredWhen'
    BY <1>4, <2>1, <2>2, <2>3
       DEF Finish, SecuredWhen, Secured, VerifyMiners, Armed,
         Progress, ControlTypes, JobPlaces, ArmingPlaces, RecoveryPlaces
  <2>10. Tidy'
    BY <1>4, <2>1, <2>2, <2>3 DEF Finish, Tidy, Traceless, InLedger, Findable,
         Progress, Blank, ControlTypes, JobPlaces, ArmingPlaces, RecoveryPlaces
  <2> QED  BY <2>4, <2>5, <2>6, <2>7, <2>8, <2>9, <2>10
<1> QED  BY <1>1, <1>2, <1>3, <1>4

\* recover_faucet_job.
LEMMA Recovering ==
  ASSUME FaucetInv, RecoverFaucetJob, UNCHANGED <<guard, funds>>
  PROVE  FaucetInv'
<1> USE DEF FaucetInv, Types, jobVars, nodeVars, ledgerVars, Go, Watch,
             Fault, NoFault
<1>1. CASE RecoverUnsigned
  <2>1. JobTypes' /\ Covers'
    BY <1>1, RecordsUntouched DEF RecoverUnsigned
  <2>2. ControlTypes'
    BY <1>1 DEF RecoverUnsigned, ControlTypes, RecoveryPlaces
  <2>3. NodeTypes'
    BY <1>1 DEF RecoverUnsigned, NodeTypes
  <2>4. Progress'
    BY <1>1 DEF RecoverUnsigned, ControlTypes, Progress, JobPlaces,
         ArmingPlaces
  <2>5. SecuredWhen'
    BY <1>1 DEF RecoverUnsigned, SecuredWhen, Secured, VerifyMiners, Armed
  <2>6. Tidy'
    BY <1>1 DEF RecoverUnsigned, Tidy, Traceless, InLedger, Findable
  <2> QED  BY <2>1, <2>2, <2>3, <2>4, <2>5, <2>6
<1>2. CASE RecoverConfirmed
  <2>1. JobTypes' /\ Covers'
    BY <1>2, RecordsUntouched DEF RecoverConfirmed
  <2>2. ControlTypes'
    BY <1>2 DEF RecoverConfirmed, Confirmed, WriteLedger, LedgerUnsaved,
         Error, ControlTypes, LedgerStates, JobPlaces, RecoveryPlaces
  <2>3. NodeTypes'
    BY <1>2, FaucetConstants DEF RecoverConfirmed, Confirmed, WriteLedger,
         LedgerUnsaved, NodeTypes
  <2>4. Progress'
    BY <1>2 DEF RecoverConfirmed, Confirmed, Error, ControlTypes, Progress,
         JobPlaces, ArmingPlaces
  <2>5. SecuredWhen'
    BY <1>2 DEF RecoverConfirmed, Confirmed, SecuredWhen, Secured
  <2>6. Tidy'
    BY <1>2 DEF RecoverConfirmed, Confirmed, WriteLedger, LedgerUnsaved,
         Error, ControlTypes, Tidy, Traceless, InLedger, Findable
  <2> QED  BY <2>1, <2>2, <2>3, <2>4, <2>5, <2>6
<1>3. CASE RecoverUnconfirmed
  <2>1. JobTypes' /\ Covers'
    BY <1>3, RecordsUntouched DEF RecoverUnconfirmed
  <2>2. ControlTypes'
    BY <1>3 DEF RecoverUnconfirmed, ControlTypes, RecoveryPlaces
  <2>3. NodeTypes'
    BY <1>3 DEF RecoverUnconfirmed, NodeTypes
  <2>4. Progress'
    BY <1>3 DEF RecoverUnconfirmed, ControlTypes, Progress, JobPlaces,
         ArmingPlaces
  <2>5. SecuredWhen'
    BY <1>3 DEF RecoverUnconfirmed, SecuredWhen, Secured, VerifyMiners, Armed
  <2>6. Tidy'
    BY <1>3 DEF RecoverUnconfirmed, Tidy, Traceless, InLedger, Findable
  <2> QED  BY <2>1, <2>2, <2>3, <2>4, <2>5, <2>6
<1>4. CASE RecoverConflicted
  <2>1. JobTypes'
    BY <1>4 DEF RecoverConflicted, InputsUnspent, UpdateContext, Save,
         Unsaved, JobTypes, Records, JobStates
  <2>2. ControlTypes'
    BY <1>4 DEF RecoverConflicted, InputsUnspent, UpdateContext, Error,
         ControlTypes, JobPlaces, RecoveryPlaces
  <2>3. NodeTypes'
    BY <1>4, FaucetConstants DEF RecoverConflicted, InputsUnspent,
         UpdateContext, Save, Unsaved, NodeTypes
  <2>4. Progress'
    BY <1>4 DEF RecoverConflicted, InputsUnspent, UpdateContext, Save,
         Unsaved, Error, JobTypes, ControlTypes, Records, Progress,
         JobPlaces, ArmingPlaces
  <2>5. Covers'
    BY <1>4 DEF RecoverConflicted, InputsUnspent, UpdateContext, Save,
         Unsaved, JobTypes, Records, Covers, Covered
  <2>6. SecuredWhen'
    BY <1>4 DEF RecoverConflicted, InputsUnspent, SecuredWhen, Secured
  <2>7. Tidy'
    BY <1>4 DEF RecoverConflicted, InputsUnspent, UpdateContext, Save,
         Unsaved, Error, JobTypes, ControlTypes, Records, Tidy, Traceless,
         InLedger, Findable
  <2> QED  BY <2>1, <2>2, <2>3, <2>4, <2>5, <2>6, <2>7
<1>5. CASE RecoverLease
  <2>1. JobTypes' /\ Covers'
    BY <1>5, RecordsUntouched DEF RecoverLease
  <2>2. ControlTypes'
    BY <1>5 DEF RecoverLease, ControlTypes, ArmingPlaces
  <2>3. NodeTypes'
    BY <1>5 DEF RecoverLease, NodeTypes
  <2>4. Progress'
    BY <1>5 DEF RecoverLease, ControlTypes, Progress, JobPlaces, ArmingPlaces
  <2>5. SecuredWhen'
    BY <1>5 DEF RecoverLease, SecuredWhen, Secured, VerifyMiners, Armed
  <2>6. Tidy'
    BY <1>5 DEF RecoverLease, Tidy, Traceless, InLedger, Findable, Progress
  <2> QED  BY <2>1, <2>2, <2>3, <2>4, <2>5, <2>6
<1>6. CASE RecoverArm
  <2>1. JobTypes' /\ Covers'
    BY <1>6, RecordsUntouched DEF RecoverArm
  <2>2. ControlTypes'
    BY <1>6 DEF RecoverArm, WriteLedger, LedgerUnsaved, Error, ControlTypes,
         LedgerStates, Pending, RecoveryPlaces
  <2>3. NodeTypes'
    BY <1>6, FaucetConstants DEF RecoverArm, WriteLedger, LedgerUnsaved,
         NodeTypes
  <2>4. Progress'
    BY <1>6 DEF RecoverArm, Error, Progress, JobPlaces, ArmingPlaces
  <2>5. SecuredWhen'
    BY <1>6 DEF RecoverArm, SecuredWhen, Secured, VerifyMiners, Armed
  <2>6. Tidy'
    BY <1>6 DEF RecoverArm, WriteLedger, LedgerUnsaved, Error, Tidy,
         Traceless, InLedger, Findable
  <2> QED  BY <2>1, <2>2, <2>3, <2>4, <2>5, <2>6
<1>7. CASE RecoverSucceed
  <2> DEFINE j == [job EXCEPT !.state = "succeeded", !.raw = FALSE,
                       !.coins = <<>>]
  <2>1. /\ job' = j /\ faults' \in 0 .. MaxFaults
        /\ \/ jdisk' = j /\ at' = "recovered" /\ run' = run
           \/ /\ jdisk' = jdisk /\ run.recovers
              /\ at' = "confirmed?" /\ run' = run
           \/ /\ jdisk' = jdisk /\ ~run.recovers /\ at' = "unprioritise"
              /\ run' = [run EXCEPT !.outcome = "error"]
    BY <1>7, Updating DEF RecoverSucceed
  <2>2. /\ j \in Records /\ j.state = "succeeded" /\ j.active = job.active
        /\ ~j.raw /\ j.coins = <<>>
    BY EmptySeq DEF JobTypes, Records, JobStates
  <2> HIDE DEF j
  <2>3. JobTypes'
    BY <1>7, <2>1, <2>2 DEF RecoverSucceed, JobTypes
  <2>4. ControlTypes'
    BY <1>7, <2>1, <2>2
       DEF RecoverSucceed, ControlTypes, JobPlaces, ArmingPlaces,
           RecoveryPlaces
  <2>5. NodeTypes'
    BY <1>7, <2>1, <2>2 DEF RecoverSucceed, NodeTypes
  <2>6. Progress'
    BY <1>7, <2>1, <2>2
       DEF RecoverSucceed, Progress, Blank, ControlTypes, JobPlaces,
         ArmingPlaces, RecoveryPlaces
  <2>7. Covers'
    BY <1>7, <2>1, <2>2 DEF RecoverSucceed, Covers, Covered
  <2>8. SecuredWhen'
    BY <1>7, <2>1, <2>2
       DEF RecoverSucceed, SecuredWhen, Secured, VerifyMiners, Armed,
         Progress, ControlTypes, JobPlaces, ArmingPlaces, RecoveryPlaces
  <2>9. Tidy'
    BY <1>7, <2>1, <2>2
       DEF RecoverSucceed, Tidy, Traceless, InLedger, Findable, Progress,
         Blank, ControlTypes, JobPlaces, ArmingPlaces, RecoveryPlaces
  <2> QED  BY <2>3, <2>4, <2>5, <2>6, <2>7, <2>8, <2>9
<1>8. CASE Recovered
  <2>1. JobTypes'
    BY <1>8 DEF Recovered, SaveBestEffort, Save, Unsaved, JobTypes, Records
  <2>2. ControlTypes'
    BY <1>8 DEF Recovered, SaveBestEffort, ControlTypes
  <2>3. NodeTypes'
    BY <1>8, FaucetConstants DEF Recovered, SaveBestEffort, Save, Unsaved,
         NodeTypes
  <2>4. Progress'
    BY <1>8 DEF Recovered, SaveBestEffort, Save, Unsaved, JobTypes,
         ControlTypes, Records, Progress, ArmingPlaces, RecoveryPlaces
  <2>5. Covers'
    BY <1>8 DEF Recovered, SaveBestEffort, Save, Unsaved, JobTypes, Records,
         Covers, Covered
  <2>6. SecuredWhen'
    BY <1>8 DEF Recovered, SaveBestEffort, Save, Unsaved, JobTypes, Records,
         SecuredWhen, Secured, VerifyMiners, Armed
  <2>7. Tidy'
    BY <1>8 DEF Recovered, SaveBestEffort, Save, Unsaved, JobTypes, Records,
         Tidy, Traceless, InLedger, Findable
  <2> QED  BY <2>1, <2>2, <2>3, <2>4, <2>5, <2>6, <2>7
<1>9. CASE RecoveryFails
  <2>1. JobTypes' /\ Covers'
    BY <1>9, RecordsUntouched DEF RecoveryFails
  <2>2. ControlTypes'
    BY <1>9 DEF RecoveryFails, ControlTypes, RecoveryPlaces
  <2>3. NodeTypes'
    BY <1>9, FaucetConstants DEF RecoveryFails, NodeTypes
  <2>4. Progress'
    BY <1>9 DEF RecoveryFails, Progress, JobPlaces, ArmingPlaces
  <2>5. SecuredWhen'
    BY <1>9 DEF RecoveryFails, SecuredWhen, Secured, VerifyMiners, Armed
  <2>6. Tidy'
    BY <1>9 DEF RecoveryFails, Tidy, Traceless, InLedger, Findable
  <2> QED  BY <2>1, <2>2, <2>3, <2>4, <2>5, <2>6
<1> QED  BY <1>1, <1>2, <1>3, <1>4, <1>5, <1>6, <1>7, <1>8, <1>9
            DEF RecoverFaucetJob

\* The delivery guard, which never touches the job.
LEMMA Guarding ==
  ASSUME FaucetInv, Guard, UNCHANGED <<jobVars, funds>>
  PROVE  FaucetInv'
<1> USE DEF FaucetInv, Types, jobVars, nodeVars, ledgerVars, Go, Watch,
             Fault, NoFault
<1>1. JobTypes' /\ Progress' /\ Covers'
  BY JobUntouched
<1>2. CASE PollConfirmed
  <2>1. ControlTypes'
    BY <1>2 DEF PollConfirmed, WriteLedgerBestEffort, WriteLedger,
         LedgerUnsaved, ControlTypes, LedgerStates
  <2>2. NodeTypes'
    BY <1>2, FaucetConstants DEF PollConfirmed, WriteLedgerBestEffort,
         WriteLedger, LedgerUnsaved, NodeTypes
  <2>3. SecuredWhen'
    BY <1>2 DEF PollConfirmed, WriteLedgerBestEffort, SecuredWhen, Secured,
         VerifyMiners, Armed
  <2>4. Tidy'
    BY <1>2 DEF PollConfirmed, WriteLedgerBestEffort, WriteLedger,
         LedgerUnsaved, Tidy, Traceless, InLedger, Findable
  <2> QED  BY <1>1, <2>1, <2>2, <2>3, <2>4
<1>3. CASE PollUnconfirmed
  <2>1. ControlTypes'
    BY <1>3 DEF PollUnconfirmed, ControlTypes
  <2>2. NodeTypes'
    BY <1>3 DEF PollUnconfirmed, NodeTypes
  <2>3. SecuredWhen'
    BY <1>3 DEF PollUnconfirmed, SecuredWhen, Secured, VerifyMiners, Armed
  <2>4. Tidy'
    BY <1>3 DEF PollUnconfirmed, Tidy, Traceless, InLedger, Findable
  <2> QED  BY <1>1, <2>1, <2>2, <2>3, <2>4
<1>4. CASE PollOrphaned
  <2>1. ControlTypes'
    BY <1>4 DEF PollOrphaned, WriteLedgerBestEffort, WriteLedger,
         LedgerUnsaved, ControlTypes, LedgerStates
  <2>2. NodeTypes'
    BY <1>4, FaucetConstants DEF PollOrphaned, WriteLedgerBestEffort,
         WriteLedger, LedgerUnsaved, NodeTypes
  <2>3. SecuredWhen'
    BY <1>4 DEF PollOrphaned, WriteLedgerBestEffort, SecuredWhen, Secured,
         VerifyMiners, Armed
  <2>4. Tidy'
    BY <1>4 DEF PollOrphaned, WriteLedgerBestEffort, WriteLedger,
         LedgerUnsaved, Tidy, Traceless, InLedger, Findable
  <2> QED  BY <1>1, <2>1, <2>2, <2>3, <2>4
<1>5. CASE GuardVerify
  <2>1. ControlTypes'
    BY <1>5 DEF GuardVerify, WriteLedgerBestEffort, WriteLedger,
         LedgerUnsaved, ControlTypes, LedgerStates, Pending
  <2>2. NodeTypes'
    BY <1>5, FaucetConstants DEF GuardVerify, WriteLedgerBestEffort,
         WriteLedger, LedgerUnsaved, NodeTypes
  <2>3. SecuredWhen'
    BY <1>5 DEF GuardVerify, WriteLedgerBestEffort, SecuredWhen, Secured,
         VerifyMiners, Armed
  <2>4. Tidy'
    BY <1>5 DEF GuardVerify, WriteLedgerBestEffort, WriteLedger,
         LedgerUnsaved, Tidy, Traceless, InLedger, Findable
  <2> QED  BY <1>1, <2>1, <2>2, <2>3, <2>4
<1>6. CASE GuardRecover
  <2>1. ControlTypes'
    BY <1>6 DEF GuardRecover, WriteLedgerBestEffort, WriteLedger,
         LedgerUnsaved, ControlTypes, LedgerStates, Pending
  <2>2. NodeTypes'
    BY <1>6, FaucetConstants DEF GuardRecover, WriteLedgerBestEffort,
         WriteLedger, LedgerUnsaved, NodeTypes
  <2>3. SecuredWhen'
    BY <1>6 DEF GuardRecover, WriteLedgerBestEffort, SecuredWhen, Secured,
         VerifyMiners, Armed
  <2>4. Tidy'
    BY <1>6 DEF GuardRecover, WriteLedgerBestEffort, WriteLedger,
         LedgerUnsaved, Tidy, Traceless, InLedger, Findable
  <2> QED  BY <1>1, <2>1, <2>2, <2>3, <2>4
<1>7. CASE GuardGivesUp
  <2>1. ControlTypes'
    BY <1>7 DEF GuardGivesUp, WriteLedgerBestEffort, WriteLedger,
         LedgerUnsaved, ControlTypes, LedgerStates
  <2>2. NodeTypes'
    BY <1>7, FaucetConstants DEF GuardGivesUp, WriteLedgerBestEffort,
         WriteLedger, LedgerUnsaved, NodeTypes
  <2>3. SecuredWhen'
    BY <1>7 DEF GuardGivesUp, WriteLedgerBestEffort, SecuredWhen, Secured,
         VerifyMiners, Armed
  <2>4. Tidy'
    BY <1>7 DEF GuardGivesUp, WriteLedgerBestEffort, WriteLedger,
         LedgerUnsaved, Tidy, Traceless, InLedger, Findable
  <2> QED  BY <1>1, <2>1, <2>2, <2>3, <2>4
<1>8. CASE GuardLease
  <2>1. ControlTypes'
    BY <1>8 DEF GuardLease, ControlTypes
  <2>2. NodeTypes'
    BY <1>8, FaultsCount DEF GuardLease, NodeTypes
  <2>3. SecuredWhen'
    BY <1>8 DEF GuardLease, SecuredWhen, Secured, VerifyMiners, Armed
  <2>4. Tidy'
    BY <1>8 DEF GuardLease, Tidy, Traceless, InLedger, Findable
  <2> QED  BY <1>1, <2>1, <2>2, <2>3, <2>4
<1>9. ASSUME NEW m \in Miners, NEW here \in {"rearm2", "rearm3"},
             NEW next \in {"rearm3", "reverify"}, GuardRearm(m, here, next)
      PROVE  FaucetInv'
  <2>1. ControlTypes'
    BY <1>9 DEF GuardRearm, ControlTypes
  <2>2. NodeTypes'
    BY <1>9 DEF GuardRearm, Prefer, Acceptable, NodeTypes
  <2>3. SecuredWhen'
    BY <1>9 DEF GuardRearm, Prefer, SecuredWhen, Secured, VerifyMiners, Armed
  <2>4. Tidy'
    BY <1>9 DEF GuardRearm, Tidy, Traceless, InLedger, Findable
  <2> QED  BY <1>1, <2>1, <2>2, <2>3, <2>4
<1>10. CASE GuardRearmFails
  <2>1. ControlTypes'
    BY <1>10 DEF GuardRearmFails, ControlTypes
  <2>2. NodeTypes'
    BY <1>10, FaucetConstants DEF GuardRearmFails, NodeTypes
  <2>3. SecuredWhen'
    BY <1>10 DEF GuardRearmFails, SecuredWhen, Secured, VerifyMiners, Armed
  <2>4. Tidy'
    BY <1>10 DEF GuardRearmFails, Tidy, Traceless, InLedger, Findable
  <2> QED  BY <1>1, <2>1, <2>2, <2>3, <2>4
<1>11. CASE GuardDone
  <2>1. ControlTypes'
    BY <1>11 DEF GuardDone, ControlTypes
  <2>2. NodeTypes'
    BY <1>11, FaultsCount DEF GuardDone, NodeTypes
  <2>3. SecuredWhen'
    BY <1>11 DEF GuardDone, SecuredWhen, Secured, VerifyMiners, Armed
  <2>4. Tidy'
    BY <1>11 DEF GuardDone, Tidy, Traceless, InLedger, Findable
  <2> QED  BY <1>1, <2>1, <2>2, <2>3, <2>4
<1>12. CASE GuardMark
  <2>1. ControlTypes'
    BY <1>12 DEF GuardMark, WriteLedgerBestEffort, WriteLedger,
         LedgerUnsaved, ControlTypes, LedgerStates, Pending
  <2>2. NodeTypes'
    BY <1>12, FaucetConstants DEF GuardMark, WriteLedgerBestEffort,
         WriteLedger, LedgerUnsaved, NodeTypes
  <2>3. SecuredWhen'
    BY <1>12 DEF GuardMark, WriteLedgerBestEffort, SecuredWhen, Secured,
         VerifyMiners, Armed
  <2>4. Tidy'
    BY <1>12 DEF GuardMark, WriteLedgerBestEffort, WriteLedger,
         LedgerUnsaved, Tidy, Traceless, InLedger, Findable
  <2> QED  BY <1>1, <2>1, <2>2, <2>3, <2>4
<1> QED  BY <1>2, <1>3, <1>4, <1>5, <1>6, <1>7, <1>8, <1>9, <1>10, <1>11,
     <1>12 DEF Guard, Miners

\* Miners, nodes and workers: what they lose sets upset or is in a block.
LEMMA World ==
  ASSUME FaucetInv, UNCHANGED <<jobVars, funds>>,
         \/ \E m \in Miners : Mine(m) \/ MinerRestarts(m)
         \/ \E n \in Nodes : Propagate(n)
         \/ \E h \in {"job", "guard"} : LeaseExpires(h)
         \/ Orphan \/ SpendInputs \/ WorkerRestarts
  PROVE  FaucetInv'
<1> USE DEF FaucetInv, Types, jobVars, nodeVars, ledgerVars, Go, Watch,
             Fault, NoFault
<1>1. JobTypes' /\ Progress' /\ Covers'
  BY JobUntouched
<1>2. ASSUME NEW m \in Miners, Mine(m)
      PROVE  FaucetInv'
  <2>1. ControlTypes'
    BY <1>2 DEF Mine, ControlTypes
  <2>2. NodeTypes'
    BY <1>2 DEF Mine, NodeTypes, Nodes
  <2>3. SecuredWhen'
    BY <1>2 DEF Mine, SecuredWhen, Secured
  <2>4. Tidy'
    BY <1>2 DEF Mine, Tidy, Traceless, InLedger, Findable
  <2> QED  BY <1>1, <2>1, <2>2, <2>3, <2>4
<1>3. ASSUME NEW m \in Miners, MinerRestarts(m)
      PROVE  FaucetInv'
  <2>1. ControlTypes'
    BY <1>3 DEF MinerRestarts, ControlTypes
  <2>2. NodeTypes'
    <3>1. locked' \in BOOLEAN /\ faults' \in 0 .. MaxFaults
      BY <1>3, FaultsCount DEF MinerRestarts, NodeTypes
    <3> QED  BY <1>3, <3>1 DEF MinerRestarts, NodeTypes
  <2>3. SecuredWhen'
    BY <1>3 DEF MinerRestarts, SecuredWhen, Secured
  <2>4. Tidy'
    BY <1>3 DEF MinerRestarts, Tidy, Traceless, InLedger, Findable
  <2> QED  BY <1>1, <2>1, <2>2, <2>3, <2>4
<1>4. ASSUME NEW n \in Nodes, Propagate(n)
      PROVE  FaucetInv'
  <2>1. ControlTypes'
    BY <1>4 DEF Propagate, ControlTypes
  <2>2. NodeTypes'
    BY <1>4 DEF Propagate, NodeTypes
  <2>3. SecuredWhen'
    BY <1>4 DEF Propagate, SecuredWhen, Secured
  <2>4. Tidy'
    BY <1>4 DEF Propagate, Tidy, Traceless, InLedger, Findable
  <2> QED  BY <1>1, <2>1, <2>2, <2>3, <2>4
<1>5. ASSUME NEW h \in {"job", "guard"}, LeaseExpires(h)
      PROVE  FaucetInv'
  <2>1. ControlTypes'
    BY <1>5 DEF LeaseExpires, ControlTypes
  <2>2. NodeTypes'
    BY <1>5 DEF LeaseExpires, NodeTypes
  <2>3. SecuredWhen'
    BY <1>5 DEF LeaseExpires, SecuredWhen, Secured, VerifyMiners, Armed
  <2>4. Tidy'
    BY <1>5 DEF LeaseExpires, Tidy, Traceless, InLedger, Findable
  <2> QED  BY <1>1, <2>1, <2>2, <2>3, <2>4
<1>6. CASE Orphan
  <2>1. ControlTypes'
    BY <1>6 DEF Orphan, ControlTypes
  <2>2. NodeTypes'
    BY <1>6, FaucetConstants DEF Orphan, NodeTypes
  <2>3. SecuredWhen'
    BY <1>6 DEF Orphan, SecuredWhen, Secured
  <2>4. Tidy'
    BY <1>6 DEF Orphan, Tidy, Traceless, InLedger, Findable
  <2> QED  BY <1>1, <2>1, <2>2, <2>3, <2>4
<1>7. CASE SpendInputs
  <2>1. ControlTypes'
    BY <1>7 DEF SpendInputs, ControlTypes
  <2>2. NodeTypes'
    BY <1>7, FaucetConstants DEF SpendInputs, NodeTypes
  <2>3. SecuredWhen'
    BY <1>7 DEF SpendInputs, SecuredWhen, Secured
  <2>4. Tidy'
    BY <1>7 DEF SpendInputs, Tidy, Traceless, InLedger, Findable
  <2> QED  BY <1>1, <2>1, <2>2, <2>3, <2>4
<1>8. CASE WorkerRestarts
  <2>1. ControlTypes'
    BY <1>8 DEF WorkerRestarts, ControlTypes
  <2>2. NodeTypes'
    BY <1>8, FaucetConstants DEF WorkerRestarts, NodeTypes
  <2>3. SecuredWhen'
    BY <1>8 DEF WorkerRestarts, SecuredWhen, Secured, VerifyMiners, Armed
  <2>4. Tidy'
    BY <1>8 DEF WorkerRestarts, Tidy, Traceless, InLedger, Findable
  <2> QED  BY <1>1, <2>1, <2>2, <2>3, <2>4
<1> QED  BY <1>2, <1>3, <1>4, <1>5, <1>6, <1>7, <1>8

\* A client's abort, and a restart of the control plane from its two files.
LEMMA Interrupting ==
  ASSUME FaucetInv, RequestAbort \/ Restart, UNCHANGED funds
  PROVE  FaucetInv'
<1> USE DEF FaucetInv, Types, jobVars, nodeVars, ledgerVars, Go, Watch,
             Fault, NoFault
<1>1. CASE RequestAbort
  <2>1. JobTypes' /\ Covers'
    BY <1>1, RecordsUntouched DEF RequestAbort
  <2>2. ControlTypes'
    BY <1>1 DEF RequestAbort, ControlTypes
  <2>3. NodeTypes'
    BY <1>1 DEF RequestAbort, NodeTypes
  <2>4. Progress'
    BY <1>1 DEF RequestAbort, Progress
  <2>5. SecuredWhen'
    BY <1>1 DEF RequestAbort, SecuredWhen, Secured, VerifyMiners, Armed
  <2>6. Tidy'
    BY <1>1 DEF RequestAbort, Tidy, Traceless, InLedger, Findable
  <2> QED  BY <2>1, <2>2, <2>3, <2>4, <2>5, <2>6
<1>2. CASE Restart
  <2>1. JobTypes'
    BY <1>2 DEF Restart, JobTypes, Records, JobStates
  <2>2. ControlTypes'
    <3>1. /\ at' \in {"confirmed?", "idle"} /\ abort' = FALSE
          /\ ledger' = ldisk /\ ldisk' = ldisk /\ guard' = "poll"
      BY <1>2 DEF Restart
    <3>2. jdisk.active \in BOOLEAN
      BY DEF JobTypes, Records
    <3>3. run' \in [outcome : {"ok", "error", "succeeded", "failed", "aborted"},
                   errors : BOOLEAN, recovers : BOOLEAN]
      BY <1>2, <3>2 DEF Restart
    <3> QED  BY <3>1, <3>3 DEF ControlTypes, RecoveryPlaces
  <2>3. NodeTypes'
    BY <1>2, FaucetConstants DEF Restart, NodeTypes
  <2>4. Progress'
    BY <1>2 DEF Restart, JobTypes, Records, Progress, JobPlaces, ArmingPlaces
  <2>5. Covers'
    BY <1>2 DEF Restart, Covers, Covered
  <2>6. SecuredWhen'
    BY <1>2 DEF Restart, SecuredWhen, Secured, VerifyMiners, Armed
  <2>7. Tidy'
    BY <1>2 DEF Restart, Tidy, Traceless, InLedger, Findable, Progress
  <2> QED  BY <2>1, <2>2, <2>3, <2>4, <2>5, <2>6, <2>7
<1> QED  BY <1>1, <1>2

(***************************************************************************)
(* The theorems.                                                           *)
(***************************************************************************)
\* The inductive invariant is kept by every step.
LEMMA FaucetInvInductive ==
  ASSUME FaucetInv, [Next]_vars
  PROVE  FaucetInv'
<1>1. CASE StartFaucet /\ UNCHANGED <<guard, funds>>
  BY <1>1, Starting
<1>2. CASE RunFaucetJob /\ UNCHANGED <<guard, funds>>
  BY <1>2, Starting, Executing, Arming, Ending DEF RunFaucetJob
<1>3. CASE RecoverFaucetJob /\ UNCHANGED <<guard, funds>>
  BY <1>3, Recovering
<1>4. CASE GuardStep /\ UNCHANGED funds
  BY <1>4, Guarding DEF GuardStep
<1>5. CASE (RequestAbort \/ Restart) /\ UNCHANGED funds
  BY <1>5, Interrupting
<1>6. CASE /\ UNCHANGED funds
           /\ \/ \E m \in Miners : Mine(m) \/ MinerRestarts(m)
              \/ \E n \in Nodes : Propagate(n)
              \/ \E h \in {"job", "guard"} : LeaseExpires(h)
              \/ Orphan \/ SpendInputs \/ WorkerRestarts
  <2>1. UNCHANGED jobVars
    BY <1>6 DEF Mine, MinerRestarts, Propagate, LeaseExpires, Orphan,
       SpendInputs, WorkerRestarts
  <2> QED  BY <1>6, <2>1, World
<1>7. CASE UNCHANGED vars
  BY <1>7 DEF vars, jobVars, nodeVars, ledgerVars, FaucetInv, Types, JobTypes,
     ControlTypes, NodeTypes, Progress, Blank, Covers, Covered, SecuredWhen,
     Secured, VerifyMiners, Armed, Tidy, Traceless, InLedger, Findable
<1> QED
  BY <1>1, <1>2, <1>3, <1>4, <1>5, <1>6, <1>7 DEF Next, JobStep

\* In every behaviour of the faucet its inductive invariant holds.
THEOREM FaucetInvHolds == Spec => []FaucetInv
<1>1. Init => FaucetInv
  <2> SUFFICES ASSUME Init PROVE FaucetInv
    OBVIOUS
  <2>1. JobTypes
    BY EmptySeq DEF Init, NoJob, JobTypes, Records, JobStates
  <2>2. ControlTypes
    BY DEF Init, ControlTypes, LedgerStates, Pending
  <2>3. NodeTypes
    <3>1. faults \in 0 .. MaxFaults
      BY FaucetConstants DEF Init
    <3> QED  BY <3>1 DEF Init, NodeTypes
  <2>4. Progress
    BY DEF Init, NoJob, Progress, Blank, JobPlaces, ArmingPlaces,
           RecoveryPlaces
  <2>5. Covers
    BY DEF Init, NoJob, Covers, Covered
  <2>6. SecuredWhen
    BY DEF Init, NoJob, SecuredWhen
  <2>7. Tidy
    BY DEF Init, NoJob, Tidy, Traceless, InLedger, Findable
  <2> QED  BY <2>1, <2>2, <2>3, <2>4, <2>5, <2>6, <2>7 DEF FaucetInv, Types
<1>2. FaucetInv /\ [Next]_vars => FaucetInv'
  BY FaucetInvInductive
<1> QED  BY <1>1, <1>2, PTL DEF Spec

\* TransferInvariant: a transfer reported as armed is with both miners or in a
\* block unless it was lost since (SucceededMeansArmed), an abort before a
\* submission leaves no lock and no priority behind once the job has left its
\* lane (AbortBeforeSubmissionIsClean), and what is selected pays and leaves
\* the reserve (ReserveIsKept): through failed saves and calls, restarts of
\* every process, and the delivery guard working on the same transaction.
THEOREM TransferHolds == Spec => []TransferInvariant
<1>1. FaucetInv => TransferInvariant
  <2> SUFFICES ASSUME FaucetInv PROVE TransferInvariant
    OBVIOUS
  <2> USE DEF FaucetInv, Types
  <2>1. TypeOK
    BY DEF TypeOK, JobTypes, ControlTypes, NodeTypes, Records, Progress
  <2>2. SucceededMeansArmed
    BY DEF SucceededMeansArmed, SecuredWhen, Secured
  <2>3. AbortBeforeSubmissionIsClean
    BY DEF AbortBeforeSubmissionIsClean, Tidy, Traceless, InLedger
  <2>4. ReserveIsKept
    BY DEF ReserveIsKept, Covers, Covered
  <2> QED  BY <2>1, <2>2, <2>3, <2>4 DEF TransferInvariant
<1> QED  BY <1>1, FaucetInvHolds, PTL
=============================================================================
