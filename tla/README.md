# Simchain: TLA+ specifications and proofs

Simchain runs a small regtest Bitcoin network (three nodes) whose blocks, traffic and
faults are produced by resident workers under a control plane. This directory models
the parts in which several threads and processes share control of the chain, checks the
models with TLC on small instances, and proves the central results with TLAPS for every
instance.

    tlc -workers 2 -config MiningControl.cfg MCMiningControl
    tlapm MiningControlProofs.tla        # likewise the other seven *Proofs modules

## 1. Inventory of the system

| Part | State it keeps | Operations | Hard behaviour |
|---|---|---|---|
| mining worker (`crates/mining-controller`) | `Inner` behind one mutex: desired state, lease table, policy and generation, pending policy, phase, in-flight flag; the miner's locals | status, state, acquire/renew/release lease, policy; bootstrap, sampling, generate, propagation check, interval | the server thread blocks for a safe point of the mining thread; leases expire by the clock; requests time out |
| spam worker (`crates/spammer`) | as above, plus initialization, reconciliation and policy failure; the engine, the schedule by height, the cycle and its sender threads | as above, plus building an engine, reconciling it with the chain, a cycle with one thread per miner node | two senders poll for a pause; a new engine may fail to build; chain changes are reported late |
| raw transaction engine (`raw_transaction_spammer.rs`) | its coins, a pending funding and fan-out, fills in flight, the height it has seen | rounds of spam, fee bumps, floor fills, bursts, funding, fan-out, reconcile, resync | the node mines, evicts and reorganises behind its back |
| network agent (`crates/network-agent`), one per node | one lease with a deadline, last error, history of answered requests; the namespace's nftables and tc state, which outlives the process | acquire, renew, release, expiry thread, clear at start | every command may fail with or without effect; repeated requests; a dead control plane |
| desired state (`control-plane`: apply, reconcile, control_state, storage) | `state.json` and its copy, the apply lock | apply with rollback and verification, manual pause and resume, reconciliation every five seconds | two workers and a file are changed in one transaction; any of them may fail half way |
| job manager (`jobs.rs`, `job_store.rs`) | jobs, lanes, durable lease intents, recovery contexts, checkpoints | start, abort, run, renew, clean up, recover after a restart | jobs hold leases on several workers across crashes; saves fail |
| faucet (`faucet_job.rs`, `faucet_store.rs`) | the job's recovery context, the transfer ledger | prepare, arm, submit, confirm, guard, recover | job, recovery and delivery guard work on one transaction while miners evict or confirm it |
| rewind and reorg jobs (`rewind_job.rs`, `crates/reorg`) | recovery context; the nodes' chains | invalidate, mine, race, verify, roll back, recover | three nodes are changed one after the other and relay to each other |
| scenarios (`scenario-engine`, `scenario_job.rs`) | step, runtime leases, settings backup, checkpoint | the steps, renewal, release, abort, restore | two threads and clients share leases and a checkpoint |
| live tuning, schema, catalog, API types | parsed documents | parsing, validation | data, no concurrency of its own |
| HTTP/MCP front ends, CLI, dashboard, scripts | none | routing, formatting | I/O |

**Interaction.** The control plane calls the workers' and agents' private HTTP servers.
Each server answers one request at a time and waits inside it, up to 30 seconds, for the
worker to reach a safe point; the client gives up after 35 seconds and does not retry. A
job pauses mining and spam with leases (TTL 120 s, renewed), changes the chain, and
releases them, telling the spam worker whether the chain changed. Leases live in the
workers' memory: a restarted worker has none. The durable desired state is applied to the
workers by generation number and reapplied by the reconciliation loop. Job table, faucet
ledger and desired state are separate files, each replaced as a whole.

**What makes each part correct.** A pause that was acknowledged excludes work until it is
released, expires or the worker restarts; a pause request that failed leaves nothing
behind; policies change only at safe points and only forward, except for rollbacks; an
impairment is in force exactly while its lease lives; the workers end up with what the
durable state says; whatever a job holds or has split can be found and undone after a
restart; incompatible jobs never touch the system together; a transfer is delivered or
given up; a rewind is done everywhere or nowhere. The hazards in `PROJECT.json` list
where the code could fail these.

## 2. Modules

| Module | Models | Composition |
|---|---|---|
| `LeaseTable` | the lease table both workers keep (expiry, insertion, rollback of an unacknowledged acquire) | extended by both workers |
| `PauseGate` | abstract specification: what a pause promises its clients | implemented by both workers |
| `MiningControl` | `control.rs`, the safe points of `bootstrap.rs` and the loop of `mining.rs` | LeaseTable, PauseGate |
| `SpamControl` | `control.rs`, the loop and the schedule of `runner.rs`, the rounds as the control sees them | LeaseTable, PauseGate |
| `OrderedSets` | sets as sequences in order | used by the next two |
| `RawEngine` | `raw_transaction_spammer.rs` and the bursts of `scenario_job.rs` over a node's mempool and chain | |
| `Replacement` | what a reorg mines: `double_spend.rs`, `wallet.rs`, `chain.rs`, the mining loop of `reorg.rs` | |
| `NetworkAgent` | one agent: `control.rs`, `system.rs`, `main.rs` | |
| `ConfigApply` | `apply.rs`, `reconcile.rs`, `control_state.rs`, the state changes of `service.rs` over two workers | composes the control plane with both workers' policy handling |
| `JobManager` | admission, lanes, leases, cleanup and recovery of `jobs.rs` | over abstract workers and agents |
| `Faucet` | `faucet_job.rs`, `faucet_store.rs`, the faucet parts of `jobs.rs` | job, recovery, guard and miners |
| `ChainNodes` | three nodes that know, reject, adopt and relay blocks | |
| `Rewind`, `Reorg` | `rewind_job.rs`; the phases of `reorg.rs` and `reorg_job.rs` | extend ChainNodes |
| `ChainJobs` | either job with its leases, cleanup, restart and recovery | composes Rewind and Reorg |
| `Scenario` | `engine.rs`, the scenario parts of `jobs.rs` and `scenario_job.rs` | steps, renewal, clients, recovery |
| `MC*` | constants for TLC | |
| `MiningControlProofs`, `SpamControlProofs`, `JobManagerProofs`, `FaucetProofs`, `ScenarioProofs` | the theorems of section 4 | each extends its module |
| `ConfigAgentProofs` | theorems about `ConfigApply` and `NetworkAgent` | extends both |
| `ReorgProofs` | theorems about `ChainJobs` and `Replacement`, and lemmas on ordered sets and folds | extends both |
| `RawEngineProofs` | theorems about `RawEngine` | extends it and, for those lemmas, `ReorgProofs` |

`PROJECT.json` maps every definition to the lines it stands for.

### Conventions

* One action is one critical section of a mutex, or one external call. Where the
  code waits on a condition variable with a timeout, the wait is a state of its own, left
  by a waking action or by a timing-out one.
* A deadline is the time still left to it. `Tick` ages all of them at once. The owner's
  view of its lease (`granted`) ages in the same step, so "the client still counts on it"
  and "the worker still has it" are comparable.
* An `Option` is a set with at most one member, which the type invariant states.
* `granted`, `pause_acked`, `owned`, `changes`, `orphaned`, `sample_fresh`, `guarded`,
  `rolled_back`, `untold`, `lost` and `upset` record what clients were told or what
  happened; no step of the code depends on them (`changes` and `owned` delimit what a job can
  report).
* Failures are drawn from a budget (`MaxFaults` and the like) where a behaviour has many calls: a call
  that fails has taken effect before the error or never; a save that fails leaves memory
  changed and the file as it was. Once the budget is used up failures have ceased, which
  is when the liveness properties of these modules bite.
* `steady` in `ConfigApply` is the environment's: from `Settle` on, operators and jobs issue
  no further request, calls to the workers no longer fail and no process ends.
* Several invariants of one module are checked as one named conjunction (`WorkerInvariant`,
  `LaneInvariant`, ...); each of its parts was confirmed to fail under a wrong definition
  of its own.
* The definitions called mutants are wrong versions of the definition below them, used to
  confirm that a property can fail. They take no part in any specification.

### MiningControl

`Request` is the server thread taking a request; `Answer` the end of a request it blocks
in; `Mine` a step of the mining thread. An acquire first inserts its entry and marks the
phase as pausing (`AcquireLease`), then is acknowledged once the phase is paused and
nothing is in flight (`AckLease`), or times out and is rolled back
(`LeaseTimesOut`, `RollbackUnacquiredLease`: two critical sections in the code, with
room for an expiry between them). The miner passes a safe point before sampling an
interval and another one after it; `begin_generate` looks at the pause once more.
`GenerateFails` is an RPC error, after which the node may go on (`orphaned`).
`WorkerRestart` loses everything in memory.

### SpamControl

`safe_point` decides among pending policy, pause, initialization, reconciliation, disabled
and ready, in that order; each answer is an action. A ready worker reads the block count:
`ahead` is by how much it exceeds `spammed_at_height` (capped at one; below zero after a
rewind), `catch_up` the generation of a policy that asked for a cycle without a new block.
A request made at a height the schedule has left is dropped at once or when it is next
looked at. A cycle runs one sender per node; each
asks `cycle_checkpoint` before every batch and gives up its remaining rounds of that kind
when interrupted. A lease that expires, or is released with `chain_changed`, asks for a
reconciliation, and `changes` tracks whether a completed reconciliation began after it.
`LateRelease` says whether a job may report a change after its lease has expired. All
requests of the run have one TTL, as the control plane's have: a second acquire of a lease
with a shorter TTL, made while work is in flight, times out after the earlier grant has
been overwritten in the table.

### RawEngine

One engine as one of its three uses: the output rounds of the worker, the floor pool, the
bursts of a scenario. Coins are outputs of modelled transactions; an amount is the number
of transactions a coin can pay for. The node mines a part of the mempool, evicts spam and
fills, and loses blocks to chain jobs, whose end the worker learns by reconciling; a burst
engine does not. `mode` is what becomes of the submissions of a round: accepted, refused,
or unanswered. Rounds are not tied to new blocks here (SpamControl has the schedule).

### Replacement

A graph of up to three original transactions, of which some were orphaned, is chosen
initially with its weights; then the plan (`BuildPlan`), the injections, and for each block
the selection by weight and the ladder of `mine_exact`: the exact list, the list without
what has left the mempool, the conflicts alone, the rest alone, an empty block; a list
refused goes on to the next one. Evictions between reading and mining use the budget of
failures.

### NetworkAgent

Both threads hold the mutex through the commands they run, so one operation is under way
at a time, but its commands are separate steps: each may fail and the process may end
between two of them. `kernel` is the namespace's state and survives the process.

### ConfigApply

A worker is reduced to its policy in force, its pending policy and its state; that a
pending policy is eventually applied or rejected is what `MiningControl` and `SpamControl`
show. A request is refused by the worker's own test, accepted and later acknowledged, or
fails with or without effect. Apply, manual state and reconciliation exclude each other
by `apply_lock`, hence one transaction at a time. Reading a worker's status fails only
together with the call that follows it. The verification may fail after any apply.

### JobManager

`mem` and `disk` are the job table before and after its save. A job's thread takes its
leases in the code's order, each with a saved intent before the call; then it executes,
cleans up and finishes, or leaves its lane to the recovery loop. `held` is what the
components really hold, `remembered` for how many more requests a worker answers the
recovery's release from its history of `RequestLimit` requests, `unsettled` the jobs that
may have left the nodes on different tips. The requests that use up that history are those
of the recovery itself, and only this module has it: in `Scenario`, `ChainJobs` and `Faucet`
a release that reaches the worker takes effect. Asking again with a known idempotency key returns the
job and changes nothing.

### Faucet

One transfer from request to end. The job's thread (`at`) runs `run_faucet_job` or
`recover_faucet_job`; `guard` is the delivery guard; both use `arm_prepared`'s steps on the
miners' mempools (`pool`) and priorities (`prio`). Amounts are small numbers over several
wallets, two of which cannot pay.

### ChainNodes, Rewind, Reorg, ChainJobs

A chain is a sequence of blocks; a node knows some, rejects some, and is on one that is
longest among those it may be on. Relay is asynchronous. A rewind invalidates the boundary on
node2, node3, node1 and verifies; a reorg invalidates on the miner, mines a longer branch,
and races until node1 adopts it. Every failure leads to the code's rollback or to recovery
after a restart. `foreign` counts blocks mined by others when a lease was lost.

### Scenario

A step is a program of operations (`Program`): acquire and release of leases, chain and
network operations, waits, checkpoint. The renewal thread copies the handles and renews
them one by one while the executor goes on. Cleanup and recovery are sequences of steps in
the code's order. `desired` stands for the settings, `backup` for those saved at the start.
Every step has a checkpoint record of its own in the saved table; a milestone is a
checkpoint that is reached and does not hold the script up.

## 3. Runs

| Run | Properties | Instance and why it is enough |
|---|---|---|
| `mining` | `TypeOK`, `PauseLeaseExcludesMining`, `LeaseTableMatchesGrants`, `ManualPauseOutlivesLeases`, `GenerateUnderItsPolicy`, `ImplementsPauseGate`, `NoSilentRegression`, `MiningLive` | leases that wait, are held and expire against a timeout shorter than their TTL; applies, timeouts, rollbacks, a generation number with two policies; no symmetry, since liveness is checked |
| `spam` | `WorkerInvariant`, `LeaseExcludesSpam`, `ReconciledBeforeSending`, `ImplementsPauseGate`, `NoSilentRegression`, `SpamLive` | one lease wanted by two jobs, two senders with two kinds of work each; spam switched off, on with a higher load, rolled back; a chain that may end up below the last cycle's height; failing builds, reconciliations and block counts |
| `agent` | `AgentInvariant`, `LeaseInForce`, `AtMostOnce`, `AbandonedImpairmentHeals` | two jobs with a partition and a degradation, a second owner of one lease, an identifier used twice, every request repeatable at any time, a history smaller than the number of identifiers so that entries are dropped |
| `config` | `ConfigInvariant`, `DesiredStateReached` | two generations over two configurations (one worker's policy changes, or both do), one worker paused and resumed by hand |
| `job_lanes` | `LaneInvariant`, `ConflictingJobsNeverOverlap` | three interchangeable jobs of any kind, one fault, a history of two so that finished jobs leave the table; invariants only, so symmetry is sound |
| `job_recovery` | `RecoveryInvariant`, `DurableOutcomeIsFinal`, `EveryJobLeavesItsLane` | one job of any kind, three faults: a failed save, a restart and a failing recovery in one behaviour; a history of two requests, so that a release is repeated both while it is remembered and after |
| `faucet` | `TransferInvariant`, `PendingResolves`, `OrphanNoticed` | four pairs of wallets, two faults, an orphaning, a restart of a miner, of the worker and of the control plane |
| `chain_jobs` | `ChainInvariant`, `RewindIsAllOrNothing`, `EveryChainJobEnds` | depth two on three nodes, three faults, one foreign block, up to two extra blocks in the race |
| `scenario` | `ScenarioInvariant`, `SettingsRestored`, `CheckpointGate`, `EveryScenarioEnds` | six scripts in which steps of every kind follow each other and share leases, two faults |
| `raw_engine` | `EngineInvariant`, `BranchesKept`, `FillsStandAlone` | six transactions: funding, fan-out, two rounds, a replacement, a fill coming back; one fault |
| `replacement` | `ReplacementInvariant`, `EveryBlockMakesProgress` | every graph of three transactions and one injected one, light and heavy, two blocks, three percentages |
| `spam_late_release` (violation) | `ReconciledBeforeSending` | see below |

Bounds: `MaxGeneration` in `BeginApply`; `Rounds`, `Stages` for the work of a cycle and of
the bootstrap; `MaxRewind` for how far a chain job takes the chain back; `MaxHistory`,
`RequestLimit` are the code's own limits made small; `MaxFaults` (`MaxFailures` in
`Replacement`, `MaxMishaps` in `RawEngine`), `MaxForeign`, `MaxExtra`, `MaxTxs`, `Depth` and
`ReorgDepth` as above. Deadlock is checked where the system never stops; a job, a
transfer, a scenario and a replacement plan may end.

The properties by name:

* `WorkerInvariant`: types, the lease table is what clients were told, a manual pause holds,
  a cycle has an engine tuned to the policy in force. `MiningLive`, `SpamLive`: every blocked
  request is answered, pauses take effect, abandoned leases end, pending policies are
  decided, work resumes once nothing prevents it.
* `AgentInvariant`: types; an agent at rest that reports no error has exactly its lease's
  impairment in its namespace. `ConfigInvariant`: types; no worker is more than one
  generation ahead of the durable state; a rollback keeps the durable state.
* `LaneInvariant`: types; a reorg or rewind holds both workers while nodes may be apart.
  `RecoveryInvariant`: held leases and split nodes are in the saved table with what their
  recovery needs.
* `TransferInvariant`: a transfer reported armed is on both miners with its priority, an
  abort before submission leaves nothing, the reserve is kept. `ChainInvariant`: the nodes
  agree when leases go back; a reported abort left the chain alone or took the branch away.
* `ScenarioInvariant`: a pause holds across steps, workers are held while nodes are split,
  spam is told of chain changes. `CheckpointGate`: a saved decision is final and the only way
  past the checkpoint.
* `EngineInvariant`: no confirmed coin falls out of the books, and nothing dead is waited
  for. `ReplacementInvariant`: a packed list can be mined, conflicts land, leftovers mean a
  full block.

### Fairness

Liveness is checked under weak fairness of the threads' own steps and of time:

* the mining and spam threads run, and their RPCs return or time out
  (`RPC_TIMEOUT_SECS`); the server thread wakes at the latest by its timed wait; the
  agent's expiry thread looks every 250 ms; the reconciliation loop comes round every five
  seconds, the recovery loop and the delivery guard every two; job threads run on;
* leases expire; blocks are relayed and, for `SpamResumes`, mined, which is what
  `MiningControl` shows of the mining worker;
* in `Faucet` the miners' blocks are strongly fair for a preferred transaction: the mining
  loop goes on whenever no lease is held, and the leases of guard and job come and go;
* no request is ever assumed to arrive, and no call to succeed;
* properties that need failures to cease say so in their premise (`MiningLive`, `SpamLive`,
  `AbandonedImpairmentHeals`, `DesiredStateReached`) or run on a fault budget.

`RawEngine` and `Replacement` state no liveness.

### Disagreements

Statements of the repository that the models refute. The first is the run
`spam_late_release`; the others are kept in their modules under the comment "Does not
hold", and TLC shows the behaviour when the line given is added to the module's
configuration.

| Statement | Line to add | What happens |
|---|---|---|
| "On lease release with `chain_changed=true`, reconcile both node2 and node3 engines before the next spam cycle" (`docs/plans/reorg-double-spend-raw-engine-plan.md:526`) | run `spam_late_release` | a release arrives during a reconciliation, whose completion clears the new request |
| "Pause after any in-flight generate and propagation check completes." (`simchainctl/src/commands/mod.rs:140`) | `INVARIANT PauseFollowsGenerate` | the generate RPC times out at the client, the worker pauses, the node is still generating |
| "A policy update here resets the RNG and must resample" (`mining.rs:64`) | `INVARIANT SampleFollowsReset` | an update and its rollback both happen at the second safe point; the generation is unchanged, so the old sample is used |
| "spam policy cannot change while a pause lease is active" (`spammer/src/control.rs:275`) | `PROPERTY PolicyFixedUnderLease` | a policy whose request timed out is still pending and is applied under the lease |
| "Every impairment now has an owning job and lease deadline" (`docs/PARTITIONS.md:152`) | `INVARIANT EveryImpairmentLeased` | a command fails after taking effect and the clear after it fails: no lease, no deadline; the agent reports `last_error` |
| "mixed mining/spam applies roll back transactionally" (`docs/CONTROL_PLANE.md:74`) | `PROPERTY RollbackIsFinal` | the timed-out generation is pending while the rollback is acknowledged and verified; the worker then takes it up, until reconciliation repairs it |
| "Network healing is first and is witnessed before either worker can resume" (`jobs.rs:3551`; likewise `docs/SCENARIOS.md:512`) | `INVARIANT HealedBeforeResume` (`JobManagerRecovery.cfg`) | when healing or the convergence witness fails, `cleanup_leases` records the error and releases the workers all the same |
| After a restart the control plane "heals each job's impairment, and releases only that job's worker leases" (`docs/PARTITIONS.md:189`) | `PROPERTY RecoveryEnds` (`JobManagerRecovery.cfg`) | a recovery round fails after its first release; the next takes that lease again and repeats the release under the same identity, which the worker answers from its history; the two workers forget their releases in different rounds (after 1024 requests in the code, two here), so neither round finds both leases gone |
| "The control-plane delivery guard repairs a missing miner copy" (`docs/RUNBOOK.md:313`) | `PROPERTY RepairsMissingCopy`, with `SPECIFICATION GuardedSpec` | the guard tests acceptance on both miners; the one that still has the transaction refuses it, so the other never gets its copy back while no block is mined |
| "either preserve a completed rewind or restore the original branch" (`rewind_job.rs:6`) | `INVARIANT CompletedRewindPreserved` | a rewind succeeded, its cleanup failed, and by the time recovery looks the chain has moved on from the boundary: it rolls the rewind back |
| "A control-plane restart ... clears or safely recovers its owned network/worker leases before another mutation may begin" (`docs/SCENARIOS.md:513`) | `PROPERTY InterruptedScenarioRecovers` | a reorg step after a network step: recovery waits for the nodes to converge first, which only the reorg recovery after it could bring about |
| "fills mined while a spam cycle overran a block interval are never missed" (`raw_transaction_spammer.rs:1347`) | `INVARIANT MinedFillsSeen` | a block between reconcile's look at the fills and its `get_block_count` is skipped by the next harvest; the fill waits for the next reconciliation |
| "Keep at least `need` independent branches usable" (`raw_transaction_spammer.rs:1189`) | `INVARIANT BranchesIndependent` | a funding output that a resynchronisation has already scanned is pushed a second time, so two entries are one coin |
| "a burst must not depend on unconfirmed branch reuse" (`scenario_job.rs:240`) | `PROPERTY BurstOnConfirmedBranches` | a second burst counts the change of the first one as usable branches |
| "a kept child's parent could only be excluded if the child were itself an excluded descendant" (`chain.rs:113`) | `INVARIANT KeptChildrenHaveKeptParents` | a transaction injected after the plan was made spends the change of one the plan excludes |

## 4. Proofs

Every theorem holds for all values of the constants: any number of leases, owners, jobs
and nodes where these are sets, any policies and requests, histories, timeouts, scripts
and fault budgets of any size. The named assumptions only say what kind of value a
constant is, except where noted.

| Module | Theorem | Statement | Assumptions |
|---|---|---|---|
| `MiningControlProofs` | `TypeCorrect` | `Spec => []TypeOK` | `ConstantsAssumption` |
| | `LeaseExcludesMining` | `Spec => []PauseLeaseExcludesMining` | |
| | `TableMatchesGrants` | `Spec => []LeaseTableMatchesGrants` | |
| | `ManualPauseHolds` | `Spec => []ManualPauseOutlivesLeases` | |
| | `GeneratesUnderItsPolicy` | `Spec => []GenerateUnderItsPolicy` | |
| | `RegressionIsRollback` | `Spec => NoSilentRegression` | |
| | `RefinesPauseGate` | `Spec => ImplementsPauseGate` | |
| `SpamControlProofs` | `SpamExcluded` | `Spec => []LeaseExcludesSpam` | `ConstantsAssumption`, `OneTtl` |
| | `WorkerInvariantHolds` | `Spec => []WorkerInvariant` | |
| | `RegressionIsRollback` | `Spec => NoSilentRegression` | |
| | `RefinesPauseGate` | `Spec => ImplementsPauseGate` | |
| | `ReconciliationComesFirst` | `~LateRelease => (Spec => ReconciledBeforeSending)` | |
| `ConfigAgentProofs` | `AgentInvariantHolds` | `AgentSpec => []AgentInvariant` | `AgentAssumption` |
| | `AcknowledgedLeaseInForce` | `AgentSpec => []LeaseInForce` | |
| | `RequestsActAtMostOnce` | `AgentSpec => AtMostOnce` | |
| | `AppliesStayInStep` | `Spec => []ConfigInvariant` | `ConstantsAssumption` |
| `JobManagerProofs` | `WorkersHeldThroughMutation` | `Spec => []LaneInvariant` | `JobConstants` |
| | `SavedTableSuffices` | `Spec => []RecoveryInvariant` | |
| | `NoConflictingOverlap` | `Spec => []ConflictingJobsNeverOverlap` | |
| | `OutcomesAreFinal` | `Spec => DurableOutcomeIsFinal` | |
| `FaucetProofs` | `TransferHolds` | `Spec => []TransferInvariant` | `FaucetConstants` |
| `ReorgProofs` | `ChainInvariantHolds` | `Spec => []ChainInvariant` | `ChainConstants`, `ExtraConstant` |
| | `AllOrNothing` | `Spec => RewindIsAllOrNothing` | |
| | `ReplacementInvariantHolds` | `BlocksSpec => []ReplacementInvariant` | `ReplacementAssumption` |
| | `BlocksProgress` | `BlocksSpec => []EveryBlockMakesProgress` | |
| `RawEngineProofs` | `EngineInvariantHolds` | `EngineSpec => []EngineInvariant` | `RawEngineAssumption` |
| | `FillsStandAloneHolds` | `EngineSpec => FillsStandAlone` | |
| | `BranchesKeptHolds` | `EngineSpec => BranchesKept` | |
| `ScenarioProofs` | `WorkersOfAScenario` | `Spec => []ScenarioInvariant` | `ScenarioConstants` |
| | `SettingsAreRestored` | `Spec => SettingsRestored` | |
| | `CheckpointsGate` | `Spec => CheckpointGate` | |

Two assumptions restrict more than a type. `OneTtl` (all acquire requests carry one TTL)
is how the control plane uses the spam worker: every lease of a job has the TTL
`lease_ttl_secs` (`jobs.rs:396`); section 2 says what a shorter second TTL does. `~LateRelease`
(a job reports a chain change only under a lease that still lives) is the hypothesis that
the violating run drops. `JobConstants` also says that the history is longer than
the number of nodes (100 to three in the code), so that there is a finished job outside
the lanes to trim.

The mining worker's `TypeOK` is inductive; none of the other invariants is. Each module has
an inductive invariant, checked with TLC before it was proved, and a lemma per action, or
per group of actions, that it is preserved.

**Mining worker.** An acknowledged pause is backed by the state that keeps the worker
paused (`GrantInv`: a table entry with the same time left, or the desired state, and a
phase of paused); a phase of paused rules out every program point of the miner from which
a call is outstanding or next (`PhaseInv`); a request still waiting for its lease implies
that nobody holds one and that its tentative entry is unchanged (`AcquireInv`); every live
entry is either acknowledged or that tentative one (`TableInv`). Their conjunction
`LeaseInv` gives the three pause theorems; the refinement proof uses it to show that a
granting step finds the gate at rest and that a beginning call finds it open. `PolicyInv`
(a pending policy that is no rollback is newer than the one in force; from the second safe
point on the sample belongs to the generation in force) gives the two policy theorems.

**Spam worker.** `PauseInv` and `TableInv` play the same parts. They differ in that a lease
may be acquired again while it is held and the runner is applying a policy: then the
table's entry is the new one, the client counts on the old one, and a rollback must not
promise less than the client was told. That is what `AcquireInv` and `TtlInv` record and
where `OneTtl` is used. `EngineInv` ties the engine to the policy in force. `ReconcileInv`
says that a possible chain change keeps the reconciliation pending until an engine has read
the chain after it, and that no lease but a tentative one exists while it reads.

**Network agent.** `KernelInv` says which impairments may be in the namespace during
and after a clear of which any command may have failed; `GrantInv` ties what clients were
told to the active lease; `HistoryInv` says that a request its client may still repeat is
at least that many places away from the end of the history that is dropped.

**Apply.** `Numbers` bounds, beside the workers' generations, the ones a transaction found
and the one it wants, since a rollback sends the former; `Working` says that the durable
state stays what it was when the transaction began until it is committed.

**Job manager.** `JobInv` is, apart from the lanes, a statement about one job (`Own`): both
tables, the one in memory and the one in the file, know what the job has out there
(`Knows`); the file is an earlier version of the memory (`Saved`); and the thread's position
determines which leases it may and must hold and what its cleanup and its recovery still
have before them (`Leasing`, `Cleaning`, `Runs`). The lemmas about a single save, call or
cleanup step are used for every kind of job.

**Faucet.** `Progress` relates the place of the job's thread to what memory and file say of
the job; `Covers` extends the reserve to the saved record, from which a restart continues;
`Secured`, that both miners were verified or that something happened to the transaction
since, is carried from the verification to every later place of the job and to both
records. For an abort the argument is `Tidy`: whatever is locked or preferred can be found
by the job's recovery material, in memory and in the file, or by the ledger, and a job
that ends without it leaves nothing. What the sum of a list of coins is plays no part.

**Rewind and reorg.** The argument rests on the nodes (`NodeInv`): a node is on a longest
chain it may follow, and a chain with the first block of the branch has all of it. Hence
"all nodes have the branch" and "none has it" last once they hold, whatever is relayed or
mined, and a rewind that has seen one of them may take its time to end (`RewindInv`). Of
a reorg the miner has every chain that exists, so its agreement with node1 lasts as well
(`ReorgInv`); once a foreign block has been mined nothing is claimed of a reorg.

**Scenario.** What the programs of the steps have in common (`ProgramFacts`: which operation
follows which, and where a failed one may leave a step) is proved once. `ScenarioInv` then
says for a thread at any operation which workers the runtime and the saved table have leases
on (`Leased`, `SplitHeld`), whether spam still has to be told of a chain change (`Telling`),
whether the settings are the original ones or their restoration is still to come
(`Restoring`, `RestoreSaved`), and which checkpoints are open (`Decided`).

**Replacement blocks.** The packing is a chain of folds and filters over ordered lists. A
fold is a function with a recursive equation whose existence, and the facts about it, are
proved by induction: a set of naturals that contains 0 and is closed under successor is
all of them. The library's induction theorems, whose parameter is an operator, are not
needed for it. What is known of the lists then is that a selection is an increasing
sequence of positions (`KeptPositions`, `KeptRange`), that filling in order never exceeds
the budget and passes over a transaction only if it does not fit (`FillInOrderFacts`), and that parents
come before children. `BlocksInv` adds to the property what it rests on: the plan's
conflicts are distinct and their originals excluded (`PlanKept`); the mempool is closed
under unconfirmed parents (`ClosedPool`), without which a packed list would not be minable;
every conflict is pending, mined or in the block under way (`NoneLost`); and of that block,
that its conflicts are all mined or none is, and they are not the whole of it once it was
refused (`Block`), so that whichever rung of the ladder is taken loses none of them.
`LastFull` carries to the end why the last block was full. TLC checked `BlocksInv` on the
run's instance and on one with a million states.

**Raw engine.** A ledger (`Ledger`) is what the node can have come to: a transaction spends
outputs of earlier ones, which live as long as it does. It survives submissions, evictions
with the whole family, blocks and undone blocks. `EngineInv` says: the engine's books hold
coins of that ledger and a pending funding and fan-out of the right kinds (`Books`); no
transaction is mined above the tip (`Dated`), which the harvest of the pool by height needs;
who may be doing what (`WhoDoes`); no output transaction merges coins (`Shapes`), so that
the family a fee bump throws out frees no coin of another branch; what a round has sent is
younger than what is pending (`SentLater`), so that a bump never replaces a pending
fan-out; and unless a reconciliation is owed, every unspent coin, in the mempool or
confirmed, is in the books, nothing dead is waited for, and the pool's coins are confirmed
(`Reconciliation`). The invariant needs the unconfirmed coins although the property is about
confirmed ones, since a block turns the former into the latter. `Keeps` states once what
every helper of the provisioning preserves: a coin it takes from the list turns up again as
what it became, pending or hidden by a lost answer. `FillsStandAlone` follows from the
pool's coins being confirmed. TLC checked `EngineInv` on eight million states per owner.

`BranchesKept` has two halves. That a fan-out leaves a round its branches follows from
`EngineInv` by counting through one call of `EnsureFunds`: confirming what is pending only
appends to the list (`Continues`), a rebuild happens only when it is empty, and the split
takes one of more than the minimum, or the funding that has just come on top
(`LeavesMinimum`). That a bump orphans nothing the engine knows of is not inductive: it
needs `Tips`, which says of everything a round has sent that its change is listed once at
most and that, while it is listed, whatever spends it is childless: one transaction whose
answer was lost, whose own change is hidden, and from which nothing spends. A later bump
keeps this because the transaction it replaces is itself listed, hence spends no listed
change of an earlier one. The family of a listed tip is then the tip and its direct
spenders (`FamilyOfTip`). TLC checked `Tips` on the run's bounds and with two bumps and two
faults.

**What the proofs changed.** Two properties turned out to be false outside the instance the
run checks, and were corrected. `LeftoverMeansFull` had as its premise that no child of an
excluded transaction is left in the mempool (`Overtaken`); it needs that none was there when
the block was packed either (`Entangled`): such a child is dropped with its parent's
refusal and has cost the block the rest (five originals, four orphaned, one injected).
`FanoutKeepsMinimum` compared the branches after a burst with those before it, although the
second half of a burst reconciles first (three transactions of a burst, three failures).

Only model-checked: the liveness properties (`MiningLive`, `SpamLive`,
`AbandonedImpairmentHeals`, `DesiredStateReached`, `EveryJobLeavesItsLane`,
`PendingResolves`, `OrphanNoticed`, `EveryChainJobEnds`, `EveryScenarioEnds`). Fairness and
`ENABLED` are outside the prover's reach. Every safety property of a passing run is stated
by a theorem.

## 5. Not modelled

* The workers' histories of completed requests beyond what a repeated release needs (the
  clients never repeat another request; the agent's equal mechanism is modelled), a request
  still queued in a server after its client gave up, reported counters, heights and hashes.
* The contents of policies beyond what tells two of them apart; parsing and validation;
  scenario documents and their catalog; job events.
* Keys, signing, fee rates, vsizes; how a node picks transactions for a block beyond weight
  and order. The nodes evict only spam and fills, and a block leaves out at most one
  transaction with its descendants.
* Two or more transfers: `start_faucet` refuses a second one while the first is pending.
* The bootstrap's block arithmetic and the miner's choice of node.
* The node wallet engine (`node_wallet_spammer.rs`) is deprecated; front ends, CLI and
  scripts are I/O.

An apply that disables spam while it is manually paused fails its verification every time
(`apply.rs:402`): the models cover the rollback, no property speaks of the refusal.

## 6. Plan

The modelling plan is carried out, and every safety property that a run checks is proved.
What is left are action properties of single components worth stating beside the
invariants: that a guard never re-arms a transfer that has ended, that a recovery never
widens what a job holds.
