# JUMI: TLA+ models, model checking and proofs

JUMI takes an executable run (a graph of nodes, each a container image with
inputs and outputs), executes every node as a Kubernetes Job and reports what
became of it. Its promise is not throughput but restraint: user code is never
run twice by mistake, no outcome is reported that was not observed, and a run
survives a restart of the process. This directory models the part of the
program that carries that promise, checks it with TLC and proves the central
results with TLAPS.

## 1. Inventory

| Part | Source | State | Operations |
|---|---|---|---|
| Durable records | `pkg/spec/types.go`, `pkg/registry/{memory,sqlite}.go` | `RunRecord`, `NodeRecord`, `AttemptRecord`, events | `CreateRun`, `UpdateRun`, `UpdateNode`, `UpsertAttempt`, `AllocateCurrentAttempt`, `OpenSemanticAttempt`, `PersistBackendHandle`, `PersistCancellationIntent`, `PersistProcessCompleted` |
| Run execution | `pkg/executor/executor.go` 120-540 | `activeRun` (context, handles, unresolved flag) | `Admit`, `executeRun`, `runGraph` with its fast-fail watcher, `finalizeRun`, `Cancel` |
| Node execution | `executor.go` 541-1286 | `nodeRunner`, local variables of one goroutine | `RunE`, `runAttemptBody`, `waitAndFinalize`, `failNode`, `terminalizeFailed`, `cancelNode`, `deferFinalizationAfterSuccess` |
| Recovery | `reconcile.go`, `executor.go` 1288-1586 | none of its own | `Recover`, `ClassifyReconcile`, `recoverCanceledRun`, `driveCancellation`, `tryRestoreHandle`, `reconcileByIdentity`, `attachResolvedHandle`, `repairTerminalProjection` |
| Input resolution | `executor.go` 737-831, 1588-1660, 1955-2397 | locality hints, post-scheduling resolves | `resolveBindingForExecution`, `classifyResolvedBinding`, `applyPlacementHints` |
| Output registration | `executor.go` 1792-1876, `spawner_k8s.go` 260-520, `pkg/provenance` | none | `collectOutputMetadata`, `registerNodeOutputs` |
| Kubernetes adapter | `pkg/backend` | none (handles are values) | `PrepareNode`, `StartNode`, `WaitNode`, `CancelNode`, `ResolveByIdentity` |
| Job client | `pkg/spawner/k8s_jobclient.go` | none; the API server's Jobs | `Create`, `Watch`, `Delete`, `Snapshot` |
| Service API | `pkg/api` | none | `SubmitRun`, `CancelRun`, reads |
| Specification | `pkg/spec/validate.go` | none | `ValidateExecutableRunSpec`, `ApplyDefaults` |
| Handoff clients | `pkg/handoff` | none; the remote service (AH) | `ResolveBinding`, `RegisterArtifact`, `NotifyNodeTerminal`, `FinalizeSampleRun`, `EvaluateGC` |
| Metrics, status, main | `pkg/metrics`, `pkg/observe`, `cmd/jumi` | counters | no state anyone reads back |

**Interaction.** `SubmitRun` stores the run and its nodes, then `Admit` starts
the run goroutine. The run goroutine registers itself in `DagEngine.active` and
lets the graph library start one runner goroutine per node. Runners talk to the
registry, to AH and to the Kubernetes adapter, and register their backend handle
in `activeRun.handles`. `Cancel` runs on the caller's goroutine: it writes the
run, ends the run's context, deletes the Jobs of the registered handles and then
goes over the node records. A watcher goroutine polls the node records and does
the same to its own run when a node Failed. None of these share a lock beyond
single registry transactions and the two small maps; everything between two
transactions can be interleaved, and the process can die there.

**What is hard.** A submission crosses to Kubernetes between two registry
transactions, and its answer can be lost. Three goroutines write the same node
record. Errors of many writes are ignored on purpose. Recovery has to tell from
the records alone whether a Job may exist. An outcome is reported to AH and to
the registry in separate steps. `PROJECT.json` lists these hazards with the
line where each bites and the properties that watch it.

**What makes each part correct.**

- Records: an attempt keeps an anchor (fence, handle or terminal status) from
  the moment it may have been submitted.
- Node execution: at most one execution of user code; the number of realization
  cycles is bounded across restarts; a success is earned and reported before it
  is recorded; a settled outcome is final.
- Recovery: a submitted attempt is classified as one to reattach, resolve or
  repair, never as one to resume or replace.
- Run execution: a run whose goroutine ended is settled or marked; goroutines
  end; a failed workload settles its node.
- Input resolution: a Job is submitted only with every input resolved and every
  hard placement honoured; the nested retry loops stay within their budgets and
  use them; resolution ends.
- Job client: references, reports and deletions concern the Job they name, not
  whichever Job has the name now; a watch ends.
- Run graph: a node is submitted only below parents that ended without failing;
  a skip has a cause and a true root; a Succeeded run is settled; every run comes
  to rest.
- Output registration: the service hears of a success only when it holds every
  output, all of them from one manifest of one Pod, and nothing changes once the
  attempt is Completed.
- Specification and Job: exactly the acyclic graphs are accepted; what is accepted
  becomes a Job that carries the inputs, placement, queue and grace period of its
  node, or is refused before the submission fence.

## 2. Modules

| Module | Contents |
|---|---|
| `ExecutionRecords` | The records, their status sets, and the registry operations and `ClassifyReconcile` as operators. No variables. |
| `NodeExecution` | The state machine: one run with one node, its three goroutines, Kubernetes, AH, crashes and faults. Also the properties and the inductive invariants. |
| `NodeContract` | What a node promises to an observer: executed at most once, Succeeded only after an execution, Succeeded and Failed are final. |
| `NodeExecutionProofs`, `NodeOutcomeProofs` | The theorems about `NodeExecution`, for every value of the constants: executions, ceiling and refinement; outcomes and what AH is told. |
| `InputResolution` | One node runner between the allocation of an attempt and `PrepareNode`: the two retry loops, answers, hints and placement, repeated cycles, and the resolution repeated after scheduling. |
| `MCInputResolution`, `InputResolutionProofs` | The bindings, answers and placements with which TLC checks it; its theorems. |
| `JobClient` | The Job client and `ResolveByIdentity` against the API server, request by request, for one Job name and several clients. Also the properties and the inductive invariant. |
| `JobClientProofs` | The theorems about `JobClient`. |
| `RunGraph` | A run of several nodes: run goroutine, watcher, one runner per node, skip loop, Cancel node by node, startup sweep. |
| `MCRunGraph`, `RunGraphProofs` | Its graphs for TLC; its theorems, for every graph. |
| `OutputRegistration` | The finalization of a successful attempt: the Pods and the manifests they leave, the choice of the Pod, the checks, one call per output, the report and the two writes, driven again after a failure or a crash. |
| `MCOutputRegistration`, `OutputRegistrationProofs` | Its manifests for TLC; its theorems. |
| `SpecValidation` | `ValidateExecutableRunSpec`: the field checks, and the depth-first search call by call in every order. |
| `JobTemplate` | From a node to its Job as operators: defaults, clone, placement hints, environment, contract, request, its last validation, the Job. |
| `SpecToJob` | The composition of the two: a submitted specification on its way to Jobs. |
| `MCSpecToJob`, `SpecToJobProofs` | The specifications for TLC; the theorems about the search and about the Jobs. |
| `LeastElement` | The least-number principle, for the proofs. |

`NodeExecution` is the composition: run goroutine, runner, Cancel handler,
records, Kubernetes and AH step together in it. It takes from the modules of the parts what
they show. The resolution of the inputs is one step there, which either yields
the bindings or fails the node (`ResolveInputs`, `InputsFail`), and the
adapter's calls are one step each, which concern the right Job. The registration of
the outputs is one step there too, and `OutputRegistration` takes it apart.
`RunGraph` composes the other way: it has several nodes and every goroutine that
looks at more than one of them, and reduces a runner to what the others see of it,
the writes to the node's status, the crossing of the fence and what `RunE` returns.

### 2.1 Granularity

One action per registry transaction or external call: these are the points at
which another goroutine or a crash can fall. Code between two such points reads
and writes only the goroutine's own variables and is folded into the action that
ends it. `BestEffort...` stands for a write whose error the code discards (a
fault loses it); `StoreErrorAborts` is the common exit of the calls whose error
the code returns at once.

### 2.2 State

`run`, `node` and `attempts` are durable and survive `Crash`. `node` keeps the
status, the current attempt, whether the handle is on the node, and the
realization count; an attempt keeps its status, fence (`SubmissionWindowOpenedAt`),
handle, re-attemptable mark, cancellation intent and process-completed fact.
Timestamps, reasons and events are left out: no guard of the code reads them,
except the terminal reason, of which only what `Reattemptable` tells apart is
kept. `active`, `runner` and `cx` are the program counters and locals of the
run goroutine, the node runner and the Cancel handler. `jobs`, `execs` and `told`
belong to the outside: the Job under each attempt's deterministic name, the
number of Jobs created, and the facts AH was told.

The registry modelled is the SQLite one, which refuses a write on a context
that has ended (`SetRunRunning`); `MemoryRegistry` differs only there.

### 2.3 Actions and code

| Actions | Code |
|---|---|
| `Admit`, `AdmitFails` | `Service.SubmitRun`, `DagEngine.Admit` |
| `BeginRun` ... `HandoffFinalize` | `executeRun`, `runGraph`, `finalizeRun` |
| `FastFail` | the watcher goroutine of `runGraph` |
| `CancelRequest` ... `CancelAbandoned` | `DagEngine.Cancel`, one action per transaction |
| `RunnerStart`, `Classify`, `RepairProjection` | `RunE`, `reconcileBeforeAllocation`, `driveCancellation`, `repairTerminalProjection` |
| `Allocate`, `Resume`, `BuildBindings` ... `OpenFails` | `runAttemptBody` up to the submission fence |
| `StartNode` ... `MarkRunning` | submission and its three durable records |
| `Reattach`, `IdentityFound`, `IdentityUnresolved`, `AttachPersist`, `AttachWait` | recovery of a submitted attempt |
| `WaitSucceeded` ... `Unresolved` | `waitAndFinalize`, `deferFinalizationAfterSuccess`, `reconcileUnresolved` |
| `FailNode` ... `CancelBareNode` | `failNode`, `terminalizeFailed`, `cancelNode`, `markNodeCanceledNoAttempt` |
| `Crash`, `Recover` | end of the process; `DagEngine.Recover` |
| `JobFinishes`, `JobExpires`, `Timeout` | Kubernetes; the node's `TimeoutPolicy` |

In `InputResolution`, `Accept`, `RejectContract`, `Refuse` and `Postpone` are what
`resolveBindingForExecution` and its caller do with an answer;
`TransientError`, `PermanentError`, `TryAgain`, `PollAgain` and
`PauseInterrupted` are the two loops; `Place` is `applyPlacementHints`;
`PrepareFails` sends `RunE` round on the same `nodeRunner`, whose hints survive;
`Scheduled` and `ObserveAnswer` are `ObserveNode` and the second resolution.

In `JobClient`, an operation is the sequence of its requests: `CreateRequest` and
`CreateGet`; `ResolveByIdentity`; `DeleteGet` and `DeleteRequest`; `Snapshot`;
`WatchGet`, `WatchOpen`, then `JobEvent` and `PodEvent` until the channels close.
The Jobs under the name, their UIDs and the numbered events are the API server's
(`NewJob`, `RemoveJob`, `JobFinishes`), the reader of the channel is the spawner
runtime's (`Receive`).

In `RunGraph`, `BeginRun` to `HandoffFinalize` are `executeRun`, `runGraph` and
`finalizeRun`, whose read of the nodes (`FinalizeListNodes`) and write of the run
(`FinalizeWrite`) are two steps; `GraphNotStarted` is a graph library that refuses;
`SkipPending` is one round of the skip loop; `WatchFailed` and `WatchCancel` are the
watcher; `Release` is the graph library calling a runner, `Classify` to
`DriveCancellation` are that runner; `CancelRequest`, `CancelSignal` and
`CancelNextNode` are `Cancel`; `Crash`, `Recover` and `DriveEnds` the end and the
startup of the process. "Ready" stands for every status between Pending and Running.

In `OutputRegistration`, `WaitSucceeds` and `WaitFails` end `WaitNode`, `Collect` is
`CollectOutputMetadata` with `findJobPod`, `ParseArtifactManifest` and
`validateObservedManifest`, `RegisterOutput` one turn of `registerNodeOutputs`,
`Notify`, `CompleteAttempt` and `SucceedNode` the rest of `waitAndFinalize`, `Defer`
is `deferFinalizationAfterSuccess`, `Restart` what the sweep makes of the attempt.
Pods start, end with a manifest, are preempted and are removed as Kubernetes
pleases. A manifest is a record of the fields the code compares: whether it is
JSON, the schema, three ids that are absent, own or foreign, and the artifacts.

In `SpecToJob`, `CheckFields` is the part of the validation before the search,
`StartVisit`, `VisitNext` and `Leave` are the outer loop, the inner loop and the
return of `visit`, and `CreateJob` is one cycle of `runAttemptBody` from `cloneNode` to
`Create`, with every input resolved. It is one step because the execution node belongs
to the runner alone, but not one that passes values on: `ApplyDefaults` fills in,
`CloneNode` keeps of a placement the node selector only, the answers about the inputs
add to the environment and, through `ApplyPlacementHints`, to the placement, and three
checks may end it, two before the submission fence (colliding names, conflicting
placements) and `RequestRefused` behind it. An input carries AH's answer: mode, paths,
and the mode and node of its placement intent. Run and node identifiers are told apart
as empty, white space (`BlankId`) or proper. `rank` and `clock` are history: the order
in which the visits returned.

### 2.4 Two adapters

`Adapter = "k8s"` is `SpawnerK8sAdapter`: `PrepareNode` never fails and a failed
workload comes back as an *error* of `WaitNode`. `Adapter = "contract"` is what
`backend.Adapter` allows and the executor is written for: `PrepareNode` may fail,
and a failed workload may be reported as a result. Every behaviour of the first
is one of the second with `FlakyCalls`, so the safety runs use `"contract"`; the
runs about the deployed adapter use `"k8s"`.

## 3. Runs

Constants common to the runs of `NodeExecution`: `Ceiling = 2` realization cycles and
`MaxAttempts = 2`. The ceiling in the code is 32; 2 is the least value at which
there is a first, a further and a refused cycle. The two restarts of `node_safety` let
a recovery itself be interrupted and recovered, `node_liveness` has one; one Cancel
meets every step of the other goroutines; one registry fault reaches every ignored
error. Deadlock is not checked: a run is meant to come to rest, and the ways it may rest
are stated by `StoppedIsAccounted` and `Quiesces` (and by `Terminates` and `WatchEnds`
for the other two modules).

| Run | Checks | Shows |
|---|---|---|
| `node_safety` | `TypeOK`, `AtMostOneExecution`, `SubmittedIsRecoverable`, `RealizationBounded`, `SucceededIsEarned`, `NoContradiction`, `StoppedIsAccounted`, `OutcomeIsFinal`, `ImplementsContract` | all of them hold over two crashes, a cancellation, a timeout, lost answers and expired Jobs, as long as the registry loses no write |
| `node_liveness` | `Quiesces`, `FailureSettles`, `AttemptOutcomeIsFinal` | every goroutine ends, a failure reported as a result settles the node across a restart, and a settled attempt stays settled even when a registry call fails |
| `input_resolution` | `SubmittedIsResolved`, `RequiredIsHonoured`, `CallsBounded`, `RetryableIsRetried`, `Terminates` | two bindings through the nested loops, with every kind of answer and error, a second cycle, a cancellation and a crash |
| `job_client` | `RefIsOwn`, `ReportIsTrue`, `DeleteSparesOthers`, `WatchEnds` | two clients of one attempt, while Jobs finish, vanish and are created again between any two requests |
| `output_registration` | `ToldIsRegistered`, `SucceededIsComplete`, `SuccessIsPreferred`, `RegisteredIsUsable`, `FreshIsOwn`, `CompletedIsFrozen`, `ReportedIsStored` | the finalization over two Pods with any of twelve manifests, a crash and a failing call anywhere |
| `run_graph` | `ParentsEnded`, `SkipHasCause`, `CauseIsRoot`, `SucceededIsSettled` | three nodes on two branches with fail-fast, a node timeout, a crash and a Cancel at any moment |
| `run_graph_liveness` | `RunSettles`, `NodesSettle` | without fail-fast and with a second cycle per node, every run comes to rest, terminal or left as unresolved for the next startup, and no node stays Pending beside a terminal run |
| `spec_to_job` | `AcceptedHasOrder`, `RefusedHasCycle`, `RefusalIsUnforeseen`, `ContractIsFaithful`, `InputsReachNode`, `JobHonoursNode` | every graph on four nodes in every order of the search, and combinations of the fields that reach the Job, among them placements by node, by default and by the answers |

The runs visit between 34,000 (`job_client`) and 2.6 million states (`run_graph`); the
longest, `node_liveness`, takes about a minute and a half.

**Bounds of `input_resolution`.** One required and one optional binding tell every
branch of the classification apart and let two answers disagree about the node;
two tries and two polls give each loop a first, a repeated and a last round; two
cycles let hints survive into a cycle that did not ask for them; one crash starts
a cycle without them. The answers are one of each kind the code distinguishes, on
two nodes, a missing artifact with and without a placement among them.

**Bounds of `job_client`.** Two Jobs under the name are a Job and its successor; two
clients are the process and the one it replaced; a channel of two holds a Pod
event and the terminal event behind it, and can be full (the code's capacity is
16). Requests fail and streams break freely.

**Bounds of `output_registration`.** Two outputs with an empty name between them; two
Pods, the preempted one and its replacement, which may end in the same second; one
crash, so that a second process drives the finalization again; one failing call,
which may have had its effect. Each of the twelve manifests fails, or passes, a
check that no other one tells apart.

**Bounds of `run_graph`.** A root of its own and an edge beside it: a failure meets a
branch that does not depend on it, and a Skipped node has a dependent. One
realization cycle there, two in `run_graph_liveness` on a chain of two, where the
failure policy is the other one. One crash reaches every step of the skip loop and
of Cancel; one Cancel meets every step of the others, and the theorems of
`RunGraphProofs` hold for any number of both.

**Bounds of `spec_to_job`.** Four nodes are the least number at which two branches
meet below a common node whose successor is already seen, whatever the start.
Timeouts and grace periods lie below, on and above the second at which the code
rounds. Two answers and two hosts let answers agree and disagree with each other, with
the node's selector and with the default one.

**Fairness.** `node_liveness`: weak fairness of each goroutine's steps (the Go
scheduler), of `Recover` (the Deployment restarts the process) and of
`JobFinishes`. The last is an assumption on the workload, that user code ends: no
code of the repository sets a deadline on the Job. Nothing makes a Job expire, a request arrive, a call fail or a process crash.
`input_resolution`: weak fairness of the runner's step; a call has a timeout, a
pause a timer. `job_client`: weak fairness of requests and of the reader, strong
fairness of `WatchStep`: the goroutine selects between a Job and a Pod event, and
Go picks at random among the ready ones, so that a stream of Pod events cannot
hide the Job event for ever. Nothing makes a stream break or a Job end.
`run_graph_liveness`: weak fairness of the run goroutine and the sweep, the watcher,
Cancel, each runner and the call of each runner by the graph library; a wait ends
because a Job does, or because its observation does. `output_registration`: weak
fairness of the finalizing goroutine and of the restart; a Job may run for ever.

### 3.1 Where the code departs from what is written about it

Each of these is a run that TLC ends with a counterexample; the finding in
`PROJECT.json` quotes the line it contradicts.

| Run | Property | In short |
|---|---|---|
| `rerun_after_lost_handle` | `AtMostOneExecution` | one lost `PersistBackendHandle`, a crash and an expired Job: user code runs twice, because the Started record erased the fence |
| `failed_job_stays_open` | `FailureSettles` | with the Kubernetes adapter a failed Job never makes its node Failed |
| `skipped_node_releases` | `SkippedReleasesNothing` | a crash in the skip loop: the dependent of a Skipped node is submitted |
| `required_node_dropped` | `RequiredNameReachesJob` | `cloneNode` copies the node selector only: the `requiredNodeName` of a spec never reaches its Job |

`AtMostOneExecution` thus holds without registry faults (`node_safety`, theorem
`NoRerun`) and fails with one; `FailureSettles` holds for an adapter that reports
failures as results and fails for the deployed one; `ParentsEnded` counts a Skipped
parent as ended, as the code does, and `SkippedReleasesNothing` does not;
`JobHonoursNode` speaks of the node selector and of the answers, which survive
`cloneNode`, and `RequiredNameReachesJob` of the required name, which does not.

### 3.2 Known disagreements

Smaller ones, each reachable in the models in a few steps and visible in the lines
named. They have no run of their own; the hazards in `PROJECT.json` refer to them.

- **A retry does not execute again.** `specs/001-retry-semantics/spec.md:37` says that a
  node with `maxAttempts = 2` that always fails "is executed exactly **2** times (1
  retry)" (also FR-001 and FR-004 there, lines 75 and 78, and SC-001, line 95), and
  `docs/JUMI_CANCEL_FAILURE_RETRY_SEMANTICS.ko.md:184-202` counts start and wait errors
  among the failures that give the node a new attempt. The code refuses both: once
  `StartNode` may have had its effect, a failure is terminal or unresolved whatever is
  left of `MaxAttempts` (`executor.go:1070`, 1206, 1229), only a failure before the
  submission starts another cycle, and its tests (`f3_b2_test.go`,
  `dag_engine_lifecycle_test.go:225-232`) pin that. `MaxAttempts` remains as a cap on the
  submission windows opened (`executor.go:863`). The models follow the code:
  `AtMostOneExecution` and `ImplementsContract` hold with `MaxAttempts = 2`, which the
  acceptance scenario of the document contradicts.
- **A contradictory default is dropped, not refused.** The label contract
  (`docs/JUMI_K8S_JOB_LABEL_CONTRACT.md:77-78`) wants a `requiredNodeName` that conflicts
  with the node selector to fail fast. Validation does so for a node's own placement; a
  default placement is never checked, and `cloneNode` then removes its required name
  (`executor.go:1892`), so that the selector wins silently.
- **White space is an identifier.** `ValidateExecutableRunSpec` refuses empty run and node
  ids (`validate.go:12`, 25), `validateK8sJobCreateRequest` those that are empty without
  their white space (`k8s_jobclient.go:447-455`), behind the submission fence, where the
  refusal leaves the attempt unresolved. The same holds for the values of labels.
- **A timed-out parent releases its dependents.** A node timeout ends the wait as a
  cancellation (`executor.go:1190`): the node is stored as Canceled, `RunE` returns nil and
  the graph goes on below it while the Job may still run. `ParentsEnded` counts it as ended.
- **A run is finalized beside an unknown node.** `d.Wait` returns with the run's context
  (`executor.go:365`), also when a runner is yet to find out that it cannot tell what
  became of its Job.
- **An empty location counts.** `registerNodeOutputs` accepts an output whose only location
  entry has no content (`executor.go:1818`), and the gRPC client leaves the entry out:
  `RegisteredIsUsable` excepts it.
- **A run leaves Canceled.** `runGraph` stores Running without looking at the status
  (`executor.go:307`); a Cancel between `registerActiveRun` and that write is
  overwritten. `docs/JUMI_STATE_TRANSITION_SPEC.ko.md:68` excludes it.
- **A Succeeded run without a success.** `finalizeRun` starts from Succeeded
  (`executor.go:430`), and a run whose nodes are all Skipped stays there; compare
  the same document at line 81.
- **Canceled without a confirmed deletion.** `driveCancellation` discards the error of
  `CancelNode` and takes the ended context for a confirmation (`executor.go:1345`);
  the comment at 1560-1565 says why the sibling path must not.
- **The completion is written and never read.** `PersistProcessCompleted` is meant to
  survive the Job (`executor.go:1124`), but `ClassifyReconcile` does not look at it.
- **Hints accumulate.** `r.localityHints` is appended to in every cycle
  (`executor.go:1604`), so a `required_node` of an abandoned cycle pins the Job of a
  cycle whose answer is a preference
  (`docs/JUMI_ARTIFACT_MATERIALIZATION_CONTRACT.md:45-47`).
- **A refused manifest is accepted after a restart.** `runFromHandle` passes `r.node`
  (`executor.go:1286`), whose Env lacks the ids, and `validateObservedManifest`
  compares only the ids it has. `FreshIsOwn` holds until the first restart.
- **An open node beside a Failed run.** A node that is Ready or behind its fence when
  fail-fast ends the run is neither Skipped nor Canceled
  (`docs/JUMI_CANCEL_FAILURE_RETRY_SEMANTICS.ko.md`, section 4.4); `NodesSettle`
  therefore speaks of Pending nodes.
- **Blank outputs.** A node whose output names are all blank runs under the helper
  without a contract (`InputsReachNode` excepts it).

## 4. Proofs

`NodeExecutionProofs` proves, for every value of the constants:

| Theorem | States | Assumes |
|---|---|---|
| `TypeCorrectness` | `Spec => []TypeOK` | the constants' types |
| `RealizationCeiling` | `Spec => []RealizationBounded` | the constants' types |
| `OutcomesAreFinal` | `Spec => OutcomeIsFinal` | the constants' types |
| `NoRerun` | `Spec => []AtMostOneExecution` | `MaxFaults = 0` |
| `Recoverability` | `Spec => []SubmittedIsRecoverable` | `MaxFaults = 0` |
| `Refinement` | `Spec => ImplementsContract` | `MaxFaults = 0` |

and `NodeOutcomeProofs`, which extends it:

| Theorem | States | Assumes |
|---|---|---|
| `AttemptOutcomesAreFinal` | `Spec => AttemptOutcomeIsFinal` | the constants' types |
| `SuccessIsEarned` | `Spec => []SucceededIsEarned` | `MaxFaults = 0` |
| `NothingContradicted` | `Spec => []NoContradiction` | `MaxFaults = 0` |
| `StoppedRunsAccounted` | `Spec => []StoppedIsAccounted` | `MaxFaults = 0` |

`MaxFaults = 0` is not a convenience: each of the six statements that have it is
false with one fault. `rerun_after_lost_handle` shows it for the first, and TLC finds
counterexamples to `SucceededIsEarned`, `NoContradiction` and `StoppedIsAccounted`
when the constant of `node_safety` is set to 1. Restarts, cancellations and attempts are
unbounded in the theorems (any natural number).

The argument has six layers, each an inductive invariant checked with TLC
before it was proved (`RecordInv` also with two faults).

1. `SafetyInv`: types; the runner works on the node's current attempt
   (`RunnerInv`); wherever control can still reach `Allocate` the ceiling leaves
   room (`RealizationInv`, needed because the guard is in `failNode` and the
   allocation several steps and possibly a crash later); and no runner that could
   still write a status runs on a settled node (`OutcomeInv`).
2. `SubmissionInv`: once a Job was created, the records keep an *anchor* to its
   attempt, and the runner is nowhere from which it could submit again. The
   anchor changes form (fence, then handle, then terminal status) as writes
   replace the record, and each form must be in place before the previous one is
   erased; this is what the one lost write breaks.
3. `EarnedInv`: a success on record, or on its way there, has an execution
   behind it. With it every step of the executor is a step of `NodeContract` or
   leaves its variables alone (`RefinementStep`).
4. `RecordInv`: no attempt beyond the allocated ones is on record, and the runner is
   at a step that writes an attempt only while that attempt is open. A write of the
   runner replaces the record, so this is what keeps a Completed or
   Errored attempt as it is; it needs no assumption on faults, because a lost write
   leaves the attempt more open, not less.
5. `ToldInv`: AH, the records and the Jobs agree. Whoever is on the way to storing a
   success has told AH of the outputs and of the success, in this order; AH is told of
   a failure only after the node is Failed, and no runner that may still fail the node
   has told it of a success. It rests on layers 1, 2 and 4.
6. `AccountInv`: the run goroutine writes only terminal outcomes, and ends after
   having written one or having marked the run.

Each layer has one lemma per group of actions (`...Step`) and a temporal
theorem. What a registry operation does to an attempt's flags is stated once
(`AttemptFlags`, `AttemptUpserts`) and cited.

`JobClientProofs` proves, for any number of clients, Jobs and buffered events,
with or without failing requests:

| Theorem | States |
|---|---|
| `ReferencesAreOwn` | `Spec => []RefIsOwn` |
| `ReportsAreTrue` | `Spec => []ReportIsTrue` |
| `DeletionsSpareOthers` | `Spec => DeleteSparesOthers` |

The inductive invariant is `ClientInv`. Its core is `StreamInv`: a watch between
its Get and its end has either read everything, and then its Job is there and
running, or the next event of its stream is the end of its own Job. This is why a
deletion may be reported before the Job is compared with the reference, as the
code does, and why a Job that finished is not reported as deleted when its TTL
removes it: the completion comes first in the stream. The invariant is taken
apart into what it says of the server and of one client's record, so that a step
of the server is treated once for all records (`...Keeps`), and a step of a client
for its own record only (`...Step`).

`RunGraphProofs` proves, for every graph, ceiling, policy, and any number of crashes
and Cancel requests, `TypeOK` (`GraphTypeCorrect`) and the four invariants of
`run_graph`:

| Theorem | States |
|---|---|
| `DependenciesHold` | `Spec => []ParentsEnded` |
| `SkipsHaveCause` | `Spec => []SkipHasCause` |
| `CausesAreRoots` | `Spec => []CauseIsRoot` |
| `SucceededRunsAreSettled` | `Spec => []SucceededIsSettled` |

The inductive invariant is `RunInv`, in four layers. `RangeInv`: the types, and that
a node which may be given another attempt is below the ceiling. `OrderInv`: a node
whose runner is before the fence has only parents that ended and whose runners
returned nil, one that was submitted only parents that ended and whose runners rest;
a parent whose runner is at rest is written by Cancel and the skip loop at most, and
they leave terminal nodes alone. `CauseInv`: whoever may lead to the skip loop
(an ended context, the watcher, a runner that returned an error) carries the cause
with it. `SettledInv`: from the moment the graph returned success until the run is
written, all runners have returned nil, so that the nodes read are still the nodes
when the run is written. A step is taken apart by kind (`StepKinds`), and what a
runner's step does is stated once (`RunnerMoves`).

`OutputRegistrationProofs` proves, for every list of outputs and set of manifests,
and any number of Pods, crashes and failing calls:

| Theorem | States |
|---|---|
| `ToldOnlyWhenRegistered` | `Spec => []ToldIsRegistered` |
| `SuccessIsOfOneManifest` | `Spec => []SucceededIsComplete` |
| `FirstProcessRegistersOwn` | `Spec => []FreshIsOwn` |
| `CompletedAttemptIsFrozen` | `Spec => CompletedIsFrozen` |

`ProgressInv` is the core of its invariant `FinalInv`: within the loop, the outputs
before the current index are registered from the manifest in hand; after it, all of
them come from one; and an attempt on record as Completed keeps every process away
from the loop. Nothing in it depends on the Pod that `findJobPod` picks.

| Theorem | States |
|---|---|
| `SucceededPodIsRead` | `Spec => []SuccessIsPreferred` |
| `RegisteredOutputsUsable` | `Spec => []RegisteredIsUsable` |

These two are about that choice and about the contents of what is registered. Their
invariant `PodInv` says that one Pod runs at a time and none once the Job has ended
(`JobInv`), so that the Pods a finalization looks at can only disappear, and where the
manifest in hand comes from (`HandInv`: from a preempted Pod only if none succeeded). What a scan of a finite list returns is the
choice of a least index; that there is one is `Least` of `LeastElement`, proved from
the well-foundedness of `<`. It serves where an induction over the list would.

`SpecToJobProofs` proves, for any number of nodes and every order in which the search
takes them:

| Theorem | States |
|---|---|
| `AcceptedGraphsHaveOrder` | `Spec => []AcceptedHasOrder` |
| `RefusedGraphsHaveCycle` | `Spec => []RefusedHasCycle` |

`SearchInv` is the usual invariant of a depth-first search. `PathInv`: the open calls
form a path of edges. `RankInv`: a node that was left has a rank, and one that is on
the path or unseen has none. `LoopInv`: a successor that a call has gone through was
left before, or is the next call on the path. `OuterInv`: what the outer loop has
taken was seen. A node that is seen and not on the path was therefore left earlier,
which is why the shared `seen` map is sound.

The same module proves, for any specification with any number of inputs per node:

| Theorem | States |
|---|---|
| `RefusalsUnforeseen` | `Spec => []RefusalIsUnforeseen` |
| `JobsHonourNodes` | `Spec => []JobHonoursNode` |
| `ContractsFaithful` | `Spec => []ContractIsFaithful` |
| `InputsReachNodes` | `Spec => []InputsReachNode` |

The invariant is short (`JobsInv`: a Job is made only from a node of an accepted
specification, by the operators of `JobTemplate`); the work is in what those operators
compute. The environment is a recursive function over the rounds of the loop.
`EnvOfFacts` says what is in it after all of them: the variables of the inputs, each
with the value one of them gave it; there is no least round after which this would not
hold, which replaces the induction. From it follow which keys can be read two ways (`KeyFacts`), what
the parser of the contract finds (`ReadFacts`, `ContractFacts`) and, for the grace
period, that rounding up to seconds loses nothing (`PodGraceCovers`).
That no placement is refused behind the fence rests on `CloneFacts` and `PlacedAgrees`:
a cloned placement has no required name, and `applyPlacementHints` sets name and
selector together. `HintFacts` is its converse, that no answer is lost on the way.
`NodeAssumption` says that a decoded node has the fields of the struct `Node`.

`InputResolutionProofs` proves, for any bindings, answers, retry budgets, cycles and
restarts:

| Theorem | States |
|---|---|
| `ResolutionTyped` | `Spec => []TypeOK` |
| `SubmittedOnlyResolved` | `Spec => []SubmittedIsResolved` |
| `RequiredNodesHonoured` | `Spec => []RequiredIsHonoured` |
| `CallsWithinBudget` | `Spec => []CallsBounded` |
| `PendingAskedEnough` | `Spec => []RetryableIsRetried` |

The inductive invariant is `ResolutionInv`. `LoopInv`: which bindings the loops have
been through. `CountInv`: the calls made for a binding are bounded by a term in both
loop counters, `(polls - 1) * Tries + tries`, which is what makes the product of the
two budgets inductive. `RetryInv`: every poll was a call. `EnvInv`: each answer taken
is executable, and its node is among the hints. `PlaceInv`: the placement is the only
required node among them. The hints accumulate over the cycles, so that
`RequiredIsHonoured` needs `applyPlacementHints` to refuse two of them that disagree.

Records are updated as `[f EXCEPT ![c] = [f[c] EXCEPT !.a = x, !.b = y]]`
throughout, never with several paths through the same index in one `EXCEPT`: the
SMT encoding of the latter in tlapm 1.4.5 is not faithful.

**Only model-checked.** Liveness (`Quiesces`, `FailureSettles`, `Terminates`,
`WatchEnds`, `RunSettles`, `NodesSettle`, `ReportedIsStored`), which TLAPS does not do,
and the four counterexamples. Every invariant and every action property of a passing
run is a theorem.

## 5. Not modelled

- **The steps of several runners at full detail.** `NodeExecution` has every step of
  one runner, `RunGraph` several runners in outline: the product of the two is out of
  TLC's reach.
- **Registry errors in `RunGraph`.** The calls whose error `RunE` returns at once
  (`executor.go:717`, 756 and others) do not fail there, as they do in `NodeExecution`
  (`StoreErrorAborts`). `SkipHasCause` depends on it: such an error ends the graph, and
  pending nodes are skipped although nothing Failed.
- **The graph library (dag-go)** is not part of the repository: it is modelled from
  how `runGraph` uses it.
- **The handoff clients**: their service is external. The models record what it was
  told and what it answers; marshalling, the HTTP variant and the generated protobuf
  code are conversion.
- **Kueue and scheduling observation** in the adapter, resource quantities: a read
  that only reports, and pass-through.
- **`MemoryRegistry`** as an alternative to SQLite, the SQL itself, events and
  counters: nothing in the program decides by them.
- **Metrics, status endpoints, flags, listeners, smoke tools, scripts**: no state
  that the program reads back.

## 6. Plan

1. An abstract specification of `JobClient` (an attempt's Job as a register that is
   created once and settles once), shown to be implemented.
2. `OutputRegistration` as a refinement of the finalization in `NodeExecution`.
3. The same for `RunGraph` and the records of its nodes.
