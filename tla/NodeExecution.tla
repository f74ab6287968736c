--------------------------- MODULE NodeExecution ---------------------------
(***************************************************************************)
(* One run with one node, executed by the DagEngine of                     *)
(* pkg/executor/executor.go over a durable registry and a Kubernetes       *)
(* backend, through cancellations, process crashes and restarts.           *)
(*                                                                         *)
(* Three goroutines interleave: the run goroutine (executeRun, runGraph,   *)
(* finalizeRun, or recoverCanceledRun), the node runner (RunE,             *)
(* runAttemptBody, waitAndFinalize, or driveCancellation) and the request  *)
(* handler of Cancel.  Every registry transaction and every backend call   *)
(* is one step, so another goroutine or a crash can fall between any two.  *)
(*                                                                         *)
(* Kubernetes and the artifact-handoff service (AH) are external: a Job    *)
(* may finish, be deleted by CancelNode, or be removed by its TTL, and any *)
(* call may fail.                                                          *)
(***************************************************************************)
EXTENDS ExecutionRecords

CONSTANTS
  MaxAttempts,    \* RetryPolicy.MaxAttempts of the node
  HasBindings,    \* whether the node has ArtifactBindings
  HasTimeout,     \* whether TimeoutPolicy.Seconds > 0
  Adapter,        \* "k8s": SpawnerK8sAdapter; "contract": a backend.Adapter
                  \* that may fail PrepareNode and reports a failed workload
                  \* as a result of WaitNode rather than as an error
  FlakyCalls,     \* whether calls to Kubernetes, AH and dag-go may fail
  MaxRestarts,    \* bound: process crashes
  MaxCancels,     \* bound: Cancel requests
  MaxFaults       \* bound: registry calls that fail

ASSUME ParameterAssumption ==
  /\ MaxAttempts \in Nat
  /\ HasBindings \in BOOLEAN
  /\ HasTimeout \in BOOLEAN /\ FlakyCalls \in BOOLEAN
  /\ Adapter \in {"k8s", "contract"}
  /\ MaxRestarts \in Nat /\ MaxCancels \in Nat /\ MaxFaults \in Nat

VARIABLES
  run,       \* durable: RunRecord.Status
  node,      \* durable: the NodeRecord
  attempts,  \* durable: the AttemptRecords by number
  active,    \* volatile: the run goroutine and its activeRun
  runner,    \* volatile: the node runner goroutine
  cx,        \* volatile: where the Cancel handler is
  jobs,      \* external: the Job of each attempt's deterministic identity
  execs,     \* external: Jobs created so far, each one execution of user code
  told,      \* external: what AH was told, <<attempt, fact>>
  bounds     \* crashes, Cancel requests and registry faults so far

durable  == <<run, node, attempts>>
external == <<jobs, execs, told>>
vars     == <<run, node, attempts, active, runner, cx, jobs, execs, told, bounds>>

JobStates == {"none", "live", "succeeded", "failed", "gone"}
JobPresent(k) == jobs[k] \in {"live", "succeeded", "failed"}
Facts == {"outputs", "Succeeded", "Failed", "Canceled"}

(***************************************************************************)
(* active.pc follows the run goroutine: submit (SubmitRun between          *)
(* CreateRun and Admit), start (before registerActiveRun), graph (before   *)
(* the run is set Running), wait (d.Wait), skip, final, write, handoff,    *)
(* drive (recoverCanceledRun), none (no goroutine), down (no process).     *)
(* ctx is whether active.cancel() was called, handle the entry of          *)
(* active.handles, ok the result of runGraph, outcome finalizeRun's local  *)
(* runStatus.                                                              *)
(***************************************************************************)
ActivePCs == {"submit", "start", "graph", "wait", "skip", "final", "write",
              "handoff", "drive", "none", "down"}
Registered == active.pc \in {"graph", "wait", "skip", "final", "write",
                             "handoff", "drive"}
ActiveRecord ==
  [pc : ActivePCs, ctx : BOOLEAN, unresolved : BOOLEAN,
   handle : {NoId} \cup Attempts, ok : BOOLEAN, outcome : RunStatuses]
Goroutine(pc) ==
  [pc |-> pc, ctx |-> FALSE, unresolved |-> FALSE, handle |-> NoId,
   ok |-> FALSE, outcome |-> "Accepted"]

(***************************************************************************)
(* runner.pc is the next statement of the node runner; att is attemptID,   *)
(* retryable the last argument of failNode, ctx whether the runner's own   *)
(* context ended (timeout, or the pre-canceled context of a recovery), ok  *)
(* whether RunE returned nil, drive whether it runs driveCancellation.     *)
(***************************************************************************)
PreFencePCs ==
  {"classify", "allocate", "resume", "bindings", "building", "resolving",
   "starting", "prepare", "gate"}
PostFencePCs ==
  {"submit", "submitted", "persist", "started", "running", "repair",
   "reattach", "identity", "attach", "attached", "wait", "register", "notify",
   "complete", "succeed", "defer"}
EndPCs == {"fail", "reattempt", "reset", "failed", "cancelAttempt", "cancelNode",
           "cancelBare", "notifyFailed", "notifyCanceled"}
RunnerPCs == PreFencePCs \cup PostFencePCs \cup EndPCs
               \cup {"idle", "unresolved", "done"}
RunnerRecord ==
  [pc : RunnerPCs, att : {NoId} \cup Attempts, retryable : BOOLEAN,
   ctx : BOOLEAN, ok : BOOLEAN, drive : BOOLEAN]
NoRunner ==
  [pc |-> "idle", att |-> NoId, retryable |-> FALSE, ctx |-> FALSE,
   ok |-> FALSE, drive |-> FALSE]

CancelPCs == {"idle", "signal", "jobs", "node", "intent"}
Bounds == [restarts : 0 .. MaxRestarts, cancels : 0 .. MaxCancels,
           faults : 0 .. MaxFaults]

TypeOK ==
  /\ run \in RunStatuses
  /\ node \in NodeRecord
  /\ attempts \in [Attempts -> AttemptRecord]
  /\ active \in ActiveRecord
  /\ runner \in RunnerRecord
  /\ cx \in CancelPCs
  /\ jobs \in [Attempts -> JobStates]
  /\ execs \in Nat
  /\ told \in SUBSET (Attempts \X Facts)
  /\ bounds \in Bounds

\* CreateRun has stored the run and its node; SubmitRun is about to Admit it.
Init ==
  /\ run = "Accepted"
  /\ node = NewNode
  /\ attempts = [k \in Attempts |-> NewAttempt("None", "none")]
  /\ active = Goroutine("submit")
  /\ runner = NoRunner
  /\ cx = "idle"
  /\ jobs = [k \in Attempts |-> "none"]
  /\ execs = 0
  /\ told = {}
  /\ bounds = [restarts |-> 0, cancels |-> 0, faults |-> 0]

-----------------------------------------------------------------------------
(* What the steps are made of                                              *)

At(pc) == runner.pc = pc

\* The runner's context: the run context, its timeout, or a pre-canceled one.
CtxDone == active.ctx \/ runner.ctx

Goto(pc) == runner' = [runner EXCEPT !.pc = pc]

\* RunE returns; the deferred unregisterHandle runs.
Return(ok) ==
  /\ runner' = [NoRunner EXCEPT !.pc = "done", !.ok = ok]
  /\ active' = [active EXCEPT !.handle = NoId]

StoreFault ==
  /\ bounds.faults < MaxFaults
  /\ bounds' = [bounds EXCEPT !.faults = @ + 1]

\* Registry writes whose error the code ignores ("_ ="): a fault loses them.
BestEffortAttempts(next) ==
  \/ attempts' = next /\ UNCHANGED bounds
  \/ StoreFault /\ UNCHANGED attempts
BestEffortNode(next) ==
  \/ node' = next /\ UNCHANGED bounds
  \/ StoreFault /\ UNCHANGED node

\* isRunCanceled: a registry error counts as not canceled.
IsRunCanceled(answer) ==
  \/ answer = (run = "Canceled") /\ UNCHANGED bounds
  \/ answer = FALSE /\ StoreFault

\* NotifyNodeTerminal, and RegisterArtifact for the outputs.
Notify(fact) ==
  \/ told' = told \cup {<<runner.att, fact>>}
  \/ FlakyCalls /\ UNCHANGED told

\* The same calls when they return an error: before or after their effect.
NotifyErrs(fact) == told' \in {told, told \cup {<<runner.att, fact>>}}

\* CancelNode(k): the Job is deleted (a missing Job counts as deleted), or the
\* call fails and nothing happens.
CancelNodeSucceeds(k) ==
  jobs' = IF JobPresent(k) THEN [jobs EXCEPT ![k] = "gone"] ELSE jobs
CancelNodeFails == FlakyCalls /\ UNCHANGED jobs

-----------------------------------------------------------------------------
(* The run goroutine                                                       *)

Admit ==
  /\ active.pc = "submit"
  /\ run' = "Admitted"
  /\ active' = [active EXCEPT !.pc = "start"]
  /\ UNCHANGED <<node, attempts, runner, cx, external, bounds>>

\* The request's context ended or the registry failed: SubmitRun returns the
\* error and the created run stays Accepted, with no goroutine.
AdmitFails ==
  /\ active.pc = "submit"
  /\ active' = [active EXCEPT !.pc = "none"]
  /\ UNCHANGED <<durable, runner, cx, external, bounds>>

\* executeRun up to registerActiveRun: from here on Cancel finds the run.  When
\* GetRun fails the goroutine returns.
BeginRun ==
  /\ active.pc = "start"
  /\ \/ active' = [active EXCEPT !.pc = "graph"] /\ UNCHANGED bounds
     \/ active' = [active EXCEPT !.pc = "none"] /\ StoreFault
  /\ UNCHANGED <<durable, runner, cx, external>>

\* runGraph sets the run Running whatever it was, then starts the graph.  The
\* write carries the run context, so the registry refuses it once that ended.
SetRunRunning ==
  /\ active.pc = "graph"
  /\ \/ run' = (IF active.ctx THEN run ELSE "Running") /\ UNCHANGED bounds
     \/ StoreFault /\ UNCHANGED run
  /\ active' = [active EXCEPT !.pc = "wait"]
  /\ UNCHANGED <<node, attempts, runner, cx, external>>

\* dag-go (external) refuses the graph, its worker pool or d.Start: runGraph
\* returns before any runner was started, and skips nothing.
GraphNotStarted ==
  /\ FlakyCalls /\ active.pc \in {"graph", "wait"} /\ At("idle")
  /\ active' = [active EXCEPT !.pc = "final"]
  /\ UNCHANGED <<durable, runner, cx, external, bounds>>

GraphSucceeds ==
  /\ active.pc = "wait"
  /\ At("done") /\ runner.ok
  /\ active' = [active EXCEPT !.pc = "final", !.ok = TRUE]
  /\ UNCHANGED <<durable, runner, cx, external, bounds>>

GraphFailsSilently ==                           \* mutant: any failure returns
  /\ active.pc = "wait"
  /\ active.ctx \/ (At("done") /\ ~runner.ok)
  /\ active' = [active EXCEPT !.pc = "none", !.ctx = TRUE]
  /\ UNCHANGED <<durable, runner, cx, external, bounds>>

\* d.Wait returns false: the runner returned an error, or the run context
\* ended, in which case the runner may still be going.  An unresolved run is
\* left as it is.
GraphFails ==
  /\ active.pc = "wait"
  /\ active.ctx \/ (At("done") /\ ~runner.ok)
  /\ active' = IF active.unresolved
                THEN [active EXCEPT !.pc = "none", !.ctx = TRUE]
                ELSE [active EXCEPT !.pc = "skip"]
  /\ UNCHANGED <<durable, runner, cx, external, bounds>>

\* The watcher of runGraph (FailurePolicy fail-fast): a Failed node ends the
\* run context and cancels the registered handles, errors ignored.
FastFail ==
  /\ active.pc \in {"wait", "skip", "final", "write", "handoff"}
  /\ ~active.ctx /\ node.status = "Failed"
  /\ active' = [active EXCEPT !.ctx = TRUE]
  /\ IF active.handle = NoId THEN UNCHANGED jobs
     ELSE CancelNodeSucceeds(active.handle) \/ CancelNodeFails
  /\ UNCHANGED <<durable, runner, cx, execs, told, bounds>>

SkipPending ==
  /\ active.pc = "skip"
  /\ BestEffortNode(IF node.status = "Pending"
                     THEN [node EXCEPT !.status = "Skipped"] ELSE node)
  /\ active' = [active EXCEPT !.pc = "final"]
  /\ UNCHANGED <<run, attempts, runner, cx, external>>

\* The status finalizeRun derives from what it reads.
FinalStatus(succeeded) ==
  LET fromNode == IF node.status \in {"Failed", "Canceled"}
                  THEN node.status ELSE "Succeeded"
      derived  == IF run = "Canceled" THEN "Canceled" ELSE fromNode
  IN  IF ~succeeded /\ derived = "Succeeded" THEN "Failed" ELSE derived

FinalizeRead ==
  /\ active.pc = "final"
  /\ active' = [active EXCEPT !.pc = "write", !.outcome = FinalStatus(active.ok)]
  /\ UNCHANGED <<durable, runner, cx, external, bounds>>

FinalizeWrite ==
  /\ active.pc = "write"
  /\ run' = active.outcome
  /\ active' = [active EXCEPT !.pc = "handoff"]
  /\ UNCHANGED <<node, attempts, runner, cx, external, bounds>>

\* finalizeRun returns an error: executeRun fails a run that is still Running.
FinalizeError ==
  /\ active.pc \in {"final", "write"}
  /\ StoreFault
  /\ run' = IF run = "Running" THEN "Failed" ELSE run
  /\ active' = [active EXCEPT !.pc = "none", !.ctx = TRUE]
  /\ UNCHANGED <<node, attempts, runner, cx, external>>

\* FinalizeSampleRun and EvaluateGC: when either fails, a run just stored as
\* Succeeded is stored as Failed.
HandoffFinalize ==
  /\ active.pc = "handoff"
  /\ \/ UNCHANGED run
     \/ FlakyCalls /\ active.outcome = "Succeeded" /\ run' = "Failed"
  /\ active' = [active EXCEPT !.pc = "none", !.ctx = TRUE]
  /\ UNCHANGED <<node, attempts, runner, cx, external, bounds>>

\* recoverCanceledRun returns once driveCancellation did.
DriveEnds ==
  /\ active.pc = "drive" /\ At("done")
  /\ active' = [active EXCEPT !.pc = "none", !.ctx = TRUE]
  /\ UNCHANGED <<durable, runner, cx, external, bounds>>

-----------------------------------------------------------------------------
(* The Cancel request handler                                              *)

CancelRequest ==
  /\ cx = "idle" /\ active.pc # "down"
  /\ bounds.cancels < MaxCancels
  /\ bounds' = [bounds EXCEPT !.cancels = @ + 1]
  /\ run' = IF RunTerminal(run) THEN run ELSE "Canceled"
  /\ cx' = "signal"
  /\ UNCHANGED <<node, attempts, active, runner, external>>

CancelSignal ==
  /\ cx = "signal"
  /\ IF Registered
     THEN active' = [active EXCEPT !.ctx = TRUE] /\ cx' = "jobs"
     ELSE UNCHANGED active /\ cx' = "node"
  /\ UNCHANGED <<durable, runner, external, bounds>>

\* The handles registered at this moment are canceled, errors ignored.
CancelJobs ==
  /\ cx = "jobs"
  /\ IF active.handle = NoId THEN UNCHANGED jobs
     ELSE CancelNodeSucceeds(active.handle) \/ CancelNodeFails
  /\ cx' = "node"
  /\ UNCHANGED <<durable, active, runner, execs, told, bounds>>

CancelUpdateAnyNode ==                 \* mutant: no case for terminal states
  /\ cx = "node"
  /\ node' = IF node.status = "Running" THEN node
             ELSE [node EXCEPT !.status = "Canceled"]
  /\ cx' = IF node.status = "Running" /\ node.cur # NoId
           THEN "intent" ELSE "idle"
  /\ UNCHANGED <<run, attempts, active, runner, external, bounds>>

CancelUpdateNode ==
  /\ cx = "node"
  /\ node' = IF NodeTerminal(node.status) \/ node.status = "Running" THEN node
             ELSE [node EXCEPT !.status = "Canceled"]
  /\ cx' = IF node.status = "Running" /\ node.cur # NoId
           THEN "intent" ELSE "idle"
  /\ UNCHANGED <<run, attempts, active, runner, external, bounds>>

CancelPersistIntent ==
  /\ cx = "intent"
  /\ attempts' = IntentAttempts(attempts, node.cur)
  /\ cx' = "idle"
  /\ UNCHANGED <<run, node, active, runner, external, bounds>>

\* The caller's context ended: the remaining registry calls fail.
CancelAbandoned ==
  /\ cx \in {"node", "intent"}
  /\ cx' = "idle"
  /\ UNCHANGED <<durable, active, runner, external, bounds>>

-----------------------------------------------------------------------------
(* The node runner: classification                                         *)

RunnerStart ==
  /\ active.pc \in {"wait", "drive"} /\ At("idle")
  /\ runner' = [runner EXCEPT !.pc = "classify", !.drive = (active.pc = "drive")]
  /\ UNCHANGED <<durable, active, cx, external, bounds>>

\* What each decision leads to: in RunE, and in driveCancellation, which
\* allocates and resumes nothing.
RunNext(decision) ==
  CASE decision = "TerminalRepair"    -> "repair"
    [] decision = "Reattach"          -> "reattach"
    [] decision = "ResolveByIdentity" -> "identity"
    [] decision = "ResumePreFence"    -> "resume"
    [] decision = "Fresh"             -> "allocate"
DriveNext(decision) ==
  IF decision \in {"ResumePreFence", "Fresh"}
  THEN IF node.cur = NoId THEN "cancelBare" ELSE "cancelAttempt"
  ELSE RunNext(decision)

\* repairTerminalProjection's verdict, on the records just read.
RepairedStatus ==
  IF NodeTerminal(node.status) THEN node.status
  ELSE NodeStatusFromAttempt(attempts[node.cur])

Classify ==
  /\ At("classify")
  /\ LET d == ClassifyReconcile(node, attempts)
     IN  runner' = [runner EXCEPT
           !.pc  = IF runner.drive THEN DriveNext(d) ELSE RunNext(d),
           !.att = node.cur,
           !.ok  = d = "TerminalRepair" /\ RepairedStatus # "Failed"]
  /\ UNCHANGED <<durable, active, cx, external, bounds>>

\* The Node projection is brought in line with its terminal Attempt, if it is
\* not terminal already.
RepairProjection ==
  /\ At("repair")
  /\ BestEffortNode(
       IF NodeTerminal(node.status) THEN node
       ELSE [node EXCEPT !.status = NodeStatusFromAttempt(attempts[runner.att]),
                         !.handle = NoId])
  /\ Return(runner.ok)
  /\ UNCHANGED <<run, attempts, cx, external>>

-----------------------------------------------------------------------------
(* The node runner: realization, up to the submission fence                *)

AfterReady == IF HasBindings THEN "bindings" ELSE "starting"

\* AllocateCurrentAttempt: a Prepared attempt and the node's counter and
\* pointer in one transaction, or an error.
Allocate ==
  /\ At("allocate")
  /\ IF MayAllocate(node, attempts)
     THEN /\ node' = AllocatedNode(node)
          /\ attempts' = Upserted(attempts, NextAttempt(node),
                                  NewAttempt("Prepared", "none"))
          /\ runner' = [runner EXCEPT !.pc = AfterReady,
                                      !.att = NextAttempt(node)]
          /\ UNCHANGED active
     ELSE Return(FALSE) /\ UNCHANGED <<node, attempts>>
  /\ UNCHANGED <<run, cx, external, bounds>>

SetNodeStatus(status) == node' = [node EXCEPT !.status = status]

Resume ==
  /\ At("resume")
  /\ SetNodeStatus("Ready")
  /\ Goto(AfterReady)
  /\ UNCHANGED <<run, attempts, active, cx, external, bounds>>

\* The attempt is stored Errored and failNode follows.
AttemptErrs(retryable) ==
  /\ BestEffortAttempts(Upserted(attempts, runner.att,
                                 NewAttempt("Errored", "failed")))
  /\ runner' = [runner EXCEPT !.pc = "fail", !.retryable = retryable]
  /\ UNCHANGED <<run, node, active, cx, external>>

\* validateResolvedBindingEnvKeys: whether two bindings sanitize to one key is
\* a matter of the node's spec, left open here.
EnvKeysCollide ==
  /\ At("bindings")
  /\ AttemptErrs(FALSE)

BuildBindings ==
  /\ At("bindings")
  /\ SetNodeStatus("BuildingBindings")
  /\ Goto("building")
  /\ UNCHANGED <<run, attempts, active, cx, external, bounds>>

ResolveInputs ==
  /\ At("building")
  /\ SetNodeStatus("ResolvingInputs")
  /\ Goto("resolving")
  /\ UNCHANGED <<run, attempts, active, cx, external, bounds>>

\* AH does not resolve a binding, or the locality hints it gave contradict the
\* node's placement.
InputsFail ==
  /\ At("resolving")
  /\ AttemptErrs(FALSE)

SetStarting ==
  /\ runner.pc \in {"resolving", "starting"}
  /\ SetNodeStatus("Starting")
  /\ Goto("prepare")
  /\ UNCHANGED <<run, attempts, active, cx, external, bounds>>

PrepareFails ==
  /\ At("prepare") /\ Adapter = "contract"
  /\ AttemptErrs(TRUE)

SetReleasing ==
  /\ At("prepare")
  /\ SetNodeStatus("Releasing")
  /\ Goto("gate")
  /\ UNCHANGED <<run, attempts, active, cx, external, bounds>>

\* The opportunity budget, then the fence (OpenSemanticAttempt).
OpenAttempt ==
  /\ At("gate")
  /\ IF OpenedOpportunities(attempts) >= EffectiveMaxAttempts(MaxAttempts)
     THEN /\ BestEffortAttempts(Upserted(attempts, runner.att,
                                         NewAttempt("Errored", "failed")))
          /\ Goto("failed")
          /\ UNCHANGED node
     ELSE /\ node' = OpenedNode(node)
          /\ attempts' = OpenedAttempts(attempts, runner.att)
          /\ Goto("submit")
          /\ UNCHANGED bounds
  /\ UNCHANGED <<run, active, cx, external>>

\* OpenSemanticAttempt fails; the record of that may reach the registry.
OpenFails ==
  /\ At("gate")
  /\ StoreFault
  /\ attempts' \in {attempts, Upserted(attempts, runner.att,
                                        NewAttempt("Errored", "failed"))}
  /\ runner' = [runner EXCEPT !.pc = "fail", !.retryable = TRUE]
  /\ UNCHANGED <<run, node, active, cx, external>>

-----------------------------------------------------------------------------
(* The node runner: submission                                             *)

\* StartNode reaches the API server: create-or-get under the attempt's
\* deterministic name.
StartNode ==
  /\ At("submit") /\ ~CtxDone
  /\ IF JobPresent(runner.att) THEN UNCHANGED <<jobs, execs>>
     ELSE /\ jobs' = [jobs EXCEPT ![runner.att] = "live"]
          /\ execs' = execs + 1
  /\ Goto("submitted")
  /\ UNCHANGED <<durable, active, cx, told, bounds>>

StartNodeRetries ==      \* mutant: the error is taken for a non-submission
  /\ FlakyCalls \/ CtxDone
  /\ runner.pc \in {"submit", "submitted"}
  /\ runner' = [runner EXCEPT !.pc = "fail", !.retryable = TRUE]
  /\ UNCHANGED <<durable, active, cx, external, bounds>>

\* StartNode returns an error, before or after its effect.
StartNodeFails ==
  /\ FlakyCalls \/ CtxDone
  /\ runner.pc \in {"submit", "submitted"}
  /\ Goto("unresolved")
  /\ UNCHANGED <<durable, active, cx, external, bounds>>

RegisterHandle ==
  /\ At("submitted")
  /\ active' = [active EXCEPT !.handle = runner.att]
  /\ Goto("persist")
  /\ UNCHANGED <<durable, cx, external, bounds>>

\* Both writes are best effort on the live path.
PersistHandle ==
  /\ At("persist")
  /\ \/ /\ attempts' = HandleAttempts(attempts, runner.att)
        /\ node' = HandleNode(node, runner.att)
        /\ UNCHANGED bounds
     \/ StoreFault /\ UNCHANGED <<node, attempts>>
  /\ Goto("started")
  /\ UNCHANGED <<run, active, cx, external>>

UpsertStarted ==
  /\ At("started")
  /\ BestEffortAttempts(Upserted(attempts, runner.att,
                                 NewAttempt("Started", "none")))
  /\ Goto("running")
  /\ UNCHANGED <<run, node, active, cx, external>>

MarkRunning ==
  /\ At("running")
  /\ SetNodeStatus("Running")
  /\ Goto("wait")
  /\ UNCHANGED <<run, attempts, active, cx, external, bounds>>

-----------------------------------------------------------------------------
(* The node runner: recovery of a submitted attempt                        *)

\* tryRestoreHandle reads the Node's mirror of the handle, with the runner's
\* context.
Restorable ==
  /\ node.handle # NoId
  /\ node.status \in {"Running", "Starting", "Releasing"}
  /\ ~CtxDone

\* A recovery of a canceled run requests the Job's deletion, ignores an error,
\* and waits on a context that is already done.
Reattach ==
  /\ At("reattach")
  /\ IF ~Restorable
     THEN Goto("unresolved") /\ UNCHANGED <<active, jobs>>
     ELSE /\ IF runner.drive
             THEN CancelNodeSucceeds(node.handle) \/ CancelNodeFails
             ELSE UNCHANGED jobs
          /\ active' = [active EXCEPT !.handle = node.handle]
          /\ runner' = [runner EXCEPT !.pc = "wait", !.ctx = @ \/ runner.drive]
  /\ UNCHANGED <<durable, cx, execs, told, bounds>>

\* ResolveByIdentity finds the Job.
IdentityFound ==
  /\ At("identity") /\ JobPresent(runner.att) /\ ~CtxDone
  /\ Goto("attach")
  /\ UNCHANGED <<durable, active, cx, external, bounds>>

\* The Job is absent now, or the read failed: neither proves anything.
IdentityUnresolved ==
  /\ At("identity")
  /\ ~JobPresent(runner.att) \/ CtxDone \/ FlakyCalls
  /\ Goto("unresolved")
  /\ UNCHANGED <<durable, active, cx, external, bounds>>

AttachPersist ==
  /\ At("attach")
  /\ \/ /\ attempts' = HandleAttempts(attempts, runner.att)
        /\ node' = HandleNode(node, runner.att)
        /\ Goto("attached")
        /\ UNCHANGED bounds
     \/ StoreFault /\ Goto("unresolved") /\ UNCHANGED <<node, attempts>>
  /\ UNCHANGED <<run, active, cx, external>>

\* With a cancellation accepted, the Job is deleted first; when that fails the
\* attempt stays unresolved.
AttachWait ==
  /\ At("attached")
  /\ \E canceled \in BOOLEAN :
       /\ IsRunCanceled(canceled)
       /\ LET deleting == canceled \/ attempts[runner.att].intent
          IN  \/ /\ IF deleting THEN CancelNodeSucceeds(runner.att)
                                ELSE UNCHANGED jobs
                 /\ active' = [active EXCEPT !.handle = runner.att]
                 /\ runner' = [runner EXCEPT !.pc = "wait",
                                             !.ctx = @ \/ deleting]
              \/ /\ deleting /\ CancelNodeFails
                 /\ Goto("unresolved") /\ UNCHANGED active
  /\ UNCHANGED <<durable, cx, execs, told>>

-----------------------------------------------------------------------------
(* The node runner: waiting and finalization                               *)

WaitSucceeded ==
  /\ At("wait") /\ jobs[runner.att] = "succeeded"
  /\ Goto("register")
  /\ UNCHANGED <<durable, active, cx, external, bounds>>

WaitFailedUnobserved ==     \* mutant: a failed workload is an observation loss
  /\ At("wait") /\ jobs[runner.att] = "failed" /\ Adapter = "contract"
  /\ Goto("unresolved")
  /\ UNCHANGED <<durable, active, cx, external, bounds>>

\* WaitNode reports that the workload did not succeed, as its result.
WaitFailed ==
  /\ At("wait") /\ jobs[runner.att] = "failed" /\ Adapter = "contract"
  /\ AttemptErrs(FALSE)

WaitBreaksOnContext == CtxDone \/ FlakyCalls     \* mutant: a deletion is missed

\* WaitNode returns an error: its context ended, the Job is gone, the watch
\* broke, or (the Kubernetes adapter) the Job failed.
WaitBreaks ==
  \/ CtxDone
  \/ FlakyCalls
  \/ jobs[runner.att] \in {"none", "gone"}
  \/ jobs[runner.att] = "failed" /\ Adapter = "k8s"

WaitError ==
  /\ At("wait") /\ WaitBreaks
  /\ \E canceled \in BOOLEAN :
       /\ IsRunCanceled(canceled)
       /\ Goto(IF canceled \/ CtxDone THEN "cancelAttempt" ELSE "unresolved")
  /\ UNCHANGED <<durable, active, cx, external>>

\* registerNodeOutputs reads the Job's pods and tells AH; then AH is told that
\* the node Succeeded.  A failure of either defers the finalization.
RegisterOutputs ==
  /\ At("register")
  /\ \/ /\ told' = told \cup {<<runner.att, "outputs">>}
        /\ Goto("notify")
     \/ /\ FlakyCalls \/ ~JobPresent(runner.att)
        /\ NotifyErrs("outputs") /\ Goto("defer")
  /\ UNCHANGED <<durable, active, cx, jobs, execs, bounds>>

NotifySucceededBestEffort ==              \* mutant: the error is only logged
  /\ At("notify")
  /\ \/ told' = told \cup {<<runner.att, "Succeeded">>}
     \/ FlakyCalls /\ UNCHANGED told
  /\ Goto("complete")
  /\ UNCHANGED <<durable, active, cx, jobs, execs, bounds>>

NotifySucceeded ==
  /\ At("notify")
  /\ \/ /\ told' = told \cup {<<runner.att, "Succeeded">>}
        /\ Goto("complete")
     \/ FlakyCalls /\ NotifyErrs("Succeeded") /\ Goto("defer")
  /\ UNCHANGED <<durable, active, cx, jobs, execs, bounds>>

CompleteAttempt ==
  /\ At("complete")
  /\ BestEffortAttempts(Upserted(attempts, runner.att,
                                 NewAttempt("Completed", "finished")))
  /\ Goto("succeed")
  /\ UNCHANGED <<run, node, active, cx, external>>

SucceedNode ==
  /\ At("succeed")
  /\ node' = [node EXCEPT !.status = "Succeeded", !.handle = NoId]
  /\ Return(TRUE)
  /\ UNCHANGED <<run, attempts, cx, external, bounds>>

FinalizationFailsNode ==     \* mutant: a finalization error fails the node
  /\ At("defer")
  /\ BestEffortAttempts(ProcessCompletedAttempts(attempts, runner.att))
  /\ Goto("failed")
  /\ UNCHANGED <<run, node, active, cx, external>>

\* deferFinalizationAfterSuccess: PersistProcessCompleted, or not, and the
\* attempt stays unresolved either way.
DeferFinalization ==
  /\ At("defer")
  /\ BestEffortAttempts(ProcessCompletedAttempts(attempts, runner.att))
  /\ Goto("unresolved")
  /\ UNCHANGED <<run, node, active, cx, external>>

\* reconcileUnresolved: the run is to be left non-terminal.
Unresolved ==
  /\ At("unresolved")
  /\ runner' = [NoRunner EXCEPT !.pc = "done"]
  /\ active' = [active EXCEPT !.unresolved = TRUE, !.handle = NoId]
  /\ UNCHANGED <<durable, cx, external, bounds>>

-----------------------------------------------------------------------------
(* The node runner: failure and cancellation                               *)

FailNextUncapped(canceled) ==                        \* mutant: no ceiling
  IF canceled THEN "cancelAttempt"
  ELSE IF runner.retryable THEN "reattempt"
  ELSE "failed"

\* failNode: cancellation first, then the realization budget.
FailNext(canceled) ==
  IF canceled THEN "cancelAttempt"
  ELSE IF runner.retryable /\ node.realized < Ceiling THEN "reattempt"
  ELSE "failed"

FailNode ==
  /\ At("fail")
  /\ \E canceled \in BOOLEAN :
       /\ IsRunCanceled(canceled)
       /\ Goto(FailNext(canceled))
  /\ UNCHANGED <<durable, active, cx, external>>

\* The realization count cannot be read: no further cycle.
FailUncounted ==
  /\ At("fail") /\ run # "Canceled"
  /\ StoreFault
  /\ Goto("failed")
  /\ UNCHANGED <<durable, active, cx, external>>

\* The basis for another cycle is recorded before the node is reset.
MarkReattemptable ==
  /\ At("reattempt")
  /\ BestEffortAttempts(
       IF node.cur = runner.att /\ ~attempts[runner.att].fence
       THEN ReattemptableAttempts(attempts, runner.att) ELSE attempts)
  /\ Goto("reset")
  /\ UNCHANGED <<run, node, active, cx, external>>

\* The node is reset and RunE loops (errNodeRetry).
ResetNode ==
  /\ At("reset")
  /\ BestEffortNode([node EXCEPT !.status = "Pending", !.cur = NoId,
                                 !.handle = NoId])
  /\ Goto("classify")
  /\ UNCHANGED <<run, attempts, active, cx, external>>

TerminalizeFailed ==
  /\ At("failed")
  /\ BestEffortNode([node EXCEPT !.status = "Failed", !.handle = NoId])
  /\ Goto("notifyFailed")
  /\ UNCHANGED <<run, attempts, active, cx, external>>

NotifyFailed ==
  /\ At("notifyFailed")
  /\ Notify("Failed")
  /\ Return(FALSE)
  /\ UNCHANGED <<durable, cx, jobs, execs, bounds>>

\* cancelNode.
CancelAttempt ==
  /\ At("cancelAttempt")
  /\ BestEffortAttempts(Upserted(attempts, runner.att,
                                 NewAttempt("Errored", "canceled")))
  /\ Goto("cancelNode")
  /\ UNCHANGED <<run, node, active, cx, external>>

CancelNodeRecord ==
  /\ At("cancelNode")
  /\ node' = [node EXCEPT !.status = "Canceled", !.handle = NoId]
  /\ Goto("notifyCanceled")
  /\ UNCHANGED <<run, attempts, active, cx, external, bounds>>

NotifyCanceled ==
  /\ At("notifyCanceled")
  /\ Notify("Canceled")
  /\ Return(TRUE)
  /\ UNCHANGED <<durable, cx, jobs, execs, bounds>>

\* markNodeCanceledNoAttempt.
CancelBareNode ==
  /\ At("cancelBare")
  /\ BestEffortNode(IF NodeTerminal(node.status) THEN node
                    ELSE [node EXCEPT !.status = "Canceled"])
  /\ Return(TRUE)
  /\ UNCHANGED <<run, attempts, cx, external>>

\* Registry calls whose error RunE (or driveCancellation) returns at once,
\* leaving the records as they are.
AbortPCs == PreFencePCs \cup {"running", "identity", "succeed", "cancelNode"}
StoreErrorAborts ==
  /\ runner.pc \in AbortPCs
  /\ StoreFault
  /\ Return(FALSE)
  /\ UNCHANGED <<durable, cx, external>>

-----------------------------------------------------------------------------
(* The environment                                                         *)

\* TimeoutPolicy.Seconds elapsed.
Timeout ==
  /\ HasTimeout /\ runner.pc \notin {"idle", "done"}
  /\ ~runner.drive /\ ~runner.ctx
  /\ runner' = [runner EXCEPT !.ctx = TRUE]
  /\ UNCHANGED <<durable, active, cx, external, bounds>>

JobFinishes(k) ==
  /\ jobs[k] = "live"
  /\ \E outcome \in {"succeeded", "failed"} :
       jobs' = [jobs EXCEPT ![k] = outcome]
  /\ UNCHANGED <<durable, active, runner, cx, execs, told, bounds>>

\* ttlSecondsAfterFinished elapsed.
JobExpires(k) ==
  /\ jobs[k] \in {"succeeded", "failed"}
  /\ jobs' = [jobs EXCEPT ![k] = "gone"]
  /\ UNCHANGED <<durable, active, runner, cx, execs, told, bounds>>

\* The process ends; what it held in memory is lost.
Crash ==
  /\ active.pc # "down"
  /\ bounds.restarts < MaxRestarts
  /\ bounds' = [bounds EXCEPT !.restarts = @ + 1]
  /\ active' = Goroutine("down")
  /\ runner' = NoRunner
  /\ cx' = "idle"
  /\ UNCHANGED <<durable, external>>

\* The startup sweep (DagEngine.Recover).
Recover ==
  /\ active.pc = "down"
  /\ active' = Goroutine(IF ~RunTerminal(run) THEN "start"
                         ELSE IF ~NodeTerminal(node.status) THEN "drive"
                         ELSE "none")
  /\ UNCHANGED <<durable, runner, cx, external, bounds>>

-----------------------------------------------------------------------------
RunStep ==
  \/ BeginRun \/ SetRunRunning \/ GraphNotStarted \/ GraphSucceeds
  \/ GraphFails \/ FastFail
  \/ SkipPending \/ FinalizeRead \/ FinalizeWrite \/ FinalizeError
  \/ HandoffFinalize \/ DriveEnds

CancelStep ==
  \/ CancelSignal \/ CancelJobs \/ CancelUpdateNode \/ CancelPersistIntent
  \/ CancelAbandoned

RealizeStep ==
  \/ RunnerStart \/ Classify \/ RepairProjection \/ Allocate \/ Resume
  \/ EnvKeysCollide \/ BuildBindings \/ ResolveInputs \/ InputsFail
  \/ SetStarting \/ PrepareFails \/ SetReleasing \/ OpenAttempt \/ OpenFails

SubmitStep ==
  \/ StartNode \/ StartNodeFails \/ RegisterHandle \/ PersistHandle
  \/ UpsertStarted \/ MarkRunning \/ Reattach \/ IdentityFound
  \/ IdentityUnresolved \/ AttachPersist \/ AttachWait

OutcomeStep ==
  \/ WaitSucceeded \/ WaitFailed \/ WaitError \/ RegisterOutputs
  \/ NotifySucceeded \/ CompleteAttempt \/ SucceedNode \/ DeferFinalization
  \/ Unresolved \/ FailNode \/ FailUncounted \/ MarkReattemptable \/ ResetNode
  \/ TerminalizeFailed \/ NotifyFailed \/ CancelAttempt \/ CancelNodeRecord
  \/ NotifyCanceled \/ CancelBareNode \/ StoreErrorAborts

RunnerStep == RealizeStep \/ SubmitStep \/ OutcomeStep

Next ==
  \/ Admit \/ AdmitFails \/ CancelRequest
  \/ RunStep \/ CancelStep \/ RunnerStep
  \/ Timeout \/ Crash \/ Recover
  \/ \E k \in Attempts : JobFinishes(k) \/ JobExpires(k)

Spec == Init /\ [][Next]_vars

\* The Go scheduler runs every goroutine that can go on, the process is
\* restarted by its Deployment, and user code ends.  Nothing makes a Job expire,
\* a request come, a call fail or a process crash.
Fairness ==
  /\ WF_vars(RunStep) /\ WF_vars(CancelStep) /\ WF_vars(RunnerStep)
  /\ WF_vars(Recover) /\ WF_vars(Admit \/ AdmitFails)
  /\ \A k \in Attempts : WF_vars(JobFinishes(k))

FairSpec == Spec /\ Fairness

-----------------------------------------------------------------------------
(* Properties                                                              *)

\* No user code runs twice: across retries, crashes, lost answers and expired
\* Jobs at most one Job is ever created for the node (F3-B2 no-rerun), whatever
\* is left of MaxAttempts.  (specs/001-retry-semantics/spec.md:37 would have an
\* execution that failed executed again; the code and its tests refuse that.)
\* Holds as long as no registry write is lost.
AtMostOneExecution == execs <= 1

\* Once a Job was created for an attempt, a restart at any moment finds a node
\* that is settled, or classifies that same attempt as one to reattach, resolve
\* or repair: never as one to resume or to replace.
SubmittedIsRecoverable ==
  \A k \in Attempts :
    jobs[k] # "none" /\ ~NodeTerminal(node.status)
      => /\ node.cur = k
         /\ ClassifyReconcile(node, attempts) \notin {"Fresh", "ResumePreFence"}

\* The realization ceiling counts across restarts: failNode checks it, and a
\* recovery that allocates without passing failNode does not get around it.
RealizationBounded == node.realized <= Ceiling

\* A node is Succeeded only on the word of its current attempt's Job, with the
\* attempt Completed and the downstream service told, in whatever process the
\* steps were taken.
SucceededIsEarned ==
  node.status = "Succeeded" =>
    /\ node.cur # NoId
    /\ attempts[node.cur].status = "Completed"
    /\ jobs[node.cur] \in {"succeeded", "gone"}
    /\ {<<node.cur, "outputs">>, <<node.cur, "Succeeded">>} \subseteq told

\* The downstream service is never told both that an attempt Succeeded and that
\* it Failed.
NoContradiction ==
  \A k \in Attempts : ~({<<k, "Succeeded">>, <<k, "Failed">>} \subseteq told)

\* A run whose goroutine has ended is settled, or marked for the next startup
\* sweep, or was never admitted: it is not lost without a trace.
StoppedIsAccounted ==
  active.pc = "none" =>
    RunTerminal(run) \/ active.unresolved \/ run = "Accepted"

\* A node that Succeeded or Failed stays so: neither a cancellation that was
\* already under way nor a recovery changes it.
OutcomeIsFinal ==
  [][node.status \in {"Succeeded", "Failed"} => node'.status = node.status]_vars

\* A Completed attempt stays Completed, and an Errored one Errored: the runner
\* that a cancellation overtook does not revive it.
AttemptOutcomeIsFinal ==
  [][\A k \in Attempts : AttemptTerminal(attempts[k].status)
       => attempts'[k].status = attempts[k].status]_vars

\* Whatever happened, every goroutine comes to its end.
Quiescent ==
  active.pc = "none" /\ runner.pc \in {"idle", "done"} /\ cx = "idle"
Quiesces == <>[]Quiescent

\* A workload that failed makes its node terminal, unless Kubernetes removes the
\* Job first, somebody cancels the run or a call to the registry fails: a restart
\* does not lose the failure.  (A timeout does, when it ends the context of
\* StartNode: the attempt is then unresolved until the next restart.)
FailureSettles ==
  \A k \in Attempts :
    jobs[k] = "failed" ~>
      \/ NodeTerminal(node.status)
      \/ jobs[k] = "gone" \/ bounds.cancels > 0 \/ bounds.faults > 0

\* Seen from outside the node behaves as NodeContract says: executed once at
\* most, Succeeded only after that, and settled for good.
Outcome == IF node.status \in {"Succeeded", "Failed"} THEN node.status ELSE "open"
NC == INSTANCE NodeContract WITH executed <- execs, outcome <- Outcome
ImplementsContract == NC!ContractSpec

-----------------------------------------------------------------------------
(* The inductive invariants behind the theorems                            *)

\* The runner works on the node's current attempt, and wherever it can go on to
\* allocate another one the ceiling leaves room for it.
RunnerInv ==
  /\ node.handle # NoId => node.cur # NoId
  /\ node.cur # NoId => attempts[node.cur].status # "None"
  /\ runner.pc \notin {"idle", "done", "classify"} => runner.att = node.cur
  /\ runner.pc \notin {"idle", "done", "classify", "allocate", "cancelBare",
                       "repair", "unresolved"} => node.cur # NoId
RealizationInv ==
  /\ node.realized <= Ceiling
  /\ runner.pc \in {"allocate", "reattempt", "reset"} => node.realized < Ceiling
  /\ node.cur = NoId => node.realized < Ceiling
  /\ node.cur # NoId /\ attempts[node.cur].reatt => node.realized < Ceiling

\* No runner that could still write a status runs on a settled node.
OutcomeInv ==
  node.status \in {"Succeeded", "Failed"} =>
    runner.pc \in {"idle", "done", "classify", "repair", "notifyFailed"}

SafetyInv == TypeOK /\ RunnerInv /\ RealizationInv /\ OutcomeInv

\* The records of a submitted attempt keep an anchor to it: the fence, the
\* handle, or a terminal status that is not a basis for another cycle.
Anchored ==
  /\ node.cur # NoId
  /\ LET a == attempts[node.cur]
     IN  \/ a.fence
         \/ AttemptTerminal(a.status) /\ ~a.reatt
         \/ ~AttemptTerminal(a.status) /\ (node.handle # NoId \/ a.handle)
SubmissionInv ==
  /\ execs <= 1
  /\ \A k \in Attempts : jobs[k] # "none" => execs > 0 /\ k = node.cur
  /\ execs > 0 =>
       /\ Anchored
       /\ runner.pc \notin (PreFencePCs \ {"classify"})
                              \cup {"submit", "reattempt", "reset"}
       /\ runner.pc = "fail" => ~runner.retryable
  /\ At("submit") => attempts[runner.att].fence
  /\ At("started") => node.handle # NoId
  /\ runner.pc \in {"fail", "failed", "cancelNode", "succeed"} =>
       AttemptTerminal(attempts[runner.att].status) /\ ~attempts[runner.att].reatt
  /\ At("repair") =>
       \/ NodeTerminal(node.status)
       \/ /\ runner.att # NoId
          /\ AttemptTerminal(attempts[runner.att].status)
          /\ ~Reattemptable(attempts[runner.att])

\* A success on record, or on its way there, has an execution behind it.
EarnedInv ==
  /\ runner.pc \in {"register", "notify", "complete", "succeed"} => execs > 0
  /\ \A k \in Attempts : attempts[k].status = "Completed" => execs > 0

\* The numbers beyond the count are unused, a basis for another cycle is never
\* that of a success, and the runner works on an attempt that is still open, or
\* gives one up that did not complete.
OpenPCs ==
  (PreFencePCs \ {"classify", "allocate"})
    \cup (PostFencePCs \ {"repair", "succeed"})
RecordInv ==
  /\ node.cur <= node.realized
  /\ \A k \in Attempts : k > node.realized => attempts[k].status = "None"
  /\ \A k \in Attempts : attempts[k].reatt => attempts[k].status # "Completed"
  /\ runner.pc \in OpenPCs => ~AttemptTerminal(attempts[runner.att].status)
  /\ runner.pc \in {"fail", "reattempt", "cancelAttempt"} =>
       attempts[runner.att].status # "Completed"

\* What AH was told, what the records say and what the Job did agree: a success
\* is said of a Job that succeeded, a failure of a node that is Failed.
Successful(k) == jobs[k] \in {"succeeded", "gone"}
ToldInv ==
  /\ \A k \in Attempts : <<k, "Succeeded">> \in told => Successful(k)
  /\ \A k \in Attempts : <<k, "Failed">> \in told => node.status = "Failed" /\ node.cur = k
  /\ \A k \in Attempts :
       attempts[k].status = "Completed" =>
         {<<k, "outputs">>, <<k, "Succeeded">>} \subseteq told
  /\ runner.pc \in {"register", "notify", "complete"} => Successful(runner.att)
  /\ runner.pc \in {"notify", "complete"} => <<runner.att, "outputs">> \in told
  /\ At("complete") => <<runner.att, "Succeeded">> \in told
  /\ At("succeed") => attempts[runner.att].status = "Completed"
  /\ runner.pc \in {"fail", "failed", "notifyFailed"} =>
       <<runner.att, "Succeeded">> \notin told
  /\ At("notifyFailed") => node.status = "Failed"
  /\ node.status = "Succeeded" =>
       node.cur # NoId /\ attempts[node.cur].status = "Completed"

\* The run goroutine ends only where the run is settled or marked.
AccountInv ==
  /\ active.pc = "submit" => run \in {"Accepted", "Canceled"}
  /\ active.pc = "write" => RunTerminal(active.outcome)
  /\ active.pc \in {"handoff", "drive"} => RunTerminal(run)
  /\ StoppedIsAccounted
=============================================================================
