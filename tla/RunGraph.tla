------------------------------ MODULE RunGraph ------------------------------
(***************************************************************************)
(* One run with several nodes: the run goroutine of                        *)
(* pkg/executor/executor.go (executeRun, runGraph, finalizeRun), the       *)
(* fast-fail watcher beside it, one runner goroutine per node, the Cancel  *)
(* handler that goes through the nodes one at a time, and the startup      *)
(* sweep after a crash.  dag-go, which decides when a runner is called, is *)
(* external: it calls RunE once every parent's RunE returned nil, and      *)
(* d.Wait returns false after an error or the end of the run context,      *)
(* while other runners may still be going.                                 *)
(*                                                                         *)
(* NodeExecution has the steps of one runner.  Here a runner is reduced to *)
(* what the graph sees of it: the writes to the node's status, whether the *)
(* submission fence was crossed, and what RunE returns.  The attempt's     *)
(* record and the node's are written in one step.                          *)
(***************************************************************************)
EXTENDS ExecutionRecords

CONSTANTS
  N,            \* number of nodes; Spec.Graph.Nodes is the list 1 .. N
  Parents,      \* Parents[n]: the nodes with an edge to n
  TimedNodes,   \* the nodes with TimeoutPolicy.Seconds > 0
  FailFast,     \* FailurePolicy.Mode is "" or "fail-fast"
  MaxRestarts,  \* bound: process crashes
  MaxCancels    \* bound: Cancel requests

Nodes == 1 .. N

ASSUME GraphAssumption ==
  /\ N \in Nat \ {0}
  /\ Parents \in [Nodes -> SUBSET Nodes]
  /\ TimedNodes \subseteq Nodes
  /\ FailFast \in BOOLEAN
  /\ MaxRestarts \in Nat /\ MaxCancels \in Nat

NoNode == 0

VARIABLES
  run,       \* durable: RunRecord.Status
  nodes,     \* durable: the NodeRecords
  graph,     \* volatile: the run goroutine, its activeRun and its watcher
  runners,   \* volatile: where each node's runner is
  cx,        \* volatile: the Cancel handler
  bounds     \* crashes and Cancel requests so far

vars == <<run, nodes, graph, runners, cx, bounds>>

(***************************************************************************)
(* A NodeRecord: started is whether the submission fence of its current    *)
(* attempt was crossed (from there on its user code may run), causedBy is  *)
(* CausedByNodeID, realized is RealizationAttemptCount.  "Ready" stands    *)
(* for every status from Ready to Releasing.                               *)
(***************************************************************************)
GraphNode ==
  [status : {"Pending", "Ready", "Running", "Succeeded", "Failed", "Canceled",
             "Skipped"},
   started : BOOLEAN, causedBy : Nodes \cup {NoNode}, realized : 0 .. Ceiling]

(***************************************************************************)
(* graph.pc: start (before registerActiveRun), graph (before the run is    *)
(* set Running), wait (d.Wait), skip, final (before GetRun), list (before  *)
(* ListNodes), write, handoff, drive (recoverCanceledRun), none, down (no  *)
(* process).  ctx, unresolved: activeRun; watch, root: the watcher and the *)
(* fastFailRoot channel; next: the skip loop's index, cause its            *)
(* fastFailRootNodeID; ok: d.Wait's result; outcome: finalizeRun's         *)
(* runStatus; refused: dag-go never started.                               *)
(***************************************************************************)
GraphRecord ==
  [pc : {"start", "graph", "wait", "skip", "final", "list", "write", "handoff",
         "drive", "none", "down"},
   ctx : BOOLEAN, unresolved : BOOLEAN, watch : {"off", "poll", "cancel"},
   root : Nodes \cup {NoNode}, next : 1 .. N + 1, cause : Nodes \cup {NoNode},
   ok : BOOLEAN, outcome : RunStatuses, refused : BOOLEAN]
Goroutine(pc) ==
  [pc |-> pc, ctx |-> FALSE, unresolved |-> FALSE, watch |-> "off",
   root |-> NoNode, next |-> 1, cause |-> NoNode, ok |-> FALSE,
   outcome |-> "Accepted", refused |-> FALSE]

\* executeRun returned: its deferred cancel has ended the run context.
Ended == [Goroutine("none") EXCEPT !.ctx = TRUE, !.unresolved = graph.unresolved,
                                   !.refused = graph.refused]

RunnerPCs == {"idle", "classify", "allocate", "resume", "realize", "mark",
              "wait", "succeed", "fail", "cancel", "drive", "driven", "ok",
              "err"}
Returned == {"idle", "ok", "err", "driven"}

TypeOK ==
  /\ run \in RunStatuses
  /\ nodes \in [Nodes -> GraphNode]
  /\ graph \in GraphRecord
  /\ runners \in [Nodes -> RunnerPCs]
  /\ cx \in [pc : {"idle", "signal", "nodes"}, next : 1 .. N + 1]
  /\ bounds \in [restarts : 0 .. MaxRestarts, cancels : 0 .. MaxCancels]

\* Admit has stored the run as Admitted and started executeRun.
Init ==
  /\ run = "Admitted"
  /\ nodes = [n \in Nodes |-> [status |-> "Pending", started |-> FALSE,
                               causedBy |-> NoNode, realized |-> 0]]
  /\ graph = Goroutine("start")
  /\ runners = [n \in Nodes |-> "idle"]
  /\ cx = [pc |-> "idle", next |-> 1]
  /\ bounds = [restarts |-> 0, cancels |-> 0]

Status(n) == nodes[n].status
SetStatus(n, s) == nodes' = [nodes EXCEPT ![n].status = s]
Goto(n, pc) == runners' = [runners EXCEPT ![n] = pc]

-----------------------------------------------------------------------------
(* The run goroutine                                                       *)

\* executeRun: from registerActiveRun on, Cancel finds the run.
BeginRun ==
  /\ graph.pc = "start"
  /\ graph' = [graph EXCEPT !.pc = "graph"]
  /\ UNCHANGED <<run, nodes, runners, cx, bounds>>

\* runGraph stores Running (the write carries the run context, so it is
\* refused once that ended), starts the watcher and then dag-go.
SetRunRunning ==
  /\ graph.pc = "graph"
  /\ run' = IF graph.ctx THEN run ELSE "Running"
  /\ graph' = [graph EXCEPT !.pc = "wait", !.watch = "poll"]
  /\ UNCHANGED <<nodes, runners, cx, bounds>>

\* dag-go refuses the graph, its worker pool or d.Start: an error before any
\* runner was called, and nothing is skipped.
GraphNotStarted ==
  /\ graph.pc \in {"graph", "wait"}
  /\ \A n \in Nodes : runners[n] = "idle"
  /\ graph' = [graph EXCEPT !.pc = "final", !.refused = TRUE]
  /\ UNCHANGED <<run, nodes, runners, cx, bounds>>

GraphSucceeds ==
  /\ graph.pc = "wait"
  /\ \A n \in Nodes : runners[n] = "ok"
  /\ graph' = [graph EXCEPT !.pc = "final", !.ok = TRUE]
  /\ UNCHANGED <<run, nodes, runners, cx, bounds>>

WaitFailed == graph.ctx \/ \E n \in Nodes : runners[n] = "err"
ToSkipLoop == [graph EXCEPT !.pc = "skip", !.cause = graph.root]

GraphFailsSilently ==                      \* mutant: any failure just returns
  /\ graph.pc = "wait" /\ WaitFailed
  /\ graph' = Ended
  /\ UNCHANGED <<run, nodes, runners, cx, bounds>>

GraphFailsAlways ==                         \* mutant: isUnresolved not asked
  /\ graph.pc = "wait" /\ WaitFailed
  /\ graph' = ToSkipLoop
  /\ UNCHANGED <<run, nodes, runners, cx, bounds>>

\* d.Wait returned false.  An unresolved run is left as it is; otherwise the
\* root of the fast-fail, if one was published, is read and the loop begins.
GraphFails ==
  /\ graph.pc = "wait" /\ WaitFailed
  /\ graph' = IF graph.unresolved
              THEN Ended ELSE ToSkipLoop
  /\ UNCHANGED <<run, nodes, runners, cx, bounds>>

SkipOf(n) == [nodes[n] EXCEPT
               !.status = "Skipped",
               !.causedBy = IF graph.cause \in Nodes \ {n}
                            THEN graph.cause ELSE @]
NextSkip == graph' = IF graph.next = N
                     THEN [graph EXCEPT !.pc = "final", !.next = 1,
                                        !.cause = NoNode]
                     ELSE [graph EXCEPT !.next = @ + 1]

SkipLoopStopsShort ==                     \* mutant: the last node is missed
  /\ graph.pc = "skip"
  /\ LET n == graph.next
     IN  nodes' = IF Status(n) = "Pending" /\ n < N
                  THEN [nodes EXCEPT ![n] = SkipOf(n)] ELSE nodes
  /\ NextSkip
  /\ UNCHANGED <<run, runners, cx, bounds>>

\* One node of the loop: a node that is still Pending becomes Skipped.
SkipPending ==
  /\ graph.pc = "skip"
  /\ LET n == graph.next
     IN  nodes' = IF Status(n) = "Pending"
                  THEN [nodes EXCEPT ![n] = SkipOf(n)] ELSE nodes
  /\ NextSkip
  /\ UNCHANGED <<run, runners, cx, bounds>>

-----------------------------------------------------------------------------
(* finalizeRun                                                             *)

FinalizeGetRun ==
  /\ graph.pc = "final"
  /\ graph' = [graph EXCEPT !.pc = "list", !.outcome = run]
  /\ UNCHANGED <<run, nodes, runners, cx, bounds>>

FromFailuresOnly ==                   \* mutant: Canceled nodes are not counted
  IF \E n \in Nodes : Status(n) = "Failed" THEN "Failed" ELSE "Succeeded"

\* The status the nodes give: a Failed node wins over a Canceled one.
FromNodes ==
  IF \E n \in Nodes : Status(n) = "Failed" THEN "Failed"
  ELSE IF \E n \in Nodes : Status(n) = "Canceled" THEN "Canceled"
  ELSE "Succeeded"

\* A run read as Canceled stays so, and a graph that failed does not succeed.
RunOutcome ==
  LET derived == IF graph.outcome = "Canceled" THEN "Canceled" ELSE FromNodes
  IN  IF ~graph.ok /\ derived = "Succeeded" THEN "Failed" ELSE derived

FinalizeListNodes ==
  /\ graph.pc = "list"
  /\ graph' = [graph EXCEPT !.pc = "write", !.outcome = RunOutcome]
  /\ UNCHANGED <<run, nodes, runners, cx, bounds>>

FinalizeWrite ==
  /\ graph.pc = "write"
  /\ run' = graph.outcome
  /\ graph' = [graph EXCEPT !.pc = "handoff"]
  /\ UNCHANGED <<nodes, runners, cx, bounds>>

\* FinalizeSampleRun and EvaluateGC: an error turns a run just stored as
\* Succeeded into a Failed one.  executeRun returns and its deferred cancel
\* ends the run context.
HandoffFinalize ==
  /\ graph.pc = "handoff"
  /\ \/ UNCHANGED run
     \/ graph.outcome = "Succeeded" /\ run' = "Failed"
  /\ graph' = Ended
  /\ UNCHANGED <<nodes, runners, cx, bounds>>

-----------------------------------------------------------------------------
(* The fast-fail watcher                                                   *)

WatchTerminated ==           \* mutant: any unsuccessful end is taken for a root
  /\ graph.watch = "poll" /\ ~graph.ctx /\ FailFast
  /\ \E n \in Nodes :
       /\ Status(n) \in {"Failed", "Canceled"}
       /\ graph' = [graph EXCEPT !.watch = "cancel", !.root = n]
  /\ UNCHANGED <<run, nodes, runners, cx, bounds>>

\* The ticker found a Failed node; the order of ListNodes is not specified.
\* It is published before the context is ended.
WatchFailed ==
  /\ graph.watch = "poll" /\ ~graph.ctx /\ FailFast
  /\ \E n \in Nodes :
       /\ Status(n) = "Failed"
       /\ graph' = [graph EXCEPT !.watch = "cancel", !.root = n]
  /\ UNCHANGED <<run, nodes, runners, cx, bounds>>

\* active.cancel(), then CancelNode on the registered handles: the runners
\* that wait for a Job see the context end.
WatchCancel ==
  /\ graph.watch = "cancel"
  /\ graph' = [graph EXCEPT !.watch = "off", !.ctx = TRUE]
  /\ UNCHANGED <<run, nodes, runners, cx, bounds>>

-----------------------------------------------------------------------------
(* A node's runner                                                         *)

\* dag-go calls RunE once the RunE of every parent returned nil.
Release(n) ==
  /\ graph.pc = "wait" /\ runners[n] = "idle"
  /\ \A p \in Parents[n] : runners[p] = "ok"
  /\ Goto(n, "classify")
  /\ UNCHANGED <<run, nodes, graph, cx, bounds>>

UnresolvedReturnsNil(n) ==           \* mutant: the error is not passed to dag-go
  /\ Goto(n, "ok")
  /\ graph' = [graph EXCEPT !.unresolved = TRUE]

\* The outcome is unknown but recoverable: markUnresolved, then the error.
Unresolved(n) ==
  /\ Goto(n, "err")
  /\ graph' = [graph EXCEPT !.unresolved = TRUE]

\* What repairTerminalProjection returns for a node that ended already: an
\* error for a Failed one, nil for every other.
RepairReturns(n) == IF Status(n) = "Failed" THEN "err" ELSE "ok"

\* ClassifyReconcile: terminal, post-fence (reattach, or find by identity,
\* which may stay unresolved), or not submitted yet.
Classify(n) ==
  /\ runners[n] = "classify"
  /\ IF NodeTerminal(Status(n))
     THEN Goto(n, RepairReturns(n)) /\ UNCHANGED graph
     ELSE IF nodes[n].started
     THEN Unresolved(n) \/ (Goto(n, "wait") /\ UNCHANGED graph)
     ELSE /\ Goto(n, IF Status(n) = "Pending" THEN "allocate" ELSE "resume")
          /\ UNCHANGED graph
  /\ UNCHANGED <<run, nodes, cx, bounds>>

\* AllocateCurrentAttempt: Ready is stored whatever the node's status has
\* become since it was classified.
Allocate(n) ==
  /\ runners[n] = "allocate"
  /\ nodes' = [nodes EXCEPT ![n] = [nodes[n] EXCEPT
                  !.status = "Ready", !.realized = nodes[n].realized + 1]]
  /\ Goto(n, "realize")
  /\ UNCHANGED <<run, graph, cx, bounds>>

\* The same attempt goes on: Ready is stored in the same way.
Resume(n) ==
  /\ runners[n] = "resume"
  /\ SetStatus(n, "Ready")
  /\ Goto(n, "realize")
  /\ UNCHANGED <<run, graph, cx, bounds>>

\* Inputs, placement or preparation fail before the fence: failNode cancels
\* the node of a canceled run, resets it for another cycle, or fails it.
RealizeFails(n) ==
  /\ runners[n] = "realize"
  /\ \/ run = "Canceled" /\ Goto(n, "cancel") /\ UNCHANGED nodes
     \/ /\ run # "Canceled" /\ nodes[n].realized < Ceiling
        /\ SetStatus(n, "Pending") /\ Goto(n, "classify")
     \/ run # "Canceled" /\ Goto(n, "fail") /\ UNCHANGED nodes
  /\ UNCHANGED <<run, graph, cx, bounds>>

\* The fence, then StartNode, whose error leaves the outcome unknown; it always
\* fails once the run context or the node's timeout has ended its context.
Submit(n) ==
  /\ runners[n] = "realize"
  /\ nodes' = [nodes EXCEPT ![n].started = TRUE]
  /\ \/ Unresolved(n)
     \/ ~graph.ctx /\ Goto(n, "mark") /\ UNCHANGED graph
  /\ UNCHANGED <<run, cx, bounds>>

MarkRunning(n) ==
  /\ runners[n] = "mark"
  /\ SetStatus(n, "Running")
  /\ Goto(n, "wait")
  /\ UNCHANGED <<run, graph, cx, bounds>>

\* WaitNode: the workload ended, the wait was canceled (by the run context,
\* the run, or the node's own timeout), or nothing could be observed.
WaitEnds(n) ==
  /\ runners[n] = "wait"
  /\ \/ Goto(n, "succeed") /\ UNCHANGED graph
     \/ Goto(n, IF run = "Canceled" THEN "cancel" ELSE "fail") /\ UNCHANGED graph
     \/ /\ graph.ctx \/ run = "Canceled" \/ n \in TimedNodes
        /\ Goto(n, "cancel") /\ UNCHANGED graph
     \/ Unresolved(n)
  /\ UNCHANGED <<run, nodes, cx, bounds>>

\* The outcome is stored and RunE returns; a cancellation returns nil.
StoreOutcome(n) ==
  /\ runners[n] \in {"succeed", "fail", "cancel"}
  /\ LET pc == runners[n]
     IN  /\ SetStatus(n, CASE pc = "succeed" -> "Succeeded"
                           [] pc = "fail"    -> "Failed"
                           [] pc = "cancel"  -> "Canceled")
         /\ Goto(n, IF pc = "fail" THEN "err" ELSE "ok")
  /\ UNCHANGED <<run, graph, cx, bounds>>

\* driveCancellation: a terminal node is left alone, one that was not
\* submitted is closed, one that was is canceled and observed.
DriveCancellation(n) ==
  /\ runners[n] = "drive"
  /\ IF NodeTerminal(Status(n)) THEN Goto(n, "driven") /\ UNCHANGED <<nodes, graph>>
     ELSE IF ~nodes[n].started
     THEN SetStatus(n, "Canceled") /\ Goto(n, "driven") /\ UNCHANGED graph
     ELSE /\ Unresolved(n) \/ (Goto(n, "wait") /\ UNCHANGED graph)
          /\ UNCHANGED nodes
  /\ UNCHANGED <<run, cx, bounds>>

-----------------------------------------------------------------------------
(* The Cancel handler                                                      *)

CancelRequest ==
  /\ cx.pc = "idle" /\ graph.pc # "down"
  /\ bounds.cancels < MaxCancels
  /\ bounds' = [bounds EXCEPT !.cancels = @ + 1]
  /\ run' = IF RunTerminal(run) THEN run ELSE "Canceled"
  /\ cx' = [pc |-> "signal", next |-> 1]
  /\ UNCHANGED <<nodes, graph, runners>>

\* active.cancel() when the run is registered.
CancelSignal ==
  /\ cx.pc = "signal"
  /\ graph' = IF graph.pc \in {"start", "none"} THEN graph
              ELSE [graph EXCEPT !.ctx = TRUE]
  /\ cx' = [cx EXCEPT !.pc = "nodes"]
  /\ UNCHANGED <<run, nodes, runners, bounds>>

\* The next node: a node without a Job is closed, a Running one is left to its
\* runner.
CancelNextNode ==
  /\ cx.pc = "nodes"
  /\ LET n == cx.next
     IN  nodes' = IF Status(n) \in {"Pending", "Ready"}
                  THEN [nodes EXCEPT ![n].status = "Canceled"] ELSE nodes
  /\ cx' = IF cx.next = N THEN [pc |-> "idle", next |-> 1]
           ELSE [cx EXCEPT !.next = @ + 1]
  /\ UNCHANGED <<run, graph, runners, bounds>>

-----------------------------------------------------------------------------
(* Crash and restart                                                       *)

Crash ==
  /\ graph.pc # "down" /\ bounds.restarts < MaxRestarts
  /\ bounds' = [bounds EXCEPT !.restarts = @ + 1]
  /\ graph' = Goroutine("down")
  /\ runners' = [n \in Nodes |-> "idle"]
  /\ cx' = [pc |-> "idle", next |-> 1]
  /\ UNCHANGED <<run, nodes>>

\* The startup sweep: a non-terminal run is executed again, the non-terminal
\* nodes of a terminal run are driven to an end under an ended context.
Recover ==
  /\ graph.pc = "down"
  /\ IF ~RunTerminal(run) THEN graph' = Goroutine("start") /\ UNCHANGED runners
     ELSE IF \E n \in Nodes : ~NodeTerminal(Status(n))
     THEN /\ graph' = [Goroutine("drive") EXCEPT !.ctx = TRUE]
          /\ runners' = [n \in Nodes |-> "drive"]
     ELSE graph' = Goroutine("none") /\ UNCHANGED runners
  /\ UNCHANGED <<run, nodes, cx, bounds>>

\* recoverCanceledRun returns once every driveCancellation did.
DriveEnds ==
  /\ graph.pc = "drive"
  /\ \A n \in Nodes : runners[n] \in {"ok", "err", "driven"}
  /\ graph' = Ended
  /\ UNCHANGED <<run, nodes, runners, cx, bounds>>

-----------------------------------------------------------------------------
RunStep ==
  \/ BeginRun \/ SetRunRunning \/ GraphSucceeds \/ GraphFails \/ SkipPending
  \/ FinalizeGetRun \/ FinalizeListNodes \/ FinalizeWrite \/ HandoffFinalize
  \/ Recover \/ DriveEnds
WatchStep == WatchFailed \/ WatchCancel
RunnerStep(n) ==
  \/ Classify(n) \/ Allocate(n) \/ Resume(n) \/ RealizeFails(n) \/ Submit(n)
  \/ MarkRunning(n) \/ WaitEnds(n) \/ StoreOutcome(n) \/ DriveCancellation(n)
CancelStep == CancelSignal \/ CancelNextNode

Next ==
  \/ RunStep \/ GraphNotStarted \/ WatchStep
  \/ \E n \in Nodes : Release(n) \/ RunnerStep(n)
  \/ CancelRequest \/ CancelStep
  \/ Crash

Spec == Init /\ [][Next]_vars

\* Each goroutine goes on, dag-go calls the runners it may call, a Job ends or
\* its observation does, and a crashed process is restarted.
Fairness ==
  /\ WF_vars(RunStep) /\ WF_vars(WatchStep) /\ WF_vars(CancelStep)
  /\ \A n \in Nodes : WF_vars(Release(n)) /\ WF_vars(RunnerStep(n))
FairSpec == Spec /\ Fairness

-----------------------------------------------------------------------------
(* Properties                                                              *)

EndedUnfailed == {"Succeeded", "Canceled", "Skipped"}

\* A node that was submitted has only parents that ended without failing, and
\* no late write of a runner or of Cancel reopens one of them.
ParentsEnded ==
  \A n \in Nodes : nodes[n].started
    => \A p \in Parents[n] : Status(p) \in EndedUnfailed

\* Nodes are skipped because a node failed or a cancellation was requested:
\* the skip loop never runs on account of an unresolved node alone, whose
\* dependents it would strand.
SkipHasCause ==
  (\E n \in Nodes : Status(n) = "Skipped")
    => bounds.cancels > 0 \/ \E m \in Nodes : Status(m) = "Failed"

\* The causal root recorded with a skipped node (CausedByNodeID) is another
\* node, and that node did fail, whatever was written since.
CauseIsRoot ==
  \A n \in Nodes :
    nodes[n].causedBy # NoNode
      => nodes[n].causedBy # n /\ Status(nodes[n].causedBy) = "Failed"

\* A run finalizeRun stored as Succeeded has no node that failed, was canceled
\* or is still open, although its nodes were read before the run was written.
SucceededIsSettled ==
  run = "Succeeded" => \A n \in Nodes : Status(n) \in {"Succeeded", "Skipped"}

Quiet == graph.pc = "none" /\ \A n \in Nodes : runners[n] \in Returned

\* The goroutines come to rest, and the run is then terminal or left as
\* unresolved for the next startup.
RunSettles == <>[](Quiet /\ (RunTerminal(run) \/ graph.unresolved))

\* Beside a terminal run whose graph was started no node stays Pending.
NodesSettle ==
  <>[](RunTerminal(run) /\ ~graph.refused
         => \A n \in Nodes : Status(n) # "Pending")

\* repairTerminalProjection "returns a result that drives the DAG consistently
\* with the original terminal outcome" (executor.go:1444): a node that was
\* skipped released nothing, so no node is submitted below it.  Refuted: after
\* a crash in the skip loop a Skipped node's RunE returns nil and dag-go calls
\* the runner of its dependent.
SkippedReleasesNothing ==
  [][\A n \in Nodes : nodes'[n].started /\ ~nodes[n].started
       => \A p \in Parents[n] : Status(p) # "Skipped"]_vars
=============================================================================
