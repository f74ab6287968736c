--------------------------- MODULE RunGraphProofs ---------------------------
(***************************************************************************)
(* Proofs about RunGraph, for every graph, every number of crashes and     *)
(* Cancel requests, with and without fail-fast and node timeouts.          *)
(*                                                                         *)
(* A step is taken apart by kind (StepKinds): a step of a runner, one      *)
(* round of the skip loop or of Cancel, a crash or restart, or a step that *)
(* writes no node.  RunnerMoves says of a runner's step, field by field,   *)
(* what it does; the invariants are then proved from that alone.           *)
(***************************************************************************)
EXTENDS RunGraph, TLAPS

\* The types, and what they rest on: the indices of the two loops stay on the list
\* of nodes, and a node that is Pending, or about to be given an attempt, is below
\* the ceiling.
GraphTyped == graph \in GraphRecord /\ graph.next \in Nodes
NodesTyped ==
  /\ nodes \in [Nodes -> GraphNode] /\ runners \in [Nodes -> RunnerPCs]
  /\ \A n \in Nodes : Status(n) = "Pending" \/ runners[n] = "allocate"
                        => nodes[n].realized < Ceiling
HandlerTyped ==
  /\ run \in RunStatuses
  /\ cx \in [pc : {"idle", "signal", "nodes"}, next : 1 .. N + 1] /\ cx.next \in Nodes
  /\ bounds \in [restarts : 0 .. MaxRestarts, cancels : 0 .. MaxCancels]
RangeInv == GraphTyped /\ NodesTyped /\ HandlerTyped

\* The goroutine of a run is at first, and after a crash, in a state of its type.
LEMMA GoroutineTyped ==
  ASSUME NEW pc \in {"start", "down", "drive", "none"}
  PROVE  Goroutine(pc) \in GraphRecord /\ Goroutine(pc).next \in Nodes
BY GraphAssumption DEF Goroutine, GraphRecord, Nodes, NoNode, RunStatuses

\* So it is when executeRun returned.
LEMMA EndedTyped == GraphTyped => Ended \in GraphRecord /\ Ended.next \in Nodes
<1> SUFFICES ASSUME GraphTyped PROVE Ended \in GraphRecord /\ Ended.next \in Nodes
  OBVIOUS
<1>1. graph.unresolved \in BOOLEAN /\ graph.refused \in BOOLEAN
  BY DEF GraphTyped, GraphRecord
<1>2. Goroutine("none") \in GraphRecord /\ Goroutine("none").next \in Nodes
  BY GoroutineTyped
<1> QED
  BY <1>1, <1>2 DEF Ended, GraphRecord

\* Every step keeps the type of the run goroutine, and the skip loop its index
\* on the list of nodes.
LEMMA GraphTypedStep == RangeInv /\ [Next]_vars => GraphTyped'
<1> SUFFICES ASSUME RangeInv, [Next]_vars PROVE GraphTyped'
  OBVIOUS
<1> USE GraphAssumption DEF RangeInv, GraphTyped
<1>1. CASE BeginRun \/ SetRunRunning \/ GraphNotStarted \/ GraphSucceeds \/ FinalizeWrite
  <2>1. CASE BeginRun \/ FinalizeWrite
    BY <2>1 DEF BeginRun, FinalizeWrite, GraphRecord
  <2>2. CASE SetRunRunning
    BY <2>2 DEF SetRunRunning, GraphRecord
  <2>3. CASE GraphNotStarted
    BY <2>3 DEF GraphNotStarted, GraphRecord
  <2>4. CASE GraphSucceeds
    BY <2>4 DEF GraphSucceeds, GraphRecord
  <2> QED
    BY <1>1, <2>1, <2>2, <2>3, <2>4
<1>2. CASE GraphFails
  BY <1>2, EndedTyped DEF GraphFails, ToSkipLoop, GraphRecord
<1>3. CASE SkipPending
  <2>0. 1 \in Nodes /\ 1 \in 1 .. N + 1
    BY DEF Nodes
  <2>1. CASE graph.next = N
    BY <1>3, <2>0, <2>1 DEF SkipPending, NextSkip, GraphRecord
  <2>2. CASE graph.next # N
    <3>1. graph.next + 1 \in Nodes /\ graph.next + 1 \in 1 .. N + 1
      BY <2>2 DEF Nodes
    <3>2. graph' = [graph EXCEPT !.next = graph.next + 1]
      BY <1>3, <2>2 DEF SkipPending, NextSkip
    <3> QED
      BY <3>1, <3>2 DEF GraphRecord
  <2> QED
    BY <2>1, <2>2
<1>4. CASE FinalizeGetRun
  BY <1>4 DEF FinalizeGetRun, GraphRecord, HandlerTyped
<1>5. CASE FinalizeListNodes
  <2>1. RunOutcome \in RunStatuses
    BY DEF RunOutcome, FromNodes, RunStatuses
  <2> QED
    BY <1>5, <2>1 DEF FinalizeListNodes, GraphRecord
<1>6. CASE HandoffFinalize \/ DriveEnds
  BY <1>6, EndedTyped DEF HandoffFinalize, DriveEnds
<1>7. CASE Recover \/ Crash
  <2>1. [Goroutine("drive") EXCEPT !.ctx = TRUE] \in GraphRecord
    BY GoroutineTyped DEF GraphRecord
  <2>2. [Goroutine("drive") EXCEPT !.ctx = TRUE].next \in Nodes
    BY GoroutineTyped DEF Goroutine
  <2> QED
    BY <1>7, <2>1, <2>2, GoroutineTyped DEF Recover, Crash
<1>8. CASE WatchStep \/ CancelSignal
  <2>1. CASE WatchFailed
    <3>1. PICK n \in Nodes : graph' = [graph EXCEPT !.watch = "cancel", !.root = n]
      BY <2>1 DEF WatchFailed
    <3> QED
      BY <3>1 DEF GraphRecord
  <2>2. CASE WatchCancel
    BY <2>2 DEF WatchCancel, GraphRecord
  <2>3. CASE CancelSignal
    <3>1. graph' = graph \/ graph' = [graph EXCEPT !.ctx = TRUE]
      BY <2>3 DEF CancelSignal
    <3> QED
      BY <3>1 DEF GraphRecord
  <2> QED
    BY <1>8, <2>1, <2>2, <2>3 DEF WatchStep
<1>9. CASE \E n \in Nodes : Release(n) \/ RunnerStep(n)
  <2>1. \/ UNCHANGED graph
        \/ graph' = [graph EXCEPT !.unresolved = TRUE]
    BY <1>9 DEF Release, RunnerStep, Classify, Allocate, Resume, RealizeFails, Submit,
                MarkRunning, WaitEnds, StoreOutcome, DriveCancellation, Unresolved
  <2> QED
    BY <2>1 DEF GraphRecord
<1>10. CASE CancelRequest \/ CancelNextNode \/ UNCHANGED vars
  BY <1>10 DEF CancelRequest, CancelNextNode, vars
<1> QED
  BY <1>1, <1>2, <1>3, <1>4, <1>5, <1>6, <1>7, <1>8, <1>9, <1>10
  DEF Next, RunStep, CancelStep

-----------------------------------------------------------------------------
(* What a runner's step does, field by field                               *)

SameNode(n) == nodes'[n] = nodes[n]
Stores(n, s) ==
  /\ nodes'[n].status = s /\ nodes'[n].started = nodes[n].started
  /\ nodes'[n].causedBy = nodes[n].causedBy
Moves(n, from, to) == runners[n] = from /\ runners'[n] = to

\* The ways of a runner through its steps, with what is stored on each.
Move(n) ==
  \/ /\ Moves(n, "idle", "classify") /\ SameNode(n) /\ graph.pc = "wait"
     /\ \A p \in Parents[n] : runners[p] = "ok"
  \/ Moves(n, "classify", "ok") /\ SameNode(n) /\ Status(n) \in EndedUnfailed
  \/ Moves(n, "classify", "err") /\ SameNode(n) /\ Status(n) = "Failed"
  \/ /\ Moves(n, "classify", "err") /\ SameNode(n) /\ ~NodeTerminal(Status(n))
     /\ graph'.unresolved
  \/ Moves(n, "classify", "wait") /\ SameNode(n) /\ ~NodeTerminal(Status(n))
  \/ Moves(n, "classify", "allocate") /\ SameNode(n) /\ Status(n) = "Pending"
  \/ Moves(n, "classify", "resume") /\ SameNode(n) /\ ~NodeTerminal(Status(n))
  \/ Moves(n, "allocate", "realize") /\ Stores(n, "Ready")
  \/ Moves(n, "resume", "realize") /\ Stores(n, "Ready")
  \/ Moves(n, "realize", "cancel") /\ SameNode(n)
  \/ Moves(n, "realize", "fail") /\ SameNode(n)
  \/ /\ Moves(n, "realize", "classify") /\ Stores(n, "Pending")
     /\ nodes'[n].realized < Ceiling
  \/ /\ runners[n] = "realize" /\ nodes'[n].started /\ nodes'[n].status = Status(n)
     /\ nodes'[n].causedBy = nodes[n].causedBy /\ nodes'[n].realized = nodes[n].realized
     /\ runners'[n] = "mark" \/ (runners'[n] = "err" /\ graph'.unresolved)
  \/ Moves(n, "mark", "wait") /\ Stores(n, "Running")
  \/ Moves(n, "wait", "succeed") /\ SameNode(n)
  \/ Moves(n, "wait", "fail") /\ SameNode(n)
  \/ Moves(n, "wait", "cancel") /\ SameNode(n)
  \/ Moves(n, "wait", "err") /\ SameNode(n) /\ graph'.unresolved
  \/ Moves(n, "succeed", "ok") /\ Stores(n, "Succeeded")
  \/ Moves(n, "cancel", "ok") /\ Stores(n, "Canceled")
  \/ Moves(n, "fail", "err") /\ Stores(n, "Failed")
  \/ Moves(n, "drive", "driven") /\ SameNode(n) /\ NodeTerminal(Status(n))
  \/ Moves(n, "drive", "driven") /\ Stores(n, "Canceled") /\ ~NodeTerminal(Status(n))
  \/ Moves(n, "drive", "wait") /\ SameNode(n) /\ ~NodeTerminal(Status(n))
  \/ /\ Moves(n, "drive", "err") /\ SameNode(n) /\ ~NodeTerminal(Status(n))
     /\ graph'.unresolved

\* A step of n's runner leaves the other nodes, the run and the Cancel handler
\* alone, and of the goroutine it changes at most the unresolved mark.
Frame(n) ==
  /\ nodes' \in [Nodes -> GraphNode] /\ runners' \in [Nodes -> RunnerPCs]
  /\ \A m \in Nodes \ {n} : nodes'[m] = nodes[m] /\ runners'[m] = runners[m]
  /\ UNCHANGED <<run, cx, bounds>>
  /\ graph' = graph \/ graph' = [graph EXCEPT !.unresolved = TRUE]

\* Every action of a runner is one of these moves within that frame.
LEMMA RunnerMoves ==
  ASSUME RangeInv, NEW n \in Nodes, Release(n) \/ RunnerStep(n)
  PROVE  Frame(n) /\ Move(n)
<1> USE DEF RangeInv, NodesTyped
<1>0. nodes[n] \in GraphNode /\ runners[n] \in RunnerPCs
  OBVIOUS
<1>1. CASE Release(n)
  BY <1>1 DEF Release, Goto, Frame, Move, Moves, SameNode, RunnerPCs
<1>2. CASE Classify(n)
  <2>1. Frame(n)
    BY <1>2 DEF Classify, RepairReturns, Unresolved, Goto, Frame, RunnerPCs
  <2>2. SameNode(n)
    BY <1>2 DEF Classify, SameNode
  <2>3. Unresolved(n) => graph'.unresolved /\ runners'[n] = "err"
    BY DEF Unresolved, Goto, GraphTyped, GraphRecord
  <2>4. CASE NodeTerminal(Status(n))
    <3>1. runners'[n] = RepairReturns(n)
      BY <1>2, <2>4 DEF Classify, Goto
    <3>2. Status(n) = "Failed" \/ Status(n) \in EndedUnfailed
      BY <2>4 DEF NodeTerminal, EndedUnfailed
    <3> QED
      BY <1>2, <2>1, <2>2, <3>1, <3>2 DEF Classify, RepairReturns, Move, Moves, EndedUnfailed
  <2>5. CASE ~NodeTerminal(Status(n)) /\ nodes[n].started
    <3>1. Unresolved(n) \/ runners'[n] = "wait"
      BY <1>2, <2>5 DEF Classify, Goto
    <3> QED
      BY <1>2, <2>1, <2>2, <2>3, <2>5, <3>1 DEF Classify, Move, Moves
  <2>6. CASE ~NodeTerminal(Status(n)) /\ ~nodes[n].started
    <3>1. runners'[n] = IF Status(n) = "Pending" THEN "allocate" ELSE "resume"
      BY <1>2, <2>6 DEF Classify, Goto
    <3> QED
      BY <1>2, <2>1, <2>2, <2>6, <3>1 DEF Classify, Move, Moves
  <2> QED
    BY <2>4, <2>5, <2>6
<1>3. CASE Allocate(n)
  <2> DEFINE r == [nodes[n] EXCEPT !.status = "Ready",
                                !.realized = nodes[n].realized + 1]
  <2>0. nodes[n].realized \in 0 .. Ceiling /\ nodes[n].realized < Ceiling
    BY <1>0, <1>3 DEF Allocate, GraphNode
  <2>1. nodes[n].realized + 1 \in 0 .. Ceiling
    BY <2>0, CeilingAssumption
  <2>2. r \in GraphNode
    BY <1>0, <2>1 DEF GraphNode
  <2>3. r.status = "Ready" /\ r.started = nodes[n].started /\ r.causedBy = nodes[n].causedBy
    BY <1>0 DEF GraphNode
  <2>4. nodes' = [nodes EXCEPT ![n] = r]
    BY <1>3 DEF Allocate
  <2> HIDE DEF r
  <2>5. Frame(n)
    BY <1>3, <2>2, <2>4 DEF Allocate, Goto, Frame, RunnerPCs
  <2>6. Stores(n, "Ready")
    BY <2>3, <2>4 DEF Stores
  <2>7. Moves(n, "allocate", "realize")
    BY <1>3 DEF Allocate, Goto, Moves
  <2> QED
    BY <2>5, <2>6, <2>7 DEF Move
<1>s. ASSUME NEW s \in {"Pending", "Ready", "Running", "Succeeded", "Failed", "Canceled"},
             SetStatus(n, s)
      PROVE  /\ nodes' \in [Nodes -> GraphNode] /\ Stores(n, s)
             /\ nodes'[n].realized = nodes[n].realized
             /\ \A m \in Nodes \ {n} : nodes'[m] = nodes[m]
  BY <1>s, <1>0 DEF SetStatus, GraphNode, Stores
<1>4. CASE Resume(n)
  BY <1>4, <1>s DEF Resume, Goto, Frame, Move, Moves, RunnerPCs
<1>5. CASE RealizeFails(n)
  <2>1. CASE UNCHANGED nodes
    BY <1>5, <2>1, <1>s DEF RealizeFails, Goto, Frame, Move, Moves, RunnerPCs, SameNode
  <2>2. CASE nodes[n].realized < Ceiling /\ SetStatus(n, "Pending") /\ Goto(n, "classify")
    BY <1>5, <2>2, <1>s DEF RealizeFails, Goto, Frame, Move, Moves, RunnerPCs
  <2> QED
    BY <1>5, <2>1, <2>2 DEF RealizeFails
<1>6. CASE Submit(n)
  <2>1. /\ nodes' \in [Nodes -> GraphNode]
        /\ nodes'[n].started /\ nodes'[n].status = Status(n)
        /\ nodes'[n].causedBy = nodes[n].causedBy /\ nodes'[n].realized = nodes[n].realized
        /\ \A m \in Nodes \ {n} : nodes'[m] = nodes[m]
    BY <1>0, <1>6 DEF Submit, GraphNode, Status
  <2>2. runners[n] = "realize" /\ (Unresolved(n) \/ (Goto(n, "mark") /\ UNCHANGED graph))
    BY <1>6 DEF Submit
  <2>3. Unresolved(n) => graph'.unresolved
    BY DEF Unresolved, GraphTyped, GraphRecord
  <2> QED
    BY <1>6, <2>1, <2>2, <2>3 DEF Submit, Unresolved, Goto, Frame, Move, RunnerPCs
<1>7. CASE MarkRunning(n)
  BY <1>7, <1>s DEF MarkRunning, Goto, Frame, Move, Moves, RunnerPCs
<1>8. CASE WaitEnds(n)
  <2>1. Frame(n)
    BY <1>8 DEF WaitEnds, Unresolved, Goto, Frame, RunnerPCs
  <2>2. SameNode(n) /\ runners[n] = "wait"
    BY <1>8 DEF WaitEnds, SameNode
  <2>3. Unresolved(n) => graph'.unresolved /\ runners'[n] = "err"
    BY DEF Unresolved, Goto, GraphTyped, GraphRecord
  <2>4. Unresolved(n) \/ runners'[n] \in {"succeed", "fail", "cancel"}
    BY <1>8 DEF WaitEnds, Goto
  <2> QED
    BY <2>1, <2>2, <2>3, <2>4 DEF Move, Moves
<1>9. CASE StoreOutcome(n)
  BY <1>9, <1>s DEF StoreOutcome, Goto, Frame, Move, Moves, RunnerPCs
<1>10. CASE DriveCancellation(n)
  <2>1. CASE NodeTerminal(Status(n))
    BY <1>10, <2>1 DEF DriveCancellation, Goto, Frame, Move, Moves, SameNode, RunnerPCs
  <2>2. CASE ~NodeTerminal(Status(n)) /\ ~nodes[n].started
    BY <1>10, <2>2, <1>s DEF DriveCancellation, Goto, Frame, Move, Moves, RunnerPCs
  <2>3. CASE ~NodeTerminal(Status(n)) /\ nodes[n].started
    <3>1. Unresolved(n) => graph'.unresolved /\ runners'[n] = "err"
      BY DEF Unresolved, Goto, GraphTyped, GraphRecord
    <3>2. Unresolved(n) \/ (Goto(n, "wait") /\ UNCHANGED graph)
      BY <1>10, <2>3 DEF DriveCancellation
    <3>3. Frame(n)
      BY <1>10, <2>3 DEF DriveCancellation, Unresolved, Goto, Frame, RunnerPCs
    <3> QED
      BY <1>10, <2>3, <3>1, <3>2, <3>3 DEF DriveCancellation, Goto, Move, Moves, SameNode
  <2> QED
    BY <2>1, <2>2, <2>3
<1> QED
  BY <1>1, <1>2, <1>3, <1>4, <1>5, <1>6, <1>7, <1>8, <1>9, <1>10 DEF RunnerStep

\* The two loops over the nodes write only to nodes without a Job: the skip loop
\* to Pending ones, Cancel to Pending and Ready ones.
Skips(m) ==
  /\ Status(m) = "Pending" /\ nodes'[m].status = "Skipped"
  /\ nodes'[m].started = nodes[m].started /\ nodes'[m].realized = nodes[m].realized
  /\ \/ nodes'[m].causedBy = nodes[m].causedBy
     \/ nodes'[m].causedBy = graph.cause /\ graph.cause \in Nodes \ {m}
Cancels(m) ==
  /\ Status(m) \in {"Pending", "Ready"} /\ nodes'[m].status = "Canceled"
  /\ nodes'[m].started = nodes[m].started /\ nodes'[m].realized = nodes[m].realized
  /\ nodes'[m].causedBy = nodes[m].causedBy

\* What one round of the skip loop does to each node.
LEMMA SkipFacts ==
  ASSUME RangeInv, SkipPending
  PROVE  /\ nodes' \in [Nodes -> GraphNode] /\ UNCHANGED <<run, runners, cx, bounds>>
         /\ \A m \in Nodes : SameNode(m) \/ Skips(m)
<1> DEFINE n == graph.next
<1>1. n \in Nodes /\ nodes \in [Nodes -> GraphNode]
  BY DEF RangeInv, GraphTyped, NodesTyped
<1>2. CASE Status(n) = "Pending"
  <2> DEFINE c == IF graph.cause \in Nodes \ {n} THEN graph.cause ELSE nodes[n].causedBy
  <2>1. nodes[n] \in GraphNode /\ c \in Nodes \cup {NoNode}
    BY <1>1 DEF GraphNode
  <2>2. SkipOf(n) = [nodes[n] EXCEPT !.status = "Skipped", !.causedBy = c]
    BY DEF SkipOf
  <2> HIDE DEF c
  <2>3. /\ SkipOf(n) \in GraphNode /\ SkipOf(n).status = "Skipped"
        /\ SkipOf(n).started = nodes[n].started /\ SkipOf(n).realized = nodes[n].realized
        /\ SkipOf(n).causedBy = c
    BY <2>1, <2>2 DEF GraphNode
  <2>4. nodes' = [nodes EXCEPT ![n] = SkipOf(n)]
    BY <1>2 DEF SkipPending
  <2>5. nodes' \in [Nodes -> GraphNode] /\ nodes'[n] = SkipOf(n)
    BY <1>1, <2>3, <2>4
  <2>6. c = nodes[n].causedBy \/ (c = graph.cause /\ graph.cause \in Nodes \ {n})
    BY DEF c
  <2>7. Skips(n)
    BY <1>2, <2>3, <2>5, <2>6 DEF Skips
  <2>8. \A m \in Nodes \ {n} : SameNode(m)
    BY <1>1, <2>4 DEF SameNode
  <2> QED
    BY <2>5, <2>7, <2>8 DEF SkipPending
<1>3. CASE Status(n) # "Pending"
  BY <1>1, <1>3 DEF SkipPending, SameNode
<1> QED
  BY <1>2, <1>3

\* What one round of Cancel does to each node.
LEMMA CancelFacts ==
  ASSUME RangeInv, CancelNextNode
  PROVE  /\ nodes' \in [Nodes -> GraphNode] /\ UNCHANGED <<run, runners, graph, bounds>>
         /\ \A m \in Nodes : SameNode(m) \/ Cancels(m)
<1> DEFINE n == cx.next
<1>1. n \in Nodes /\ nodes \in [Nodes -> GraphNode]
  BY DEF RangeInv, HandlerTyped, NodesTyped
<1>2. CASE Status(n) \in {"Pending", "Ready"}
  <2>1. nodes' = [nodes EXCEPT ![n].status = "Canceled"] /\ nodes[n] \in GraphNode
    BY <1>1, <1>2 DEF CancelNextNode
  <2> HIDE DEF n
  <2>2. nodes' \in [Nodes -> GraphNode]
    BY <1>1, <2>1 DEF GraphNode
  <2>3. Cancels(n) /\ \A m \in Nodes \ {n} : SameNode(m)
    BY <1>1, <1>2, <2>1 DEF Cancels, SameNode, GraphNode
  <2> QED
    BY <2>2, <2>3 DEF CancelNextNode
<1>3. CASE Status(n) \notin {"Pending", "Ready"}
  BY <1>1, <1>3 DEF CancelNextNode, SameNode
<1> QED
  BY <1>2, <1>3

\* The steps of the run goroutine and of the Cancel handler that write no node.
Elsewhere ==
  \/ BeginRun \/ SetRunRunning \/ GraphNotStarted \/ GraphSucceeds \/ GraphFails
  \/ FinalizeGetRun \/ FinalizeListNodes \/ FinalizeWrite \/ HandoffFinalize
  \/ DriveEnds \/ WatchStep \/ CancelRequest \/ CancelSignal \/ UNCHANGED vars

\* They leave the nodes and the runners alone.
LEMMA ElsewhereFacts == Elsewhere => UNCHANGED <<nodes, runners>>
BY DEF Elsewhere, BeginRun, SetRunRunning, GraphNotStarted, GraphSucceeds, GraphFails,
       FinalizeGetRun, FinalizeListNodes, FinalizeWrite, HandoffFinalize, DriveEnds,
       WatchStep, WatchFailed, WatchCancel, CancelRequest, CancelSignal, vars

\* Every step is one of five kinds.
LEMMA StepKinds ==
  [Next]_vars => \/ Elsewhere \/ SkipPending \/ CancelNextNode \/ Crash \/ Recover
                 \/ \E n \in Nodes : Release(n) \/ RunnerStep(n)
BY DEF Next, RunStep, WatchStep, CancelStep, Elsewhere

\* A crash and the startup sweep write no record; all runners start over.
LEMMA CrashFacts ==
  Crash \/ Recover => /\ UNCHANGED <<run, nodes>>
                      /\ \/ UNCHANGED runners
                         \/ runners' = [n \in Nodes |-> "idle"]
                         \/ runners' = [n \in Nodes |-> "drive"]
BY DEF Crash, Recover

\* Every step keeps the types of the nodes and runners, and the ceiling.
LEMMA NodesTypedStep == RangeInv /\ [Next]_vars => NodesTyped'
<1> SUFFICES ASSUME RangeInv, [Next]_vars PROVE NodesTyped'
  OBVIOUS
<1>0. NodesTyped
  BY DEF RangeInv
<1>1. CASE Elsewhere
  BY <1>0, <1>1, ElsewhereFacts DEF NodesTyped, Status
<1>2. CASE SkipPending
  BY <1>0, <1>2, SkipFacts DEF NodesTyped, Status, SameNode, Skips
<1>3. CASE CancelNextNode
  BY <1>0, <1>3, CancelFacts DEF NodesTyped, Status, SameNode, Cancels
<1>4. CASE Crash \/ Recover
  BY <1>0, <1>4, CrashFacts DEF NodesTyped, Status, RunnerPCs
<1>5. ASSUME NEW n \in Nodes, Release(n) \/ RunnerStep(n) PROVE NodesTyped'
  <2>1. Frame(n) /\ Move(n)
    BY <1>5, RunnerMoves
  <2>2. nodes'[n].status = "Pending" \/ runners'[n] = "allocate"
          => nodes'[n].realized < Ceiling
    BY <1>0, <2>1 DEF Move, Moves, SameNode, Stores, NodesTyped, Status
  <2> QED
    BY <1>0, <2>1, <2>2 DEF Frame, NodesTyped, Status
<1> QED
  BY <1>1, <1>2, <1>3, <1>4, <1>5, StepKinds

\* Every step keeps the types of the run, the Cancel handler and the bounds.
LEMMA HandlerTypedStep == RangeInv /\ [Next]_vars => HandlerTyped'
<1> SUFFICES ASSUME RangeInv, [Next]_vars PROVE HandlerTyped'
  OBVIOUS
<1>0. HandlerTyped /\ graph \in GraphRecord
  BY DEF RangeInv, GraphTyped
<1> USE GraphAssumption
<1>1. CASE UNCHANGED <<run, cx, bounds>>
  BY <1>0, <1>1 DEF HandlerTyped
<1>2. CASE SetRunRunning \/ FinalizeWrite \/ HandoffFinalize
  <2>1. run' \in RunStatuses /\ UNCHANGED <<cx, bounds>>
    BY <1>0, <1>2 DEF SetRunRunning, FinalizeWrite, HandoffFinalize, HandlerTyped,
                      RunStatuses, GraphRecord
  <2> QED
    BY <1>0, <2>1 DEF HandlerTyped
<1>3. CASE CancelRequest
  <2>1. run' \in RunStatuses
    BY <1>0, <1>3 DEF CancelRequest, HandlerTyped, RunStatuses
  <2>2. cx' = [pc |-> "signal", next |-> 1]
    BY <1>3 DEF CancelRequest
  <2>3. bounds.cancels + 1 \in 0 .. MaxCancels /\ bounds.restarts \in 0 .. MaxRestarts
    BY <1>0, <1>3 DEF CancelRequest, HandlerTyped
  <2>4. bounds' = [restarts |-> bounds.restarts, cancels |-> bounds.cancels + 1]
    BY <1>0, <1>3 DEF CancelRequest, HandlerTyped
  <2> QED
    BY <2>1, <2>2, <2>3, <2>4 DEF HandlerTyped, Nodes
<1>4. CASE CancelSignal
  BY <1>0, <1>4 DEF CancelSignal, HandlerTyped
<1>5. CASE CancelNextNode
  <2>1. cx' = [pc |-> "idle", next |-> 1] \/ (cx.next # N /\ cx' = [cx EXCEPT !.next = @ + 1])
    BY <1>5 DEF CancelNextNode
  <2>2. cx.next \in 1 .. N /\ cx.pc \in {"idle", "signal", "nodes"}
    BY <1>0 DEF HandlerTyped, Nodes
  <2>3. CASE cx.next # N /\ cx' = [cx EXCEPT !.next = @ + 1]
    BY <1>0, <1>5, <2>2, <2>3 DEF CancelNextNode, HandlerTyped, Nodes
  <2>4. CASE cx' = [pc |-> "idle", next |-> 1]
    BY <1>0, <1>5, <2>4 DEF CancelNextNode, HandlerTyped, Nodes
  <2> QED
    BY <2>1, <2>3, <2>4
<1>6. CASE Crash
  <2>1. bounds.restarts + 1 \in 0 .. MaxRestarts /\ bounds.cancels \in 0 .. MaxCancels
    BY <1>0, <1>6 DEF Crash, HandlerTyped
  <2>2. bounds' = [restarts |-> bounds.restarts + 1, cancels |-> bounds.cancels]
    BY <1>0, <1>6 DEF Crash, HandlerTyped
  <2>3. cx' = [pc |-> "idle", next |-> 1] /\ run' = run
    BY <1>6 DEF Crash
  <2> QED
    BY <1>0, <2>1, <2>2, <2>3 DEF HandlerTyped, Nodes
<1>7. CASE SkipPending
  BY <1>1, <1>7, SkipFacts
<1>8. CASE \E n \in Nodes : Release(n) \/ RunnerStep(n)
  BY <1>1, <1>8, RunnerMoves DEF Frame
<1>9. ASSUME Elsewhere \/ Recover
      PROVE  \/ UNCHANGED <<run, cx, bounds>>
             \/ SetRunRunning \/ FinalizeWrite \/ HandoffFinalize
             \/ CancelRequest \/ CancelSignal
  BY <1>9 DEF Elsewhere, BeginRun, GraphNotStarted, GraphSucceeds, GraphFails,
              FinalizeGetRun, FinalizeListNodes, DriveEnds, WatchStep, WatchFailed,
              WatchCancel, Recover, vars
<1> QED
  BY <1>1, <1>2, <1>3, <1>4, <1>5, <1>6, <1>7, <1>8, <1>9, StepKinds

-----------------------------------------------------------------------------
(* Dependencies                                                            *)

Resting == {"idle", "classify", "ok", "drive", "driven"}

\* What the steps rely on between two nodes: below a submitted node, and below
\* one that may still be submitted, the parents ended and their runners are at a
\* point from which they write nothing any more; a runner that returned nil left
\* an ended node behind; and a Failed node's runner has nothing left to write.
OrderInv ==
  /\ \A n \in Nodes : nodes[n].started
       => \A p \in Parents[n] : Status(p) \in EndedUnfailed /\ runners[p] \in Resting
  /\ \A n \in Nodes : runners[n] \in {"classify", "allocate", "resume", "realize"}
       => \A p \in Parents[n] : Status(p) \in EndedUnfailed /\ runners[p] = "ok"
  /\ \A n \in Nodes : runners[n] = "ok" => Status(n) \in EndedUnfailed
  /\ \A n \in Nodes : Status(n) = "Failed"
       => runners[n] \in {"idle", "classify", "err", "drive", "driven"}

\* Every step keeps the order of dependencies.
LEMMA OrderStep == RangeInv /\ OrderInv /\ [Next]_vars => OrderInv'
<1> SUFFICES ASSUME RangeInv, OrderInv, [Next]_vars PROVE OrderInv'
  OBVIOUS
<1>0. NodesTyped /\ Parents \in [Nodes -> SUBSET Nodes]
  BY GraphAssumption DEF RangeInv
<1>1. CASE Elsewhere
  BY <1>1, ElsewhereFacts DEF OrderInv, Status
<1>2. CASE SkipPending \/ CancelNextNode
  <2>1. /\ UNCHANGED runners
        /\ \A m \in Nodes : /\ nodes'[m].started = nodes[m].started
                            /\ \/ nodes'[m].status = Status(m)
                               \/ /\ Status(m) \in {"Pending", "Ready"}
                                  /\ nodes'[m].status \in EndedUnfailed
    BY <1>2, SkipFacts, CancelFacts
    DEF Skips, Cancels, SameNode, EndedUnfailed, Status
  <2> QED
    BY <1>0, <2>1 DEF OrderInv, Status, EndedUnfailed
<1>3. CASE Crash \/ Recover
  BY <1>0, <1>3, CrashFacts DEF OrderInv, Status, Resting
<1>4. ASSUME NEW n \in Nodes, Release(n) \/ RunnerStep(n) PROVE OrderInv'
  <2>1. Frame(n) /\ Move(n)
    BY <1>4, RunnerMoves
  <2> USE <1>0
  <2>2. nodes'[n].started => nodes[n].started \/ runners[n] = "realize"
    BY <2>1 DEF Move, Moves, SameNode, Stores
  <2>3. Status(n) \in EndedUnfailed /\ runners[n] \in Resting
          => nodes'[n].status = Status(n) /\ runners'[n] \in Resting
    BY <2>1 DEF Move, Moves, SameNode, Stores, EndedUnfailed, Resting, Status, NodeTerminal
  <2>4. runners[n] # "ok"
    BY <2>1 DEF Move, Moves
  <2>5. runners'[n] \in {"classify", "allocate", "resume", "realize"}
          => \/ runners[n] \in {"classify", "allocate", "resume", "realize"}
             \/ \A p \in Parents[n] : runners[p] = "ok"
    BY <2>1 DEF Move, Moves
  <2>6. runners'[n] = "ok" => nodes'[n].status \in EndedUnfailed
    BY <2>1 DEF Move, Moves, SameNode, Stores, EndedUnfailed, Status
  <2>7. nodes'[n].status = "Failed"
          => runners'[n] \in {"idle", "classify", "err", "drive", "driven"}
    BY <2>1 DEF Move, Moves, SameNode, Stores, OrderInv, EndedUnfailed, NodeTerminal, Status
  <2>a. ASSUME NEW m \in Nodes, nodes'[m].started, NEW p \in Parents[m]
        PROVE  nodes'[p].status \in EndedUnfailed /\ runners'[p] \in Resting
    <3>1. p \in Nodes
      OBVIOUS
    <3>2. nodes[m].started \/ runners[m] = "realize"
      BY <2>a, <2>1, <2>2 DEF Frame
    <3>3. Status(p) \in EndedUnfailed /\ runners[p] \in Resting
      BY <3>2 DEF OrderInv, Resting
    <3> QED
      BY <3>1, <3>3, <2>1, <2>3 DEF Frame, Status
  <2>b. ASSUME NEW m \in Nodes, NEW p \in Parents[m],
               runners'[m] \in {"classify", "allocate", "resume", "realize"}
        PROVE  nodes'[p].status \in EndedUnfailed /\ runners'[p] = "ok"
    <3>1. p \in Nodes
      OBVIOUS
    <3>2. Status(p) \in EndedUnfailed /\ runners[p] = "ok"
      BY <2>b, <2>1, <2>5, <3>1 DEF Frame, OrderInv
    <3> QED
      BY <3>1, <3>2, <2>1, <2>4 DEF Frame, Status
  <2>c. ASSUME NEW m \in Nodes, runners'[m] = "ok"
        PROVE  nodes'[m].status \in EndedUnfailed
    BY <2>c, <2>1, <2>6 DEF Frame, OrderInv, Status
  <2>d. ASSUME NEW m \in Nodes, nodes'[m].status = "Failed"
        PROVE  runners'[m] \in {"idle", "classify", "err", "drive", "driven"}
    BY <2>d, <2>1, <2>7 DEF Frame, OrderInv, Status
  <2> QED
    BY <2>a, <2>b, <2>c, <2>d DEF OrderInv, Status
<1> QED
  BY <1>1, <1>2, <1>3, <1>4, StepKinds

\* A node that failed stays Failed, whoever writes next.
LEMMA FailedStays ==
  ASSUME RangeInv, OrderInv, [Next]_vars, NEW m \in Nodes, Status(m) = "Failed"
  PROVE  nodes'[m].status = "Failed"
<1>1. CASE Elsewhere \/ Crash \/ Recover
  BY <1>1, ElsewhereFacts, CrashFacts DEF Status
<1>2. CASE SkipPending \/ CancelNextNode
  BY <1>2, SkipFacts, CancelFacts DEF Skips, Cancels, SameNode, Status
<1>3. ASSUME NEW n \in Nodes, Release(n) \/ RunnerStep(n)
      PROVE  nodes'[m].status = "Failed"
  <2>1. Frame(n) /\ Move(n)
    BY <1>3, RunnerMoves
  <2>2. runners[m] \in {"idle", "classify", "err", "drive", "driven"}
    BY DEF OrderInv
  <2>3. CASE n = m
    BY <2>1, <2>2, <2>3 DEF Move, Moves, SameNode, Stores, Status, NodeTerminal, EndedUnfailed
  <2>4. CASE n # m
    BY <2>1, <2>4 DEF Frame, Status
  <2> QED
    BY <2>3, <2>4
<1> QED
  BY <1>1, <1>2, <1>3, StepKinds

-----------------------------------------------------------------------------
(* Causes                                                                  *)

Caused == bounds.cancels > 0 \/ \E m \in Nodes : Status(m) = "Failed"
IsRoot(n) == n # NoNode => n \in Nodes /\ Status(n) = "Failed"

StaysRoot(n) == n # NoNode => n \in Nodes /\ nodes'[n].status = "Failed"

\* Where the goroutine, its watcher and the Cancel handler are about to end the
\* run context or to skip nodes, there is a cause; and an error of a runner is
\* either an unresolved node or a Failed one.
CauseInv ==
  /\ graph.pc = "down" => \A n \in Nodes : runners[n] = "idle"
  /\ graph.watch = "cancel" => Caused
  /\ graph.ctx /\ graph.pc \in {"start", "graph", "wait"} => Caused
  /\ graph.pc = "skip" => Caused
  /\ cx.pc = "signal" => bounds.cancels > 0
  /\ \A n \in Nodes : runners[n] = "err" => graph.unresolved \/ Status(n) = "Failed"
  /\ IsRoot(graph.root) /\ IsRoot(graph.cause)
  /\ SkipHasCause /\ CauseIsRoot

\* Cancel requests are not forgotten.
LEMMA CancelsGrow == RangeInv /\ [Next]_vars => bounds'.cancels >= bounds.cancels
<1> SUFFICES ASSUME RangeInv, [Next]_vars PROVE bounds'.cancels >= bounds.cancels
  OBVIOUS
<1>0. bounds.cancels \in Nat /\ bounds \in [restarts : 0 .. MaxRestarts, cancels : 0 .. MaxCancels]
  BY GraphAssumption DEF RangeInv, HandlerTyped
<1>1. CASE UNCHANGED bounds
  BY <1>0, <1>1
<1>2. CASE CancelRequest \/ Crash
  BY <1>0, <1>2 DEF CancelRequest, Crash
<1>3. CASE \E n \in Nodes : Release(n) \/ RunnerStep(n)
  BY <1>1, <1>3, RunnerMoves DEF Frame
<1>4. CASE Elsewhere \/ SkipPending \/ CancelNextNode \/ Recover
  BY <1>1, <1>2, <1>4
  DEF Elsewhere, BeginRun, SetRunRunning, GraphNotStarted, GraphSucceeds, GraphFails,
      FinalizeGetRun, FinalizeListNodes, FinalizeWrite, HandoffFinalize, DriveEnds,
      WatchStep, WatchFailed, WatchCancel, CancelSignal, SkipPending, CancelNextNode,
      Recover, vars
<1> QED
  BY <1>2, <1>3, <1>4, StepKinds

\* A cause, and a root of a fast-fail, remain.
LEMMA CauseStays ==
  ASSUME RangeInv, OrderInv, [Next]_vars
  PROVE  (Caused => Caused') /\ \A n : IsRoot(n) => StaysRoot(n)
<1>1. \A m \in Nodes : Status(m) = "Failed" => nodes'[m].status = "Failed"
  BY FailedStays
<1>2. bounds'.cancels >= bounds.cancels /\ bounds.cancels \in Nat /\ bounds'.cancels \in Nat
  BY CancelsGrow, HandlerTypedStep, GraphAssumption DEF RangeInv, HandlerTyped
<1> QED
  BY <1>1, <1>2 DEF Caused, IsRoot, StaysRoot, Status

\* A step that writes no node keeps the two properties of skipped nodes.
LEMMA CauseElsewhere ==
  ASSUME RangeInv, OrderInv, CauseInv, [Next]_vars, Elsewhere
  PROVE  CauseInv'
<1>0. graph \in GraphRecord /\ UNCHANGED <<nodes, runners>>
  BY ElsewhereFacts DEF RangeInv, GraphTyped
<1>k. (Caused => Caused') /\ \A n : IsRoot(n) => StaysRoot(n)
  BY CauseStays
<1>s. SkipHasCause' /\ CauseIsRoot'
  <2>1. \A n \in Nodes : nodes'[n] = nodes[n]
    BY <1>0
  <2>2. SkipHasCause /\ CauseIsRoot
    BY DEF CauseInv
  <2>3. SkipHasCause'
    BY <1>k, <2>1, <2>2 DEF SkipHasCause, Caused, Status
  <2>4. CauseIsRoot'
    BY <2>1, <2>2, <1>0 DEF CauseIsRoot, Status
  <2> QED
    BY <2>3, <2>4
<1>n. StaysRoot(NoNode)
  BY DEF StaysRoot
\* What is left to show of the goroutine's record and the handler's.
<1> DEFINE G == /\ graph'.pc = "down" => \A n \in Nodes : runners[n] = "idle"
                /\ graph'.watch = "cancel" => Caused'
                /\ graph'.ctx /\ graph'.pc \in {"start", "graph", "wait"} => Caused'
                /\ graph'.pc = "skip" => Caused'
                /\ graph.unresolved => graph'.unresolved
                /\ StaysRoot(graph'.root) /\ StaysRoot(graph'.cause)
           C == cx'.pc = "signal" => bounds'.cancels > 0
<1>q. ASSUME G, C PROVE CauseInv'
  <2>1. IsRoot(graph.root)' /\ IsRoot(graph.cause)'
    BY <1>q DEF IsRoot, StaysRoot, Status
  <2> QED
    BY <1>0, <1>s, <1>q, <2>1 DEF CauseInv, Status
<1>c. ASSUME UNCHANGED <<cx, bounds>> PROVE C
  BY <1>c DEF CauseInv
<1>g. ASSUME UNCHANGED graph PROVE G
  BY <1>g, <1>k DEF CauseInv
<1> USE <1>0
<1>1. CASE BeginRun \/ SetRunRunning \/ GraphNotStarted \/ GraphSucceeds
           \/ FinalizeGetRun \/ FinalizeListNodes \/ FinalizeWrite
  <2>1. /\ graph'.pc \in {"graph", "wait", "final", "list", "write", "handoff"}
        /\ graph'.pc \in {"graph", "wait"} => graph.pc \in {"start", "graph"}
        /\ graph'.watch # "cancel" \/ graph'.watch = graph.watch
        /\ graph'.ctx = graph.ctx /\ graph'.unresolved = graph.unresolved
        /\ graph'.root = graph.root /\ graph'.cause = graph.cause
    BY <1>1 DEF BeginRun, SetRunRunning, GraphNotStarted, GraphSucceeds,
                FinalizeGetRun, FinalizeListNodes, FinalizeWrite, GraphRecord
  <2>2. UNCHANGED <<cx, bounds>>
    BY <1>1 DEF BeginRun, SetRunRunning, GraphNotStarted, GraphSucceeds,
                FinalizeGetRun, FinalizeListNodes, FinalizeWrite
  <2> QED
    BY <1>c, <1>k, <1>q, <2>1, <2>2 DEF CauseInv
<1>e. ASSUME graph' = Ended PROVE G
  <2>1. /\ graph'.pc = "none" /\ graph'.watch = "off" /\ graph'.unresolved = graph.unresolved
        /\ graph'.root = NoNode /\ graph'.cause = NoNode
    BY <1>e DEF Ended, Goroutine
  <2> QED
    BY <1>n, <2>1
<1>2. CASE GraphFails
  <2>1. UNCHANGED <<cx, bounds>>
    BY <1>2 DEF GraphFails
  <2>2. CASE graph.unresolved
    BY <1>2, <1>c, <1>e, <1>q, <2>1, <2>2 DEF GraphFails
  <2>3. CASE ~graph.unresolved
    <3>1. Caused
      BY <1>2, <2>3 DEF GraphFails, WaitFailed, CauseInv, Caused
    <3>2. /\ graph'.pc = "skip" /\ graph'.watch = graph.watch
          /\ graph'.unresolved = graph.unresolved
          /\ graph'.root = graph.root /\ graph'.cause = graph.root
      BY <1>2, <2>3 DEF GraphFails, ToSkipLoop, GraphRecord
    <3> QED
      BY <1>c, <1>k, <1>q, <2>1, <3>1, <3>2 DEF CauseInv
  <2> QED
    BY <2>2, <2>3
<1>3. CASE HandoffFinalize \/ DriveEnds
  BY <1>3, <1>c, <1>e, <1>q DEF HandoffFinalize, DriveEnds
<1>4. CASE WatchFailed
  <2>1. PICK n \in Nodes : /\ Status(n) = "Failed"
                           /\ graph' = [graph EXCEPT !.watch = "cancel", !.root = n]
    BY <1>4 DEF WatchFailed
  <2>2. /\ graph'.pc = graph.pc /\ graph'.ctx = graph.ctx /\ graph'.root = n
        /\ graph'.unresolved = graph.unresolved /\ graph'.cause = graph.cause
    BY <2>1 DEF GraphRecord
  <2>3. Caused /\ IsRoot(n)
    BY <2>1 DEF Caused, IsRoot
  <2>4. UNCHANGED <<cx, bounds>>
    BY <1>4 DEF WatchFailed
  <2> QED
    BY <1>c, <1>k, <1>q, <2>2, <2>3, <2>4 DEF CauseInv
<1>5. CASE WatchCancel \/ CancelSignal
  <2>1. /\ graph'.pc = graph.pc /\ graph'.root = graph.root /\ graph'.cause = graph.cause
        /\ graph'.unresolved = graph.unresolved
        /\ graph'.watch # "cancel" \/ graph'.watch = graph.watch
    BY <1>5 DEF WatchCancel, CancelSignal, GraphRecord
  <2>2. Caused
    BY <1>5 DEF WatchCancel, CancelSignal, CauseInv, Caused
  <2>3. C
    BY <1>5 DEF WatchCancel, CancelSignal, CauseInv, RangeInv, HandlerTyped
  <2> QED
    BY <1>k, <1>q, <2>1, <2>2, <2>3 DEF CauseInv
<1>6. CASE CancelRequest
  <2>1. C
    BY <1>6, GraphAssumption DEF CancelRequest, RangeInv, HandlerTyped
  <2> QED
    BY <1>6, <1>g, <1>q, <2>1 DEF CancelRequest
<1>7. CASE UNCHANGED vars
  BY <1>7, <1>c, <1>g, <1>q DEF vars
<1> QED
  BY <1>1, <1>2, <1>3, <1>4, <1>5, <1>6, <1>7 DEF Elsewhere, WatchStep

\* Every step keeps the causes: by kind of step.
LEMMA CauseStep == RangeInv /\ OrderInv /\ CauseInv /\ [Next]_vars => CauseInv'
<1> SUFFICES ASSUME RangeInv, OrderInv, CauseInv, [Next]_vars PROVE CauseInv'
  OBVIOUS
<1>0. graph \in GraphRecord /\ NodesTyped
  BY DEF RangeInv, GraphTyped
<1>k. (Caused => Caused') /\ \A n : IsRoot(n) => StaysRoot(n)
  BY CauseStays
<1>f. \A m \in Nodes : Status(m) = "Failed" => nodes'[m].status = "Failed"
  BY FailedStays
<1>r. ASSUME StaysRoot(graph'.root), StaysRoot(graph'.cause)
      PROVE  IsRoot(graph.root)' /\ IsRoot(graph.cause)'
  BY <1>r DEF IsRoot, StaysRoot, Status
<1>n. StaysRoot(NoNode)
  BY DEF StaysRoot
<1>1. CASE Elsewhere
  BY <1>1, CauseElsewhere
<1>2. CASE SkipPending
  <2>1. /\ UNCHANGED <<runners, cx, bounds>>
        /\ \A m \in Nodes : SameNode(m) \/ Skips(m)
    BY <1>2, SkipFacts
  <2>2. /\ graph.pc = "skip" /\ graph'.pc \in {"skip", "final"}
        /\ graph'.watch = graph.watch /\ graph'.unresolved = graph.unresolved
        /\ graph'.root = graph.root /\ (graph'.cause = graph.cause \/ graph'.cause = NoNode)
    BY <1>0, <1>2 DEF SkipPending, NextSkip, GraphRecord
  <2>3. Caused'
    BY <1>k, <2>2 DEF CauseInv
  <2>4. SkipHasCause'
    BY <2>3 DEF SkipHasCause, Caused
  <2>5. ASSUME NEW n \in Nodes, nodes'[n].causedBy # NoNode
        PROVE  nodes'[n].causedBy # n /\ nodes'[nodes'[n].causedBy].status = "Failed"
    <3>1. CASE nodes'[n].causedBy = nodes[n].causedBy
      <4>1. nodes[n].causedBy # n /\ Status(nodes[n].causedBy) = "Failed"
        BY <2>5, <3>1 DEF CauseInv, CauseIsRoot
      <4>2. nodes[n].causedBy \in Nodes
        BY <1>0, <2>5, <3>1 DEF NodesTyped, GraphNode
      <4> QED
        BY <1>f, <3>1, <4>1, <4>2
    <3>2. CASE nodes'[n].causedBy = graph.cause /\ graph.cause \in Nodes \ {n}
      BY <1>k, <2>5, <3>2 DEF CauseInv, StaysRoot
    <3> QED
      BY <2>1, <3>1, <3>2 DEF SameNode, Skips
  <2>6. CauseIsRoot'
    BY <2>5 DEF CauseIsRoot, Status
  <2>7. IsRoot(graph.root)' /\ IsRoot(graph.cause)'
    BY <1>k, <1>n, <1>r, <2>2 DEF CauseInv
  <2> QED
    BY <1>f, <2>1, <2>2, <2>3, <2>4, <2>6, <2>7 DEF CauseInv, Status
<1>s. ASSUME \A n \in Nodes : nodes'[n].causedBy = nodes[n].causedBy PROVE CauseIsRoot'
  <2>1. \A n \in Nodes : nodes[n].causedBy \in Nodes \cup {NoNode}
    BY <1>0 DEF NodesTyped, GraphNode
  <2> QED
    BY <1>s, <1>f, <2>1 DEF CauseInv, CauseIsRoot, Status
<1>3. CASE CancelNextNode
  <2>1. /\ UNCHANGED <<runners, graph, bounds>>
        /\ \A m \in Nodes : SameNode(m) \/ Cancels(m)
    BY <1>3, CancelFacts
  <2>2. cx'.pc # "signal"
    BY <1>3 DEF CancelNextNode, RangeInv, HandlerTyped
  <2>3. SkipHasCause'
    <3>1. \A m \in Nodes : nodes'[m].status = "Skipped" => Status(m) = "Skipped"
      BY <2>1 DEF SameNode, Cancels, Status
    <3> QED
      BY <1>k, <3>1 DEF CauseInv, SkipHasCause, Caused, Status
  <2>4. CauseIsRoot'
    BY <1>s, <2>1 DEF SameNode, Cancels
  <2>5. IsRoot(graph.root)' /\ IsRoot(graph.cause)'
    BY <1>k, <1>r, <2>1 DEF CauseInv
  <2> QED
    BY <1>f, <1>k, <2>1, <2>2, <2>3, <2>4, <2>5 DEF CauseInv, Status
<1>4. CASE Crash \/ Recover
  <2>1. UNCHANGED nodes /\ (cx'.pc = "signal" => bounds'.cancels > 0)
    BY <1>4 DEF Crash, Recover, CauseInv
  <2>2. SkipHasCause'
    BY <1>k, <2>1 DEF CauseInv, SkipHasCause, Caused, Status
  <2>3. CauseIsRoot'
    BY <1>s, <2>1
  <2>4. /\ graph'.pc \in {"down", "start", "drive", "none"} /\ graph'.watch = "off"
        /\ graph'.pc = "start" => ~graph'.ctx
        /\ graph'.root = NoNode /\ graph'.cause = NoNode
    BY <1>4 DEF Crash, Recover, Goroutine
  <2>5. /\ graph'.pc = "down" => \A n \in Nodes : runners'[n] = "idle"
        /\ \A n \in Nodes : runners'[n] # "err"
    BY <1>4, <2>4 DEF Crash, Recover, Goroutine, CauseInv
  <2>6. IsRoot(graph.root)' /\ IsRoot(graph.cause)'
    BY <1>n, <1>r, <2>4
  <2> QED
    BY <2>1, <2>2, <2>3, <2>4, <2>5, <2>6 DEF CauseInv
<1>5. ASSUME NEW n \in Nodes, Release(n) \/ RunnerStep(n) PROVE CauseInv'
  <2>1. Frame(n) /\ Move(n)
    BY <1>5, RunnerMoves
  <2>2. /\ graph'.pc = graph.pc /\ graph'.watch = graph.watch /\ graph'.ctx = graph.ctx
        /\ graph'.root = graph.root /\ graph'.cause = graph.cause
        /\ graph.unresolved => graph'.unresolved
    BY <1>0, <2>1 DEF Frame, GraphRecord
  <2>3. runners[n] # "idle" \/ graph.pc = "wait"
    BY <2>1 DEF Move, Moves
  <2>4. runners'[n] = "err" => graph'.unresolved \/ nodes'[n].status = "Failed"
    BY <2>1 DEF Move, Moves, SameNode, Stores, Status
  <2>5. SkipHasCause'
    <3>1. nodes'[n].status = "Skipped" => Status(n) = "Skipped"
      BY <2>1 DEF Move, Moves, SameNode, Stores, Status
    <3>2. \A m \in Nodes : nodes'[m].status = "Skipped" => Status(m) = "Skipped"
      BY <2>1, <3>1 DEF Frame, Status
    <3> QED
      BY <1>k, <3>2 DEF CauseInv, SkipHasCause, Caused, Status
  <2>6. CauseIsRoot'
    <3>1. nodes'[n].causedBy = nodes[n].causedBy
      BY <2>1 DEF Move, Moves, SameNode, Stores
    <3> QED
      BY <1>s, <2>1, <3>1 DEF Frame
  <2>7. IsRoot(graph.root)' /\ IsRoot(graph.cause)'
    BY <1>k, <1>r, <2>2 DEF CauseInv
  <2>8. graph.pc # "down"
    BY <2>3 DEF CauseInv
  <2>9. \A m \in Nodes : runners'[m] = "err" => graph'.unresolved \/ nodes'[m].status = "Failed"
    BY <2>1, <2>2, <2>4 DEF Frame, CauseInv, Status
  <2>10. cx' = cx /\ bounds' = bounds
    BY <2>1 DEF Frame
  <2> QED
    BY <1>k, <2>2, <2>5, <2>6, <2>7, <2>8, <2>9, <2>10 DEF CauseInv, Status
<1> QED
  BY <1>1, <1>2, <1>3, <1>4, <1>5, StepKinds

-----------------------------------------------------------------------------
(* The outcome of the run                                                  *)

Settled == \A n \in Nodes : Status(n) \in {"Succeeded", "Skipped"}
AllOk == \A n \in Nodes : runners[n] = "ok"

\* Between the end of a successful graph and the write of the run no node can
\* change any more, because every runner has returned and Cancel only closes
\* nodes that are not yet running; a Succeeded run is never executed again.
SettledInv ==
  /\ graph.pc \in {"start", "graph", "wait", "skip"} => ~graph.ok
  /\ graph.pc \in {"final", "list", "write", "handoff"} /\ graph.ok => AllOk
  /\ graph.pc \in {"write", "handoff"} /\ graph.outcome = "Succeeded"
       => graph.ok /\ Settled
  /\ run = "Succeeded" =>
       /\ Settled /\ graph.pc \in {"handoff", "none", "down"}
       /\ \A n \in Nodes : runners[n] \in {"ok", "idle"}

\* Every step keeps what is settled: by kind of step.
LEMMA SettledStep == RangeInv /\ OrderInv /\ CauseInv /\ SettledInv /\ [Next]_vars => SettledInv'
<1> SUFFICES ASSUME RangeInv, OrderInv, CauseInv, SettledInv, [Next]_vars PROVE SettledInv'
  OBVIOUS
<1>0. graph \in GraphRecord /\ NodesTyped
  BY DEF RangeInv, GraphTyped
<1> DEFINE Here == /\ graph'.pc \in {"start", "graph", "wait", "skip"} => ~graph'.ok
                   /\ graph'.pc \in {"final", "list", "write", "handoff"} /\ graph'.ok => AllOk'
                   /\ graph'.pc \in {"write", "handoff"} /\ graph'.outcome = "Succeeded"
                        => graph'.ok /\ Settled'
           Run == run' = "Succeeded" =>
                   /\ Settled' /\ graph'.pc \in {"handoff", "none", "down"}
                   /\ \A n \in Nodes : runners'[n] \in {"ok", "idle"}
<1>q. ASSUME Here, Run PROVE SettledInv'
  BY <1>q DEF SettledInv
<1>1. CASE Elsewhere
  <2>0. UNCHANGED <<nodes, runners>>
    BY <1>1, ElsewhereFacts
  <2>1. (Settled <=> Settled') /\ (AllOk <=> AllOk')
    BY <2>0 DEF Settled, AllOk, Status
  <2>2. CASE BeginRun \/ SetRunRunning \/ GraphNotStarted \/ GraphFails
    <3>1. /\ graph.pc \in {"start", "graph", "wait"} /\ (run' = "Succeeded" => run = "Succeeded")
      BY <2>2 DEF BeginRun, SetRunRunning, GraphNotStarted, GraphFails
    <3>2. graph'.pc \in {"graph", "wait", "final", "skip", "none"} /\ ~graph'.ok
      BY <1>0, <2>2, <3>1
      DEF BeginRun, SetRunRunning, GraphNotStarted, GraphFails, ToSkipLoop, Ended,
          Goroutine, GraphRecord, SettledInv
    <3>3. run' # "Succeeded"
      BY <3>1 DEF SettledInv
    <3> QED
      BY <1>q, <3>2, <3>3
  <2>3. CASE GraphSucceeds
    <3>1. AllOk /\ graph'.pc = "final" /\ run' = run /\ graph.pc = "wait"
      BY <1>0, <2>3 DEF GraphSucceeds, AllOk, GraphRecord
    <3>2. run' # "Succeeded"
      BY <3>1 DEF SettledInv
    <3> QED
      BY <1>q, <2>1, <3>1, <3>2
  <2>4. CASE FinalizeGetRun
    <3>1. graph'.pc = "list" /\ run' = run /\ graph.pc = "final" /\ graph'.ok = graph.ok
      BY <1>0, <2>4 DEF FinalizeGetRun, GraphRecord
    <3> QED
      BY <1>q, <2>1, <3>1 DEF SettledInv
  <2>5. CASE FinalizeListNodes
    <3>1. /\ graph'.pc = "write" /\ run' = run /\ graph.pc = "list" /\ graph'.ok = graph.ok
          /\ graph'.outcome = RunOutcome
      BY <1>0, <2>5 DEF FinalizeListNodes, GraphRecord
    <3>2. RunOutcome = "Succeeded" => graph.ok /\ FromNodes = "Succeeded"
      BY DEF RunOutcome
    <3>3. FromNodes = "Succeeded"
            => \A n \in Nodes : Status(n) # "Failed" /\ Status(n) # "Canceled"
      BY DEF FromNodes
    <3>4. graph.ok => AllOk
      BY <3>1 DEF SettledInv
    <3>5. RunOutcome = "Succeeded" => graph.ok /\ Settled
      BY <3>2, <3>3, <3>4 DEF AllOk, Settled, OrderInv, EndedUnfailed
    <3> QED
      BY <1>q, <2>1, <3>1, <3>4, <3>5 DEF SettledInv
  <2>6. CASE FinalizeWrite
    <3>1. /\ graph'.pc = "handoff" /\ run' = graph.outcome /\ graph.pc = "write"
          /\ graph'.ok = graph.ok /\ graph'.outcome = graph.outcome
      BY <1>0, <2>6 DEF FinalizeWrite, GraphRecord
    <3>2. graph.outcome = "Succeeded" => AllOk
      BY <3>1 DEF SettledInv
    <3>3. Run
      BY <2>0, <2>1, <3>1, <3>2 DEF SettledInv, AllOk
    <3> QED
      BY <1>q, <2>1, <3>1, <3>3 DEF SettledInv
  <2>7. CASE HandoffFinalize \/ DriveEnds
    <3>1. graph'.pc = "none" /\ (run' = "Succeeded" => run = "Succeeded")
      BY <2>7 DEF HandoffFinalize, DriveEnds, Ended, Goroutine
    <3>2. Run
      BY <2>0, <2>1, <3>1 DEF SettledInv
    <3> QED
      BY <1>q, <3>1, <3>2
  <2>8. CASE WatchStep \/ CancelRequest \/ CancelSignal \/ UNCHANGED vars
    <3>1. /\ graph'.pc = graph.pc /\ graph'.ok = graph.ok /\ graph'.outcome = graph.outcome
          /\ (run' = "Succeeded" => run = "Succeeded")
      BY <1>0, <2>8 DEF WatchStep, WatchFailed, WatchCancel, CancelRequest, CancelSignal,
                        vars, GraphRecord
    <3> QED
      BY <1>q, <2>0, <2>1, <3>1 DEF SettledInv
  <2> QED
    BY <1>1, <2>2, <2>3, <2>4, <2>5, <2>6, <2>7, <2>8 DEF Elsewhere
<1>2. CASE SkipPending \/ CancelNextNode
  <2>1. UNCHANGED <<run, runners>>
    BY <1>2, SkipFacts, CancelFacts
  <2>2. /\ graph'.ok = graph.ok /\ graph'.outcome = graph.outcome
        /\ graph'.pc = graph.pc \/ (graph.pc = "skip" /\ graph'.pc \in {"skip", "final"})
    BY <1>0, <1>2, CancelFacts DEF SkipPending, NextSkip, GraphRecord
  <2>3. Settled => Settled'
    <3>1. Settled => \A m \in Nodes : SameNode(m)
      BY <1>2, SkipFacts, CancelFacts DEF Settled, Skips, Cancels
    <3> QED
      BY <3>1 DEF Settled, SameNode, Status
  <2>4. AllOk => AllOk'
    BY <2>1 DEF AllOk
  <2> QED
    BY <1>q, <2>1, <2>2, <2>3, <2>4 DEF SettledInv
<1>3. CASE Crash \/ Recover
  <2>1. UNCHANGED <<run, nodes>>
    BY <1>3, CrashFacts
  <2>2. /\ graph'.pc \in {"down", "start", "drive", "none"} /\ ~graph'.ok
    BY <1>3 DEF Crash, Recover, Goroutine
  <2>3. CASE run = "Succeeded"
    <3>1. Settled /\ \A n \in Nodes : runners[n] \in {"ok", "idle"}
      BY <2>3 DEF SettledInv
    <3>2. Settled'
      BY <2>1, <3>1 DEF Settled, Status
    <3>3. CASE Crash
      BY <1>q, <2>2, <3>2, <3>3 DEF Crash, Goroutine
    <3>4. CASE Recover
      <4>1. RunTerminal(run) /\ \A n \in Nodes : NodeTerminal(Status(n))
        BY <2>3, <3>1 DEF Settled, RunTerminal, NodeTerminal
      <4>2. graph' = Goroutine("none") /\ UNCHANGED runners
        BY <3>4, <4>1 DEF Recover
      <4> QED
        BY <1>q, <2>2, <3>1, <3>2, <4>2 DEF Goroutine
    <3> QED
      BY <1>3, <3>3, <3>4
  <2>4. CASE run # "Succeeded"
    BY <1>q, <2>1, <2>2, <2>4
  <2> QED
    BY <2>3, <2>4
<1>4. ASSUME NEW n \in Nodes, Release(n) \/ RunnerStep(n) PROVE SettledInv'
  <2>1. Frame(n) /\ Move(n)
    BY <1>4, RunnerMoves
  <2>2. /\ graph'.pc = graph.pc /\ graph'.ok = graph.ok /\ graph'.outcome = graph.outcome
        /\ run' = run
    BY <1>0, <2>1 DEF Frame, GraphRecord
  <2>3. runners[n] # "ok" /\ (runners[n] = "idle" => graph.pc = "wait")
    BY <2>1 DEF Move, Moves
  <2>4. ~AllOk /\ run # "Succeeded"
    BY <2>3 DEF AllOk, SettledInv
  <2> QED
    BY <1>q, <2>2, <2>4 DEF SettledInv
<1> QED
  BY <1>1, <1>2, <1>3, <1>4, StepKinds

-----------------------------------------------------------------------------
(* The theorems                                                            *)

RunInv == RangeInv /\ OrderInv /\ CauseInv /\ SettledInv

\* The invariant holds when Admit has started the run.
LEMMA RunInit == Init => RunInv
<1> SUFFICES ASSUME Init PROVE RunInv
  OBVIOUS
<1>1. GraphTyped
  BY GoroutineTyped DEF Init, GraphTyped
<1>2. NodesTyped
  BY CeilingAssumption DEF Init, NodesTyped, GraphNode, RunnerPCs, Status
<1>3. HandlerTyped
  BY GraphAssumption DEF Init, HandlerTyped, RunStatuses, Nodes
<1>4. OrderInv
  BY DEF Init, OrderInv, Status
<1>5. CauseInv
  BY DEF Init, CauseInv, Goroutine, IsRoot, SkipHasCause, CauseIsRoot, Status
<1>6. SettledInv
  BY DEF Init, SettledInv, Goroutine
<1> QED
  BY <1>1, <1>2, <1>3, <1>4, <1>5, <1>6 DEF RunInv, RangeInv

\* Every step keeps the invariant.
LEMMA RunInvStep == RunInv /\ [Next]_vars => RunInv'
BY GraphTypedStep, NodesTypedStep, HandlerTypedStep, OrderStep, CauseStep, SettledStep
DEF RunInv, RangeInv

\* So it holds throughout.
LEMMA RunInvHolds == Spec => []RunInv
BY RunInit, RunInvStep, PTL DEF Spec

\* The records of the run, its nodes and its goroutines keep their types; above
\* all, no sequence of crashes and resets takes a node past its ceiling.
THEOREM GraphTypeCorrect == Spec => []TypeOK
<1>1. RunInv => TypeOK
  BY DEF RunInv, RangeInv, GraphTyped, NodesTyped, HandlerTyped, TypeOK
<1> QED
  BY <1>1, RunInvHolds, PTL

\* On every graph, whatever crashes and cancellations come in between, a node is
\* submitted only below parents that ended without failing (dag-go's release
\* together with what RunE returns), and they stay so.
THEOREM DependenciesHold == Spec => []ParentsEnded
<1>1. RunInv => ParentsEnded
  BY DEF RunInv, OrderInv, ParentsEnded
<1> QED
  BY <1>1, RunInvHolds, PTL

\* runGraph skips nodes only when one failed or somebody asked for a
\* cancellation, never on account of an unresolved node.
THEOREM SkipsHaveCause == Spec => []SkipHasCause
<1>1. RunInv => SkipHasCause
  BY DEF RunInv, CauseInv
<1> QED
  BY <1>1, RunInvHolds, PTL

\* The root a skipped node names (CausedByNodeID) is another node that failed and
\* whose failure no later write takes back.
THEOREM CausesAreRoots == Spec => []CauseIsRoot
<1>1. RunInv => CauseIsRoot
  BY DEF RunInv, CauseInv
<1> QED
  BY <1>1, RunInvHolds, PTL

\* finalizeRun reads the nodes and writes the run in two steps; all the same a run
\* stored as Succeeded has only Succeeded and Skipped nodes.
THEOREM SucceededRunsAreSettled == Spec => []SucceededIsSettled
<1>1. RunInv => SucceededIsSettled
  BY DEF RunInv, SettledInv, Settled, SucceededIsSettled
<1> QED
  BY <1>1, RunInvHolds, PTL
=============================================================================
