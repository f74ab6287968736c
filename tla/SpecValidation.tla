--------------------------- MODULE SpecValidation ---------------------------
(***************************************************************************)
(* ValidateExecutableRunSpec of pkg/spec/validate.go, as SubmitRun calls   *)
(* it on an ExecutableRunSpec: the checks of the fields, then the          *)
(* depth-first search for a cycle.  The search is modelled step by step:   *)
(* Go's iteration over the map of nodes starts anywhere, and the order of  *)
(* the edges is the submitter's, so every choice of the next node is taken.*)
(*                                                                         *)
(* Two variables are not in the code: rank numbers the nodes in the order  *)
(* in which their visit returned, clock is the last number given.          *)
(***************************************************************************)
EXTENDS Integers, Sequences, FiniteSets

CONSTANTS
  Ids,     \* node identifiers; an edge may name one that no node has
  Specs    \* the specifications submitted

VARIABLES
  spec,      \* the submitted specification
  verdict,   \* none, search, accepted, invalid or cyclic
  todo,      \* nodes the outer loop has not started yet
  seen,      \* the map seen
  path,      \* the nodes with stack[node] set, in the order of the calls
  left,      \* left[u]: the part of adj[u] that u's call has yet to go through
  rank, clock

searchVars == <<todo, seen, path, left, rank, clock>>
specVars   == <<spec, verdict, searchVars>>

NoId == "none"                                 \* the empty runId or nodeId
Range1(s) == {s[i] : i \in DOMAIN s}

-----------------------------------------------------------------------------
(* The fields                                                              *)

\* A node selector and a required node name that differ.  "" is absent.
Conflict(p) == p.required # "" /\ p.selector # "" /\ p.selector # p.required

ValidNode(n) ==
  /\ n.id # NoId
  /\ n.image
  /\ n.maxAttempts >= 0 /\ n.timeout >= 0
  /\ ~Conflict(n.placement)
  /\ n.label # "foreign"
  /\ n.bindingsNamed

\* The node is checked as submitted, not as the defaults will make it.
ValidNodes(s) ==
  /\ s.runId # NoId
  /\ s.nodes # <<>>
  /\ \A i \in DOMAIN s.nodes : ValidNode(s.nodes[i])
  /\ \A i, j \in DOMAIN s.nodes : i # j => s.nodes[i].id # s.nodes[j].id

NodeIds(s) == {s.nodes[i].id : i \in DOMAIN s.nodes}

ASSUME IdsAssumption == \A s \in Specs : NodeIds(s) \subseteq Ids \cup {NoId}

ValidEdges(s) ==
  \A e \in s.edges :
    /\ Len(e) = 2
    /\ e[1] # e[2]
    /\ e[1] \in NodeIds(s) /\ e[2] \in NodeIds(s)

Adj(u) == {v \in Ids : <<u, v>> \in spec.edges}

-----------------------------------------------------------------------------
TypeOK ==
  /\ verdict \in {"none", "search", "accepted", "invalid", "cyclic"}
  /\ todo \in SUBSET Ids /\ seen \in SUBSET Ids
  /\ path \in Seq(Ids)
  /\ left \in [Ids -> SUBSET Ids]
  /\ rank \in [Ids -> Nat] /\ clock \in Nat

ValidationInit ==
  /\ spec \in Specs
  /\ verdict = "none"
  /\ todo = {} /\ seen = {} /\ path = <<>>
  /\ left = [u \in Ids |-> {}]
  /\ rank = [u \in Ids |-> 0] /\ clock = 0

CheckFields ==
  /\ verdict = "none"
  /\ IF ValidNodes(spec) /\ ValidEdges(spec)
     THEN verdict' = "search" /\ todo' = NodeIds(spec)
     ELSE verdict' = "invalid" /\ UNCHANGED todo
  /\ UNCHANGED <<spec, seen, path, left, rank, clock>>

\* visit(u) of a node that is neither on the stack nor seen: both maps are set
\* and its loop begins.
Enter(u, newLeft) ==
  /\ seen' = seen \cup {u}
  /\ path' = Append(path, u)
  /\ left' = [newLeft EXCEPT ![u] = Adj(u)]

\* The outer loop takes any node it has not taken yet.
StartVisit(u) ==
  /\ verdict = "search" /\ path = <<>>
  /\ u \in todo
  /\ todo' = todo \ {u}
  /\ IF u \in seen THEN UNCHANGED <<seen, path, left>> ELSE Enter(u, left)
  /\ UNCHANGED <<spec, verdict, rank, clock>>

Top == path[Len(path)]
OnStack(u) == u \in Range1(path)

VisitNextSeen(v) ==                        \* mutant: every seen node is a cycle
  /\ verdict = "search" /\ path # <<>>
  /\ v \in left[Top]
  /\ LET rest == [left EXCEPT ![Top] = @ \ {v}]
     IN  IF v \in seen
         THEN verdict' = "cyclic" /\ left' = rest /\ UNCHANGED <<seen, path>>
         ELSE Enter(v, rest) /\ UNCHANGED verdict
  /\ UNCHANGED <<spec, todo, rank, clock>>

VisitNextUnseen(v) ==                  \* mutant: seen is asked before the stack
  /\ verdict = "search" /\ path # <<>>
  /\ v \in left[Top]
  /\ LET rest == [left EXCEPT ![Top] = @ \ {v}]
     IN  IF v \in seen THEN left' = rest /\ UNCHANGED <<seen, path>>
         ELSE Enter(v, rest)
  /\ UNCHANGED <<spec, verdict, todo, rank, clock>>

\* The loop of the innermost call takes the next successor: a cycle, nothing,
\* or a call.
VisitNext(v) ==
  /\ verdict = "search" /\ path # <<>>
  /\ v \in left[Top]
  /\ LET rest == [left EXCEPT ![Top] = @ \ {v}]
     IN  IF OnStack(v)
         THEN verdict' = "cyclic" /\ left' = rest /\ UNCHANGED <<seen, path>>
         ELSE IF v \in seen
         THEN left' = rest /\ UNCHANGED <<verdict, seen, path>>
         ELSE Enter(v, rest) /\ UNCHANGED verdict
  /\ UNCHANGED <<spec, todo, rank, clock>>

\* The innermost call returns: the node leaves the stack and stays seen.
Leave ==
  /\ verdict = "search" /\ path # <<>>
  /\ left[Top] = {}
  /\ path' = SubSeq(path, 1, Len(path) - 1)
  /\ clock' = clock + 1
  /\ rank' = [rank EXCEPT ![Top] = clock + 1]
  /\ UNCHANGED <<spec, verdict, todo, seen, left>>

Accept ==
  /\ verdict = "search" /\ path = <<>> /\ todo = {}
  /\ verdict' = "accepted"
  /\ UNCHANGED <<spec, searchVars>>

ValidationStep ==
  \/ CheckFields \/ Leave \/ Accept
  \/ \E u \in Ids : StartVisit(u) \/ VisitNext(u)

ValidationSpec == ValidationInit /\ [][ValidationStep]_specVars

-----------------------------------------------------------------------------
(* Properties                                                              *)

\* Whatever node the search starts from and whatever the order of the edges, a
\* graph that ValidateExecutableRunSpec accepts is one dag-go can run: the order
\* in which the visits returned, reversed, has every node before its dependents.
AcceptedHasOrder ==
  verdict = "accepted" => \A u \in NodeIds(spec) : \A v \in Adj(u) : rank[v] < rank[u]

\* "graph must be acyclic" is only said of a graph with a cycle: it lies on the
\* calls of visit that are open at that moment.
RefusedHasCycle ==
  verdict = "cyclic" =>
    \E i \in 1 .. Len(path) :
      /\ path[i] \in Adj(Top)
      /\ \A j \in i .. Len(path) - 1 : path[j + 1] \in Adj(path[j])
=============================================================================
