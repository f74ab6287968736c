---------------------------- MODULE MCSpecToJob ----------------------------
(* Specifications for SpecToJob: every graph on four plain nodes, and one- *)
(* and two-node specifications whose fields vary.                          *)
EXTENDS SpecToJob

FourIds == {"a", "b", "c", "d"}
MCIds   == FourIds \cup {BlankId}

Plain(id) ==
  [id |-> id, image |-> TRUE, maxAttempts |-> 0, timeout |-> 0,
   placement |-> NoPlacement, queue |-> "none", label |-> "none",
   bindingsNamed |-> TRUE, inputs |-> <<>>, outputs |-> "none",
   helper |-> FALSE, command |-> TRUE, ownContract |-> FALSE, grace |-> 25000]

NoDefaults == [timeout |-> 0, maxAttempts |-> 0, placement |-> NoPlacement]

Of(nodes, edges, defaults) ==
  [runId |-> "r", nodes |-> nodes, edges |-> edges, defaults |-> defaults]
Alone(node, defaults) == Of(<<node>>, {}, defaults)

\* All graphs on four nodes, all on two with their self-loops, and malformed
\* specifications, some with an edge to an identifier that no node has.
Graphs ==
  {Of(<<Plain("a"), Plain("b"), Plain("c"), Plain("d")>>, E, NoDefaults)
     : E \in SUBSET {e \in FourIds \X FourIds : e[1] # e[2]}}
  \cup {Of(<<Plain("a"), Plain("b")>>, E, NoDefaults)
          : E \in SUBSET ({"a", "b"} \X {"a", "b"})}
Malformed ==
  {Of(<<Plain("a"), Plain("b")>>, {<<"a", "c">>}, NoDefaults),
   Of(<<Plain("a"), Plain("b")>>, {<<"c", "a">>}, NoDefaults),
   Of(<<Plain("a"), Plain("b")>>, {<<"a", "b", "a">>}, NoDefaults),
   Of(<<Plain("a"), Plain("a")>>, {}, NoDefaults),
   Of(<<>>, {}, NoDefaults),
   Of(<<Plain(NoId)>>, {}, NoDefaults),
   [Alone(Plain("a"), NoDefaults) EXCEPT !.runId = NoId]}

\* Identifiers of white space, which are not empty.
Blank ==
  {Of(<<Plain("a"), Plain(BlankId)>>, {<<"a", BlankId>>}, NoDefaults),
   [Alone(Plain("a"), NoDefaults) EXCEPT !.runId = BlankId]}

Placements ==
  {NoPlacement} \cup
  [nil : {FALSE}, required : {"", "h1"}, selector : {"", "h1", "h2"},
   preferred : {{}, {"h2"}}]
Placed ==
  {Alone([Plain("a") EXCEPT !.placement = p],
         [NoDefaults EXCEPT !.placement = d])
     : p \in Placements, d \in Placements}

Policies ==
  {Alone([Plain("a") EXCEPT !.maxAttempts = m, !.timeout = t, !.image = g,
                            !.bindingsNamed = b],
         [NoDefaults EXCEPT !.maxAttempts = -1, !.timeout = d])
     : m \in {-1, 0, 2}, t \in {-1, 0, 60}, d \in {-1, 0, 60},
       g \in BOOLEAN, b \in BOOLEAN}

Labelled ==
  {Alone([Plain("a") EXCEPT !.queue = q, !.label = l, !.grace = g], NoDefaults)
     : q \in {"none", "good", "bad"}, l \in {"none", "good", "bad", "foreign"},
       g \in {-1, 0, 500, 1000, 1500, 25000}}

X     == [name |-> "X", node |-> FALSE]
XNode == [name |-> "X", node |-> TRUE]
Y     == [name |-> "Y", node |-> FALSE]
Inputs(base) ==
  [base : {base}, mode : {"none", "fetch"}, local : BOOLEAN, nodeLocal : BOOLEAN,
   hint : {""}, host : {""}]
Node(inputs, outputs, helper, own, command) ==
  [Plain("a") EXCEPT !.inputs = inputs, !.outputs = outputs, !.helper = helper,
                     !.ownContract = own, !.command = command]

\* Two inputs, the second one of another name, of the same name, or of a name
\* whose variables overlap with those of the first, in either order.
WithInputs ==
  UNION {{Alone(Node(<<i, j>>, "named", TRUE, FALSE, TRUE), NoDefaults)
            : i \in Inputs(b[1]), j \in Inputs(b[2])}
         : b \in {<<X, Y>>, <<X, X>>, <<X, XNode>>, <<XNode, X>>}}

\* Every way to export the manifest.
Exported ==
  {Alone(Node(<<i>>, o, h, w, c), NoDefaults)
     : i \in Inputs(X) \cup Inputs(XNode), o \in {"none", "blank", "named"},
       h \in BOOLEAN, w \in BOOLEAN, c \in BOOLEAN}

\* Two answers with placement hints, under the placements with a selector or
\* without, of the node or by default.
Hints(base) ==
  {[base |-> base, mode |-> "fetch", local |-> FALSE, nodeLocal |-> FALSE,
    hint |-> m, host |-> h] : m \in {"", "preferred_node", "required_node"}, h \in {"h1", "h2"}}
Hints2 == {<<i, j>> : i \in Hints(X), j \in Hints(Y)}
HintedNodes ==
  {Alone([Node(i, "none", FALSE, FALSE, TRUE) EXCEPT !.placement = p],
         [NoDefaults EXCEPT !.placement = [NoPlacement EXCEPT !.nil = FALSE, !.selector = d]])
     : i \in Hints2, p \in Placements, d \in {"", "h1"}}

MCPlaced == Placed \cup HintedNodes

MCSpecs == Graphs \cup Malformed \cup Blank \cup MCPlaced \cup Policies
             \cup Labelled \cup WithInputs \cup Exported
=============================================================================
