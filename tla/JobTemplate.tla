---------------------------- MODULE JobTemplate ----------------------------
(***************************************************************************)
(* From a node of a run specification to the Kubernetes Job of one of its  *)
(* attempts, as pure operators: the defaults (pkg/spec/validate.go), the   *)
(* environment of the resolved inputs (pkg/executor/executor.go), the      *)
(* attempt request and the node contract (pkg/backend/spawner_k8s.go), and *)
(* the checks and the Job of pkg/spawner/k8s_jobclient.go.                 *)
(*                                                                         *)
(* Only the fields that some code inspects are kept.  A placement is a     *)
(* required node name, the hostname entry of the node selector and the     *)
(* preferred nodes, "" and {} being absent; nil is whether the node has no *)
(* Placement at all.  A resolved input carries, besides its paths, the     *)
(* PlacementIntent of AH's answer: its mode (hint) and its node (host).    *)
(***************************************************************************)
EXTENDS Integers, Sequences

NoPlacement == [nil |-> TRUE, required |-> "", selector |-> "", preferred |-> {}]

\* ApplyDefaults, for the fields that matter later: a node's own value wins.
ApplyDefaults(n, defaults) ==
  [n EXCEPT
    !.timeout     = IF @ = 0 THEN defaults.timeout ELSE @,
    !.maxAttempts = IF @ = 0 THEN defaults.maxAttempts ELSE @,
    !.placement   = IF @.nil THEN defaults.placement ELSE @]

-----------------------------------------------------------------------------
(* The execution node: the copy an attempt works on                        *)

CloneNodeWhole(n) == n               \* mutant: all of Placement is copied
\* cloneNode makes a new PlacementHints and copies NodeSelector into it, and
\* nothing else: the required name and the preferred nodes are gone.
CloneNode(n) ==
  [n EXCEPT !.placement =
     [nil |-> @.nil, required |-> "", selector |-> @.selector, preferred |-> {}]]

\* The hosts that answers with a mode name (recordLocalityHint: none for "").
Hinted(inputs, mode) ==
  {inputs[k].host : k \in {j \in DOMAIN inputs : inputs[j].hint = mode}} \ {""}

\* applyPlacementHints: when it refuses, and what it makes of a placement.
PlacementConflicts(p, inputs) ==
  LET required  == Hinted(inputs, "required_node")
      preferred == Hinted(inputs, "preferred_node")
  IN  \/ \E g, h \in required : g # h
      \/ required # {} /\ (p.preferred # {} \/ p.selector \notin required \cup {""})
      \/ required = {} /\ preferred # {} /\ p.required # ""
ApplyPlacementHints(p, inputs) ==
  LET required  == Hinted(inputs, "required_node")
      preferred == Hinted(inputs, "preferred_node")
      node      == CHOOSE h \in required : TRUE
  IN  IF required # {}
      THEN [nil |-> FALSE, required |-> node, selector |-> node, preferred |-> p.preferred]
      ELSE IF preferred # {}
      THEN [nil |-> FALSE, required |-> p.required, selector |-> p.selector,
            preferred |-> preferred]
      ELSE p

-----------------------------------------------------------------------------
(* The environment of the inputs.  A variable is JUMI_INPUT_<base><suffix>.*)
(* A base ending in _NODE with the suffix _LOCAL_PATH spells the same      *)
(* variable as the base without it with the suffix _NODE_LOCAL_PATH: Key   *)
(* gives every variable one spelling, the one the contract is read with.   *)

Suffixes == {"MODE", "URI", "LOCAL_PATH", "NODE_LOCAL_PATH"}
Key(base, suffix) ==
  IF base.node /\ suffix = "LOCAL_PATH"
  THEN <<[base EXCEPT !.node = FALSE], "NODE_LOCAL_PATH">>
  ELSE <<base, suffix>>

\* injectResolvedBindingEnv: the suffixes that are written for an input.
Written(input) ==
  {"MODE", "URI"} \cup (IF input.local THEN {"LOCAL_PATH"} ELSE {})
                  \cup (IF input.nodeLocal THEN {"NODE_LOCAL_PATH"} ELSE {})
InputEnv(input) ==
  [k \in {Key(input.base, s) : s \in Written(input)} |->
     [of   |-> input.base,
      what |-> CHOOSE s \in Written(input) : Key(input.base, s) = k,
      mode |-> input.mode]]

\* One binding after the other: a later one overwrites an earlier one.
EnvOf(inputs) ==
  LET env[i \in 0 .. Len(inputs)] ==
        IF i = 0 THEN <<>>
        ELSE LET new == InputEnv(inputs[i])
             IN  [k \in DOMAIN env[i - 1] \cup DOMAIN new |->
                    IF k \in DOMAIN new THEN new[k] ELSE env[i - 1][k]]
  IN  env[Len(inputs)]

\* validateResolvedBindingEnvKeys compares the bases alone.
EnvKeysCollide(inputs) ==
  \E i, j \in DOMAIN inputs : i # j /\ inputs[i].base = inputs[j].base

-----------------------------------------------------------------------------
(* The node contract                                                       *)

NoBase == [name |-> "", node |-> FALSE]
Absent == [of |-> NoBase, what |-> "none", mode |-> "none"]
Read(env, base, suffix) ==
  IF <<base, suffix>> \in DOMAIN env THEN env[<<base, suffix>>] ELSE Absent

ContractInputsUnfiltered(env) ==     \* mutant: an entry without a mode is kept
  {[name  |-> b, mode |-> Read(env, b, "MODE").mode, uri |-> Read(env, b, "URI"),
    local |-> Read(env, b, "LOCAL_PATH"),
    nodeLocal |-> Read(env, b, "NODE_LOCAL_PATH")] : b \in {k[1] : k \in DOMAIN env}}

\* buildNodeContractInputs: the bases found in the environment, without those
\* that have no mode, or the mode "none".
ContractInputs(env) ==
  {c \in {[name  |-> b,
           mode  |-> Read(env, b, "MODE").mode,
           uri   |-> Read(env, b, "URI"),
           local |-> Read(env, b, "LOCAL_PATH"),
           nodeLocal |-> Read(env, b, "NODE_LOCAL_PATH")]
          : b \in {k[1] : k \in DOMAIN env}} :
     c.mode # "none"}

\* n.outputs is "none", "named", or "blank": a list of empty names only.
\* manifestExportMode: the runtime helper wraps the command of a node whose
\* list of outputs is not empty and that asks for it, if it has a command
\* (wrapCommandForManifestExport).
UsesHelper(n) == n.outputs # "none" /\ n.helper
Wrapped(n) == UsesHelper(n) /\ n.command

\* injectOutputContractEnv: only a node with a named output has a contract, one
\* set by the submitter is kept (setEnvDefault), and with the runtime helper
\* the input variables are taken out of the environment.
HasContract(n) == n.outputs = "named"
Contract(n, env) ==
  IF ~HasContract(n) \/ n.ownContract THEN {} ELSE ContractInputs(env)
ContainerEnvStripped(n, env) ==      \* mutant: stripped with or without a contract
  IF UsesHelper(n) THEN <<>> ELSE env
ContainerEnv(n, env) == IF HasContract(n) /\ UsesHelper(n) THEN <<>> ELSE env

-----------------------------------------------------------------------------
(* The Job                                                                 *)

\* toAttemptRequest keeps the queue and the labels with the user prefix.
RequestLabels(n) ==
  (IF n.queue = "none" THEN {} ELSE {<<"queue", n.queue>>})
    \cup (IF n.label \in {"none", "foreign"} THEN {} ELSE {<<"user", n.label>>})

BlankId == "blank"                   \* an identifier of white space only

\* toAttemptRequest of an execution node n that has the placement p by now.
AttemptRequest(runId, n, p) ==
  LET env == EnvOf(n.inputs)
  IN  [runId |-> runId, nodeId |-> n.id, labels |-> RequestLabels(n), placement |-> p,
       grace |-> n.grace, contract |-> Contract(n, env),
       env |-> ContainerEnv(n, env), wrapped |-> Wrapped(n),
       contracted |-> HasContract(n) \/ n.ownContract]

ClashingPlacement(p) ==
  p.required # "" /\ p.selector # "" /\ p.selector # p.required

\* validateK8sJobCreateRequest: the identifiers without their white space, the
\* placement, then the value of every label.  The attempt's identifier is
\* generated, and identityLabelValue makes a valid label of any identifier.
RequestRefused(req) ==
  \/ req.runId = BlankId \/ req.nodeId = BlankId
  \/ ClashingPlacement(req.placement)
  \/ \E l \in req.labels : l[2] = "bad"

\* buildK8sNodeSelector: the required name replaces the selector's entry.
NodeSelector(p) == IF p.required # "" THEN p.required ELSE p.selector

\* podTerminationGracePeriodSeconds: the helper's grace period in
\* milliseconds, rounded up to seconds, plus a margin; the default for one
\* that is not positive or (here -1) does not parse.
Margin == 5
DefaultPodGrace == 30
PodGraceTruncated(ms) ==                  \* mutant: the fraction is cut off
  IF ms <= 0 THEN DefaultPodGrace ELSE ms \div 1000 + Margin
PodGrace(ms) ==
  IF ms <= 0 THEN DefaultPodGrace
  ELSE ms \div 1000 + (IF ms % 1000 # 0 THEN 1 ELSE 0) + Margin

\* buildK8sJob: a Job in a queue starts suspended, and Kueue resumes it.
K8sJob(req) ==
  [suspend |-> \E l \in req.labels : l[1] = "queue",
   host |-> NodeSelector(req.placement),
   preferred |-> req.placement.preferred,
   podGrace |-> PodGrace(req.grace),
   contract |-> req.contract, env |-> req.env, wrapped |-> req.wrapped,
   contracted |-> req.contracted]
=============================================================================
