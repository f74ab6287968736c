----------------------------- MODULE SpecToJob -----------------------------
(***************************************************************************)
(* A submitted run specification on its way to Jobs: SubmitRun validates   *)
(* it and stores it as it is (pkg/api/service.go); runGraph applies the    *)
(* defaults to its own copy; each node's runner clones the node, adds the  *)
(* environment and the placement hints of its inputs and asks the backend  *)
(* for a Job, which is checked once more before it is created.  The last   *)
(* check comes after the submission fence: a request it refuses leaves the *)
(* attempt unresolved for good.                                            *)
(***************************************************************************)
EXTENDS SpecValidation, JobTemplate

\* A base is what sanitizeEnvSegment makes of a name, and never empty.
Bases == [name : STRING \ {""}, node : BOOLEAN]
Bindings == [base : Bases, mode : STRING, local : BOOLEAN, nodeLocal : BOOLEAN,
             hint : {"", "preferred_node", "required_node"}, host : STRING]

\* A decoded node has every field.
IsNode(n) ==
  /\ DOMAIN n = {"id", "image", "maxAttempts", "timeout", "placement", "queue",
                 "label", "bindingsNamed", "inputs", "outputs", "helper", "command",
                 "ownContract", "grace"}
  /\ n.inputs \in Seq(Bindings)
  /\ n.outputs \in {"none", "blank", "named"}
  /\ n.grace \in Int

ASSUME NodeAssumption == \A s \in Specs : \A i \in DOMAIN s.nodes : IsNode(s.nodes[i])

VARIABLE jobs      \* for each node: none, collision, conflict, refused or the Job

vars == <<specVars, jobs>>

Kind(j) == j.kind
NotYet == [kind |-> "none"]

Init ==
  /\ ValidationInit
  /\ jobs = [i \in DOMAIN spec.nodes |-> NotYet]

Validate == ValidationStep /\ UNCHANGED jobs

\* The node as its runner has it.
RunNode(i) == ApplyDefaults(spec.nodes[i], spec.defaults)

\* runAttemptBody from cloneNode to Create, all inputs being resolved: what
\* fails before the fence fails the node, what the client refuses comes after.
CreateJob(i) ==
  /\ verdict = "accepted" /\ jobs[i] = NotYet
  /\ LET n   == CloneNode(RunNode(i))
         req == AttemptRequest(spec.runId, n, ApplyPlacementHints(n.placement, n.inputs))
     IN  jobs' = [jobs EXCEPT ![i] =
                   IF EnvKeysCollide(n.inputs) THEN [kind |-> "collision"]
                   ELSE IF PlacementConflicts(n.placement, n.inputs)
                   THEN [kind |-> "conflict"]
                   ELSE IF RequestRefused(req) THEN [kind |-> "refused"]
                   ELSE [kind |-> "job", job |-> K8sJob(req)]]
  /\ UNCHANGED specVars

Next == Validate \/ \E i \in DOMAIN spec.nodes : CreateJob(i)

Spec == Init /\ [][Next]_vars

-----------------------------------------------------------------------------
(* Properties                                                              *)

Created(i) == Kind(jobs[i]) = "job"
JobOf(i) == jobs[i].job

\* What validation accepted, validateK8sJobCreateRequest refuses behind the fence
\* only for what validation does not look at, an identifier of white space or the
\* value of a label; whatever the spec, its defaults and the answers say about
\* placement, a contradiction is found before the fence or does not matter.
RefusalIsUnforeseen ==
  \A i \in DOMAIN jobs :
    Kind(jobs[i]) = "refused" =>
      \/ spec.runId = BlankId \/ spec.nodes[i].id = BlankId
      \/ spec.nodes[i].queue = "bad" \/ spec.nodes[i].label = "bad"

\* Names for which the variable of the local path has a second reading.
Ambiguous(input, inputs) ==
  \/ input.base.node
  \/ \E k \in DOMAIN inputs : inputs[k].base = [input.base EXCEPT !.node = TRUE]

\* The contract names every input that has to be materialized, and no other,
\* with that input's own location and paths; only a name ending in _NODE, or
\* one beside such a name, can have its paths mixed up.
ContractIsFaithful ==
  \A i \in DOMAIN jobs :
    Created(i) /\ HasContract(spec.nodes[i]) /\ ~spec.nodes[i].ownContract =>
      LET inputs == spec.nodes[i].inputs
          needed == {k \in DOMAIN inputs : inputs[k].mode # "none"}
      IN  /\ {c.name : c \in JobOf(i).contract} = {inputs[k].base : k \in needed}
          /\ \A k \in needed : \A c \in JobOf(i).contract :
               c.name = inputs[k].base =>
                 /\ c.mode = inputs[k].mode
                 /\ c.uri.of = c.name
                 /\ ~Ambiguous(inputs[k], inputs) =>
                      /\ c.local.of = c.name <=> inputs[k].local
                      /\ c.nodeLocal.of = c.name <=> inputs[k].nodeLocal

\* An input that has to be materialized is known to the container, from the
\* environment or from the contract that replaces it (injectOutputContractEnv);
\* only a contract of the submitter's own may leave it out.  And a command that
\* runs under the helper has a contract, unless all its output names are blank.
InputsReachNode ==
  \A i \in DOMAIN jobs :
    Created(i) =>
      LET n == spec.nodes[i]
      IN  /\ \A k \in DOMAIN n.inputs :
               \/ n.inputs[k].mode = "none" \/ n.ownContract
               \/ <<n.inputs[k].base, "URI">> \in DOMAIN JobOf(i).env
               \/ \E c \in JobOf(i).contract : c.name = n.inputs[k].base
          /\ JobOf(i).wrapped => JobOf(i).contracted \/ n.outputs = "blank"

\* The node's own placement before the default one.
PlacementOf(i) ==
  IF spec.nodes[i].placement.nil THEN spec.defaults.placement ELSE spec.nodes[i].placement

\* The Job's host is the one the node selector and every required_node answer name,
\* and it prefers the nodes of the preferred_node answers when none is required.
RunsWhereTold(i) ==
  LET inputs   == spec.nodes[i].inputs
      required == Hinted(inputs, "required_node")
  IN  /\ PlacementOf(i).selector # "" => JobOf(i).host = PlacementOf(i).selector
      /\ \A h \in required : JobOf(i).host = h
      /\ required = {} => Hinted(inputs, "preferred_node") \subseteq JobOf(i).preferred

\* The Pod's grace period exceeds the one the helper is given by the margin.
OutlivesHelper(i) == JobOf(i).podGrace * 1000 >= spec.nodes[i].grace + Margin * 1000

\* A Job runs where the selector of its placement and all answers about its inputs
\* say (applyPlacementHints), starts suspended exactly when it has a queue, and its
\* Pod outlives the helper's grace period (podTerminationGracePeriodSeconds).
JobHonoursNode ==
  \A i \in DOMAIN jobs :
    Created(i) =>
      /\ RunsWhereTold(i)
      /\ JobOf(i).suspend <=> spec.nodes[i].queue # "none"
      /\ OutlivesHelper(i)

\* docs/JUMI_K8S_JOB_LABEL_CONTRACT.md: a spec's requiredNodeName becomes the
\* hostname entry of the Job's node selector.  It is lost in cloneNode.
RequiredNameReachesJob ==
  \A i \in DOMAIN jobs :
    Created(i) /\ PlacementOf(i).required # "" => JobOf(i).host = PlacementOf(i).required
=============================================================================
