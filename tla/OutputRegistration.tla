------------------------- MODULE OutputRegistration -------------------------
(***************************************************************************)
(* What happens to the outputs of a node once its Job is running: the Pods *)
(* of the Job end and leave a manifest in their termination message, the   *)
(* executor picks a Pod (findJobPod), reads, parses and checks the manifest *)
(* (CollectOutputMetadata), registers every declared output with the       *)
(* artifact-handoff service (registerNodeOutputs), reports the node        *)
(* Succeeded and stores that.                                              *)
(*                                                                         *)
(* Any step may fail or be cut short by a crash.  A failed finalization is *)
(* deferred: the next process reattaches to the same Job and drives all of *)
(* it again, with the node of the specification instead of the one the Job *)
(* was started with.  The other ways an attempt ends are in NodeExecution. *)
(***************************************************************************)
EXTENDS Naturals, Sequences, FiniteSets

CONSTANTS
  Outputs,      \* node.Outputs: a sequence of names, "" among them
  Manifests,    \* the termination messages a main container may leave
  NoManifest,   \* the empty termination message
  MaxPods,      \* bound: Pods the Job creates (a preempted one is replaced)
  MaxRestarts,  \* bound: process crashes
  MaxFaults     \* bound: calls to Kubernetes, AH or the registry that fail

\* An id in a manifest: absent, this attempt's, or another one.
Ids == {"", "own", "other"}
\* provenance.ArtifactRecord.  loc is the first entry of Locations: "unnamed" has
\* a path but no node name, "empty" has no NodeLocal at all.
Artifacts ==
  [name : STRING, digest : STRING, uri : {"", "jumi", "store"},
   logical : {"", "jumi"}, loc : {"none", "empty", "unnamed", "named"}]
\* provenance.ArtifactManifest; json: whether the message is a JSON object.
IsManifest(m) ==
  /\ DOMAIN m = {"json", "schema", "runId", "nodeId", "attemptId", "artifacts"}
  /\ m.json \in BOOLEAN
  /\ m.schema \in {"", "known", "other"}
  /\ {m.runId, m.nodeId, m.attemptId} \subseteq Ids
  /\ m.artifacts \in Seq(Artifacts)

ASSUME OutputAssumption ==
  /\ Outputs \in Seq(STRING)
  /\ \A m \in Manifests : IsManifest(m)
  /\ NoManifest \notin Manifests
  /\ {MaxPods, MaxRestarts, MaxFaults} \subseteq Nat

Pods   == 1 .. MaxPods
NoPod  == 0
Names  == {Outputs[i] : i \in DOMAIN Outputs} \ {""}
Absent == [digest |-> ""]

VARIABLES
  pods,      \* external: each Pod of the Job, in the order List returns them
  clock,     \* external: the second the last container ended in
  job,       \* external: "active", "succeeded" or "gone" (removed by its TTL)
  runner,    \* volatile: the goroutine that waits for and finalizes the attempt
  attempt,   \* durable: AttemptRecord.Status and ProcessCompletedAt
  node,      \* durable: NodeRecord.Status
  registry,  \* external: what AH holds for each output of this attempt
  told,      \* external: whether AH was told that the node Succeeded
  bounds     \* crashes and failed calls so far

vars == <<pods, clock, job, runner, attempt, node, registry, told, bounds>>
cluster == <<pods, clock, job>>
service == <<registry, told>>

(***************************************************************************)
(* runner.pc is the next step: wait, collect, register, notify, complete   *)
(* (UpsertAttempt), succeed (UpdateNode), defer (PersistProcessCompleted), *)
(* ended, done or down.  fresh tells executionNode, whose Env carries the  *)
(* run, node and attempt ids, from r.node, which runFromHandle passes on.  *)
(* source and manifest are the Pod and manifest collected, next the index  *)
(* in node.Outputs.                                                        *)
(***************************************************************************)
Runner(pc, fresh) ==
  [pc |-> pc, fresh |-> fresh, source |-> NoPod, manifest |-> NoManifest,
   next |-> 1]

Init ==
  /\ pods = [p \in Pods |-> [main |-> "none", at |-> 0, message |-> NoManifest]]
  /\ clock = 0
  /\ job = "active"
  /\ runner = Runner("wait", TRUE)
  /\ attempt = [status |-> "Started", completed |-> FALSE]
  /\ node = "Running"
  /\ registry = [o \in Names |-> Absent]
  /\ told = FALSE
  /\ bounds = [restarts |-> 0, faults |-> 0]

Fault ==
  /\ bounds.faults < MaxFaults
  /\ bounds' = [bounds EXCEPT !.faults = @ + 1]

-----------------------------------------------------------------------------
(* The cluster *)

\* Kubernetes: the Job controller creates a Pod when none is active.  With
\* BackoffLimit 0 and RestartPolicy Never only a preempted Pod is replaced.
PodStarts(p) ==
  /\ job = "active"
  /\ pods[p].main = "none"
  /\ \A q \in Pods : pods[q].main \notin {"running", "succeeded"}
  /\ pods' = [pods EXCEPT ![p].main = "running"]
  /\ UNCHANGED <<clock, job, runner, attempt, node, registry, told, bounds>>

\* Kubernetes: the main container ends.  FinishedAt counts whole seconds, so two
\* Pods may end in the same one.
PodEnds(p) ==
  /\ pods[p].main = "running"
  /\ \E result \in {"succeeded", "preempted"}, t \in {clock, clock + 1},
        m \in Manifests \cup {NoManifest} :
       /\ pods' = [pods EXCEPT ![p] = [main |-> result, at |-> t, message |-> m]]
       /\ clock' = t
       /\ job' = IF result = "succeeded" THEN "succeeded" ELSE job
  /\ UNCHANGED <<runner, attempt, node, registry, told, bounds>>

\* Kubernetes: a Pod that ended is garbage-collected on its own.
PodRemoved(p) ==
  /\ pods[p].main \in {"succeeded", "preempted"}
  /\ pods' = [pods EXCEPT ![p].main = "gone"]
  /\ UNCHANGED <<clock, job, runner, attempt, node, registry, told, bounds>>

\* Kubernetes: TTLSecondsAfterFinished removes the Job and its Pods with it.
JobExpires ==
  /\ job = "succeeded"
  /\ job' = "gone"
  /\ pods' = [p \in Pods |-> [pods[p] EXCEPT !.main = "gone"]]
  /\ UNCHANGED <<clock, runner, attempt, node, registry, told, bounds>>

-----------------------------------------------------------------------------
(* Reading the manifest *)

Listed == {p \in Pods : pods[p].main \in {"running", "succeeded", "preempted"}}

mainContainerSucceeded(p)  == pods[p].main = "succeeded"
mainContainerTerminated(p) == pods[p].main \in {"succeeded", "preempted"}
podTerminatedLater(p, q)   == pods[p].at > pods[q].at

\* One pass over the list that keeps the first Pod no later one is after.
LatestOf(S) ==
  CHOOSE p \in S : \A q \in S : /\ ~ podTerminatedLater(q, p)
                                /\ q < p => podTerminatedLater(p, q)

\* Mutant: any Pod that terminated will do.
findJobPodAnyTermination == LatestOf({p \in Listed : mainContainerTerminated(p)})

\* The Pod whose manifest counts: the last that succeeded, else the last that
\* terminated, else the first.
findJobPod ==
  LET succeeded  == {p \in Listed : mainContainerSucceeded(p)}
      terminated == {p \in Listed : mainContainerTerminated(p)}
  IN  IF succeeded # {} THEN LatestOf(succeeded)
      ELSE IF terminated # {} THEN LatestOf(terminated)
      ELSE CHOOSE p \in Listed : \A q \in Listed : p <= q

\* The termination message of the main container.  LastTerminationState has none:
\* RestartPolicy Never never restarts the container.
readArtifactsManifestFromTerminationMessage(p) == pods[p].message

\* The exec of "cat" in the main container needs a running container, and a
\* running one has not left its manifest yet: it yields nothing.
readArtifactsManifest(p) == NoManifest

Observed(p) ==
  LET raw == readArtifactsManifestFromTerminationMessage(p)
  IN  IF raw = NoManifest THEN readArtifactsManifest(p) ELSE raw

\* JSON that decodes, every artifact named, no name twice.
ParseArtifactManifest(m) ==
  /\ m.json
  /\ \A i \in DOMAIN m.artifacts :
       /\ m.artifacts[i].name # ""
       /\ \A j \in DOMAIN m.artifacts :
            m.artifacts[i].name = m.artifacts[j].name => i = j

\* Mutant: ids that the node's Env has not are compared as empty ones.
ValidateMissingIds(m, fresh) ==
  LET expected == IF fresh THEN "own" ELSE ""
  IN  /\ m.schema # "other"
      /\ m.runId = expected /\ m.nodeId = expected /\ m.attemptId = expected

\* Mutant: the ids are not compared.
ValidateSchemaOnly(m, fresh) == m.schema # "other"

\* The schema is supported, and the ids are the expected ones where the node's
\* Env has them: executionNode's has (injectRuntimeContextEnv), r.node's has not.
validateObservedManifest(m, fresh) ==
  /\ m.schema # "other"
  /\ fresh => m.runId = "own" /\ m.nodeId = "own" /\ m.attemptId = "own"

HasArtifact(m, o) == \E i \in DOMAIN m.artifacts : m.artifacts[i].name = o

\* The first artifact of that name.
ByOutputName(m, o) ==
  LET i == CHOOSE i \in DOMAIN m.artifacts :
             /\ m.artifacts[i].name = o
             /\ \A j \in DOMAIN m.artifacts : m.artifacts[j].name = o => i <= j
  IN  m.artifacts[i]

\* Whether CollectOutputMetadata returns metadata of a Pod's manifest.
Collectable(m, fresh) ==
  /\ m # NoManifest
  /\ ParseArtifactManifest(m)
  /\ validateObservedManifest(m, fresh)
  /\ \E i \in DOMAIN Outputs : HasArtifact(m, Outputs[i])

-----------------------------------------------------------------------------
(* Registering an output *)

\* A URI of the jumi scheme is logical only and moves to LogicalURI.
ConcreteUri(a) == IF a.uri = "jumi" THEN "" ELSE a.uri
LogicalUri(a)  == IF a.uri = "jumi" /\ a.logical = "" THEN a.uri ELSE a.logical

\* toHandoffLocations fills in the node of the Pod; on the wire a location
\* without NodeLocal is left out.
toHandoffLocation(a) ==
  CASE a.loc = "named"   -> "named"
    [] a.loc = "unnamed" -> "node of the pod"
    [] OTHER             -> "none"

\* Mutant: the URI is tested before the logical one is taken out.
RegistrableWithRawUri(m, o) ==
  /\ HasArtifact(m, o)
  /\ LET a == ByOutputName(m, o)
     IN  a.digest # "" /\ (a.uri # "" \/ a.loc # "none")

\* The output is in the manifest with a digest and with a URI or locations.
Registrable(m, o) ==
  /\ HasArtifact(m, o)
  /\ LET a == ByOutputName(m, o)
     IN  /\ a.digest # ""
         /\ ConcreteUri(a) # "" \/ a.loc # "none"

\* RegisterArtifactRequest; AH keeps the last one for an ArtifactID, which names
\* the attempt and the output.
Request(m, o, p) ==
  LET a == ByOutputName(m, o)
  IN  [digest |-> a.digest, uri |-> ConcreteUri(a), logical |-> LogicalUri(a),
       loc |-> toHandoffLocation(a), pod |-> p, manifest |-> m]

-----------------------------------------------------------------------------
(* The finalization *)

Goto(pc) == runner' = [runner EXCEPT !.pc = pc]

\* WaitNode reports the success of the Job.
WaitSucceeds ==
  /\ runner.pc = "wait" /\ job = "succeeded"
  /\ runner' = [runner EXCEPT !.pc = IF Outputs = <<>> THEN "notify" ELSE "collect"]
  /\ UNCHANGED <<cluster, attempt, node, service, bounds>>

\* WaitNode fails: the watch is lost or the Job is gone.  The attempt is left
\* unresolved.
WaitFails ==
  /\ runner.pc = "wait"
  /\ \/ job = "gone" /\ UNCHANGED bounds
     \/ Fault
  /\ Goto("ended")
  /\ UNCHANGED <<cluster, attempt, node, service>>

\* CollectOutputMetadata: list the Pods, read, parse and validate.
Collect ==
  /\ runner.pc = "collect"
  /\ LET p == findJobPod
         m == Observed(p)
     IN  IF Listed # {} /\ Collectable(m, runner.fresh)
         THEN runner' = [runner EXCEPT !.pc = "register", !.source = p,
                                       !.manifest = m, !.next = 1]
         ELSE Goto("defer")
  /\ UNCHANGED <<cluster, attempt, node, service, bounds>>

\* The list of the Pods fails.
CollectFails ==
  /\ runner.pc = "collect"
  /\ Fault
  /\ Goto("defer")
  /\ UNCHANGED <<cluster, attempt, node, service>>

\* Mutant: an output that cannot be registered is passed over.
RegisterOutputSkippingMissing ==
  /\ runner.pc = "register" /\ runner.next \in DOMAIN Outputs
  /\ LET o == Outputs[runner.next]
     IN  registry' = IF o # "" /\ Registrable(runner.manifest, o)
                     THEN [registry EXCEPT ![o] =
                             Request(runner.manifest, o, runner.source)]
                     ELSE registry
  /\ runner' = [runner EXCEPT !.next = @ + 1]
  /\ UNCHANGED <<cluster, attempt, node, told, bounds>>

\* Mutant: an output AH already holds is not registered again.
RegisterOutputOnce ==
  /\ runner.pc = "register" /\ runner.next \in DOMAIN Outputs
  /\ LET o == Outputs[runner.next]
         advance == runner' = [runner EXCEPT !.next = @ + 1]
         call == registry' = [registry EXCEPT ![o] =
                                Request(runner.manifest, o, runner.source)]
     IN  \/ o = "" /\ advance /\ UNCHANGED <<registry, bounds>>
         \/ /\ o # "" /\ ~ Registrable(runner.manifest, o)
            /\ Goto("defer") /\ UNCHANGED <<registry, bounds>>
         \/ /\ o # "" /\ Registrable(runner.manifest, o)
            /\ \/ advance /\ UNCHANGED bounds
                  /\ (IF registry[o] = Absent THEN call ELSE UNCHANGED registry)
               \/ Fault /\ Goto("defer") /\ (call \/ UNCHANGED registry)
  /\ UNCHANGED <<cluster, attempt, node, told>>

\* One turn of the loop over node.Outputs.
RegisterOutput ==
  /\ runner.pc = "register" /\ runner.next \in DOMAIN Outputs
  /\ LET o == Outputs[runner.next]
         advance == runner' = [runner EXCEPT !.next = @ + 1]
         call == registry' = [registry EXCEPT ![o] =
                                Request(runner.manifest, o, runner.source)]
     IN  \/ o = "" /\ advance /\ UNCHANGED <<registry, bounds>>
         \/ /\ o # "" /\ ~ Registrable(runner.manifest, o)
            /\ Goto("defer") /\ UNCHANGED <<registry, bounds>>
         \/ /\ o # "" /\ Registrable(runner.manifest, o)
            /\ \/ advance /\ call /\ UNCHANGED bounds
               \/ Fault /\ Goto("defer") /\ (call \/ UNCHANGED registry)
  /\ UNCHANGED <<cluster, attempt, node, told>>

RegisterDone ==
  /\ runner.pc = "register" /\ runner.next \notin DOMAIN Outputs
  /\ Goto("notify")
  /\ UNCHANGED <<cluster, attempt, node, service, bounds>>

\* NotifyNodeTerminal("Succeeded"); a failed call may have had its effect.
Notify ==
  /\ runner.pc = "notify"
  /\ \/ told' = TRUE /\ Goto("complete") /\ UNCHANGED bounds
     \/ Fault /\ Goto("defer") /\ told' \in {told, TRUE}
  /\ UNCHANGED <<cluster, attempt, node, registry>>

\* UpsertAttempt(Completed), its error ignored, replaces the whole record.
CompleteAttempt ==
  /\ runner.pc = "complete"
  /\ \/ attempt' = [status |-> "Completed", completed |-> FALSE] /\ UNCHANGED bounds
     \/ Fault /\ UNCHANGED attempt
  /\ Goto("succeed")
  /\ UNCHANGED <<cluster, node, service>>

\* UpdateNode(Succeeded); its error is RunE's.
SucceedNode ==
  /\ runner.pc = "succeed"
  /\ \/ node' = "Succeeded" /\ Goto("done") /\ UNCHANGED bounds
     \/ Fault /\ Goto("ended") /\ UNCHANGED node
  /\ UNCHANGED <<cluster, attempt, service>>

\* deferFinalizationAfterSuccess: remember that the process completed and leave
\* the attempt non-terminal, with its handle.
Defer ==
  /\ runner.pc = "defer"
  /\ \/ attempt' = [attempt EXCEPT !.completed = TRUE] /\ UNCHANGED bounds
     \/ Fault /\ UNCHANGED attempt
  /\ Goto("ended")
  /\ UNCHANGED <<cluster, node, service>>

Crash ==
  /\ runner.pc \notin {"done", "down"}
  /\ bounds.restarts < MaxRestarts
  /\ bounds' = [bounds EXCEPT !.restarts = @ + 1]
  /\ runner' = Runner("down", FALSE)
  /\ UNCHANGED <<cluster, attempt, node, service>>

\* Mutant: the sweep does not look at the attempt's status.
RestartReattachesAll ==
  /\ runner.pc = "down"
  /\ runner' = Runner("wait", FALSE)
  /\ UNCHANGED <<cluster, attempt, node, service, bounds>>

\* The startup sweep: an attempt on record as Completed only has its node
\* repaired, any other is reattached by its handle (runFromHandle).
Restart ==
  /\ runner.pc = "down"
  /\ runner' = Runner(IF attempt.status = "Completed" THEN "succeed" ELSE "wait", FALSE)
  /\ UNCHANGED <<cluster, attempt, node, service, bounds>>

RunnerStep ==
  \/ WaitSucceeds \/ WaitFails \/ Collect \/ CollectFails
  \/ RegisterOutput \/ RegisterDone \/ Notify
  \/ CompleteAttempt \/ SucceedNode \/ Defer

Next ==
  \/ \E p \in Pods : PodStarts(p) \/ PodEnds(p) \/ PodRemoved(p)
  \/ JobExpires
  \/ RunnerStep
  \/ Crash \/ Restart

Spec == Init /\ [][Next]_vars
FairSpec == Spec /\ WF_vars(RunnerStep) /\ WF_vars(Restart)

-----------------------------------------------------------------------------
(* Properties *)

Registered(o) == registry[o] # Absent
Origin(o) == <<registry[o].pod, registry[o].manifest>>

\* AH hears that the node Succeeded (notifyNodeTerminal) only when it holds every
\* declared output, whichever calls failed, had their effect or were repeated
\* before, and in whichever process.
ToldIsRegistered == told => \A o \in Names : Registered(o)

\* A node stored as Succeeded has all its outputs from one manifest of one Pod: a
\* finalization that is driven again after another Pod was read replaces what the
\* first one registered (registerNodeOutputs starts over) and never mixes the two.
SucceededIsComplete ==
  node = "Succeeded" =>
    /\ told
    /\ \A o1, o2 \in Names :
         Registered(o1) /\ Registered(o2) /\ Origin(o1) = Origin(o2)

\* While the Pod that succeeded exists, no output is registered from a preempted
\* one, however close together they ended and however they are listed (findJobPod).
SuccessIsPreferred ==
  \A o \in Names :
    Registered(o) /\ pods[registry[o].pod].main = "preempted"
      => \A p \in Pods : pods[p].main # "succeeded"

\* What a consumer gets can be checked and fetched: a registered output has a
\* digest, its URI is not a logical one, and it has a URI or a location, unless
\* all the manifest gave was a location entry without content (registerNodeOutputs
\* counts the entry, the gRPC client leaves it out).
RegisteredIsUsable ==
  \A o \in Names : Registered(o) =>
    LET r == registry[o]
    IN  /\ r.digest # "" /\ r.uri # "jumi"
        /\ \/ r.uri # "" \/ r.loc # "none"
           \/ ByOutputName(r.manifest, o).loc = "empty"

\* Until the process restarts, outputs are registered only from a manifest that
\* names this run, node and attempt (validateObservedManifest).
FreshIsOwn ==
  bounds.restarts = 0 =>
    \A o \in Names : Registered(o) =>
      LET m == registry[o].manifest
      IN  <<m.runId, m.nodeId, m.attemptId>> = <<"own", "own", "own">>

\* Once the attempt is on record as Completed, AH's view of its outputs does not
\* change: a crash before the node is stored must not drive the finalization again.
CompletedIsFrozen ==
  [][attempt.status = "Completed" => UNCHANGED service]_vars

\* A success that AH was told of (notifyNodeTerminal) does not stay with AH alone:
\* a process that crashes before it has stored it leaves the attempt open, and the
\* next one, which reads the Pods and checks the manifest again without the ids,
\* gets as far as the node's status, unless it finds a Pod or the Job removed, or
\* a call fails.
ReportedIsStored ==
  told ~> \/ node = "Succeeded"
          \/ job = "gone" \/ \E p \in Pods : pods[p].main = "gone"
          \/ bounds.faults > 0
=============================================================================
