---------------------- MODULE OutputRegistrationProofs ----------------------
(***************************************************************************)
(* Proofs about OutputRegistration, for every list of outputs, every set   *)
(* of manifests, and any number of Pods, crashes and failing calls.  The   *)
(* first part says how far the finalization is, whichever Pod it reads;    *)
(* the second which Pod findJobPod picks, and what follows from that.      *)
(***************************************************************************)
EXTENDS OutputRegistration, LeastElement

PCs == {"wait", "collect", "register", "notify", "complete", "succeed", "defer",
        "ended", "done", "down"}

\* The fields of the runner the steps assign.  source and manifest may be anything
\* while nothing was collected.
IsRunner(r) ==
  /\ r = [pc |-> r.pc, fresh |-> r.fresh, source |-> r.source,
          manifest |-> r.manifest, next |-> r.next]
  /\ r.pc \in PCs /\ r.fresh \in BOOLEAN /\ r.next \in Nat \ {0}
  /\ r.pc = "down" => r.fresh = FALSE

Shape ==
  /\ IsRunner(runner)
  /\ DOMAIN registry = Names
  /\ registry = [o \in Names |-> registry[o]]
  /\ attempt = [status |-> attempt.status, completed |-> attempt.completed]
  /\ bounds = [restarts |-> bounds.restarts, faults |-> bounds.faults]
  /\ bounds.restarts \in Nat /\ bounds.faults \in Nat

\* o is registered from the manifest in hand.
FromHand(o) ==
  /\ Registered(o)
  /\ registry[o].pod = runner.source /\ registry[o].manifest = runner.manifest

Together ==
  \A o1, o2 \in Names : Registered(o1) /\ Registered(o2) /\ Origin(o1) = Origin(o2)

\* How far the finalization is, and what AH holds by then.
ProgressInv ==
  /\ runner.pc = "register" => \A i \in DOMAIN Outputs :
       i < runner.next /\ Outputs[i] # "" => FromHand(Outputs[i])
  /\ runner.pc \in {"notify", "complete"} => Together
  /\ runner.pc = "complete" => told
  /\ runner.pc = "succeed" => told /\ Together
  /\ attempt.status = "Completed" =>
       told /\ Together /\ runner.pc \in {"succeed", "done", "ended", "down"}
  /\ node = "Succeeded" => told /\ Together /\ runner.pc = "done"

\* The manifest in hand was checked against the ids in the node's Env.
Own(m) == <<m.runId, m.nodeId, m.attemptId>> = <<"own", "own", "own">>
ManifestInv ==
  bounds.restarts = 0 => /\ runner.fresh
                         /\ runner.pc = "register" => Own(runner.manifest)

FinalInv == Shape /\ ProgressInv /\ ManifestInv /\ ToldIsRegistered /\ FreshIsOwn

\* Goto changes the runner's place and nothing else of it.
LEMMA GotoFacts ==
  ASSUME IsRunner(runner), NEW pc \in PCs \ {"down"}, Goto(pc)
  PROVE  /\ IsRunner(runner') /\ runner'.pc = pc /\ runner'.fresh = runner.fresh
         /\ runner'.source = runner.source /\ runner'.manifest = runner.manifest
         /\ runner'.next = runner.next
BY DEF IsRunner, Goto

\* Collecting a manifest m of a Pod p starts the loop over the outputs.
LEMMA CollectFacts ==
  ASSUME IsRunner(runner), NEW p, NEW m,
         runner' = [runner EXCEPT !.pc = "register", !.source = p,
                                  !.manifest = m, !.next = 1]
  PROVE  /\ IsRunner(runner') /\ runner'.pc = "register"
         /\ runner'.fresh = runner.fresh
         /\ runner'.source = p /\ runner'.manifest = m /\ runner'.next = 1
<1>1. DOMAIN runner = {"pc", "fresh", "source", "manifest", "next"}
  BY DEF IsRunner
<1>2. /\ runner'.pc = "register" /\ runner'.fresh = runner.fresh
      /\ runner'.source = p /\ runner'.manifest = m /\ runner'.next = 1
  BY <1>1
<1>3. runner' = [x \in {"pc", "fresh", "source", "manifest", "next"} |-> runner'[x]]
  BY <1>1
<1>4. runner' = [pc |-> runner'.pc, fresh |-> runner'.fresh, source |-> runner'.source,
                 manifest |-> runner'.manifest, next |-> runner'.next]
  BY <1>3
<1> QED
  BY <1>2, <1>4 DEF IsRunner, PCs

\* Counting a failed call leaves the crashes alone.
LEMMA FaultFacts ==
  ASSUME Shape, UNCHANGED bounds \/ Fault
  PROVE  /\ bounds' = [restarts |-> bounds'.restarts, faults |-> bounds'.faults]
         /\ bounds'.restarts = bounds.restarts /\ bounds'.faults \in Nat
<1>1. CASE UNCHANGED bounds
  BY <1>1 DEF Shape
<1>2. CASE Fault
  BY <1>2 DEF Shape, Fault
<1> QED
  BY <1>1, <1>2

\* What AH holds and was told is a matter of registry and told alone.
LEMMA ServiceSame ==
  ASSUME UNCHANGED registry
  PROVE  /\ \A o : Registered(o)' <=> Registered(o)
         /\ \A o : Origin(o)' = Origin(o)
         /\ Together' <=> Together
BY DEF Registered, Origin, Together

\* A step that does not touch AH, the attempt or the node and takes the runner to
\* a place about which nothing more is claimed.
LEMMA QuietStep ==
  ASSUME FinalInv, UNCHANGED <<attempt, node, service>>, UNCHANGED bounds \/ Fault,
         IsRunner(runner'), runner'.fresh = runner.fresh,
         runner.pc \notin {"succeed", "done"}, attempt.status # "Completed",
         runner'.pc \in {"wait", "collect", "defer", "ended"}
  PROVE  FinalInv'
<1>1. UNCHANGED registry /\ UNCHANGED told /\ bounds'.restarts = bounds.restarts
  BY FaultFacts DEF service, FinalInv
<1>2. Shape'
  BY <1>1, FaultFacts DEF FinalInv, Shape, service
<1>3. ProgressInv'
  BY DEF FinalInv, ProgressInv
<1>4. ManifestInv' /\ ToldIsRegistered' /\ FreshIsOwn'
  BY <1>1 DEF FinalInv, ManifestInv, ToldIsRegistered, FreshIsOwn, Registered
<1> QED
  BY <1>2, <1>3, <1>4 DEF FinalInv

\* The cluster does not touch the finalization.
LEMMA ClusterStep ==
  ASSUME FinalInv, UNCHANGED <<runner, attempt, node, registry, told, bounds>>
  PROVE  FinalInv'
<1>1. Shape' /\ ManifestInv'
  BY DEF FinalInv, Shape, ManifestInv
<1>2. ProgressInv'
  BY ServiceSame DEF FinalInv, ProgressInv, FromHand, Registered
<1>3. ToldIsRegistered' /\ FreshIsOwn'
  BY DEF FinalInv, ToldIsRegistered, FreshIsOwn, Registered
<1> QED
  BY <1>1, <1>2, <1>3 DEF FinalInv

\* An index below the next one is the current one or below it.
LEMMA Below == \A i, k \in Nat : i < k + 1 /\ i # k => i < k
OBVIOUS

\* One turn of the loop: what is registered stays registered, the output whose
\* turn it is has its entry from the manifest in hand.
LEMMA RegisterStep == FinalInv /\ RegisterOutput => FinalInv'
<1> SUFFICES ASSUME FinalInv, RegisterOutput PROVE FinalInv'
  OBVIOUS
<1> DEFINE o == Outputs[runner.next]
           e == Request(runner.manifest, o, runner.source)
<1>0. /\ Shape /\ ProgressInv /\ ManifestInv /\ ToldIsRegistered /\ FreshIsOwn
      /\ runner.pc = "register" /\ runner.next \in DOMAIN Outputs
      /\ UNCHANGED <<attempt, node, told>>
  BY DEF FinalInv, RegisterOutput
<1>1. attempt.status # "Completed" /\ node # "Succeeded"
  BY <1>0 DEF ProgressInv
<1>2. ASSUME Goto("defer"), UNCHANGED registry, UNCHANGED bounds \/ Fault PROVE FinalInv'
  BY <1>0, <1>1, <1>2, GotoFacts, QuietStep DEF Shape, service, PCs
<1> DEFINE advance == runner' = [runner EXCEPT !.next = @ + 1]
           call == registry' = [registry EXCEPT ![o] = e]
<1>3. ASSUME advance
      PROVE  /\ IsRunner(runner') /\ runner'.pc = "register" /\ runner'.fresh = runner.fresh
             /\ runner'.source = runner.source /\ runner'.manifest = runner.manifest
             /\ runner'.next = runner.next + 1
  BY <1>0, <1>3 DEF Shape, IsRunner
<1>n. runner.next \in Nat /\ DOMAIN Outputs \subseteq Nat
  BY <1>0, OutputAssumption DEF Shape, IsRunner
<1>4. ASSUME o = "", advance, UNCHANGED <<registry, bounds>> PROVE FinalInv'
  <2>1. Shape' /\ ManifestInv'
    BY <1>0, <1>3, <1>4 DEF Shape, ManifestInv
  <2>2. \A i \in DOMAIN Outputs :
          i < runner.next + 1 /\ Outputs[i] # "" => FromHand(Outputs[i])
    <3> SUFFICES ASSUME NEW i \in DOMAIN Outputs, i < runner.next + 1, Outputs[i] # ""
                 PROVE  FromHand(Outputs[i])
      OBVIOUS
    <3>1. i \in Nat /\ i # runner.next
      BY <1>4, <1>n
    <3>2. i < runner.next
      BY <1>n, <3>1, Below, Zenon
    <3> QED
      BY <1>0, <3>2 DEF ProgressInv
  <2>3. ProgressInv'
    BY <1>0, <1>1, <1>3, <1>4, <2>2 DEF ProgressInv, FromHand, Registered
  <2>4. ToldIsRegistered' /\ FreshIsOwn'
    BY <1>0, <1>4 DEF ToldIsRegistered, FreshIsOwn, Registered
  <2> QED
    BY <2>1, <2>3, <2>4 DEF FinalInv
<1>5. ASSUME o # "", Registrable(runner.manifest, o), call, UNCHANGED bounds \/ Fault,
             IsRunner(runner'), runner'.fresh = runner.fresh,
             runner'.source = runner.source, runner'.manifest = runner.manifest,
             (runner'.pc = "register" /\ runner'.next = runner.next + 1) \/ runner'.pc = "defer"
      PROVE  FinalInv'
  <2>1. o \in Names
    BY <1>0, <1>5 DEF Names
  <2>2. e.digest # "" /\ e.pod = runner.source /\ e.manifest = runner.manifest
    BY <1>5 DEF Registrable, Request
  <2> HIDE DEF e, o
  <2>3. e # Absent
    <3>1. Absent.digest = ""
      BY DEF Absent
    <3> QED
      BY <2>2, <3>1, Zenon
  <2>4. /\ DOMAIN registry' = Names /\ registry' = [x \in Names |-> registry'[x]]
        /\ registry'[o] = e /\ \A x \in Names \ {o} : registry'[x] = registry[x]
    BY <1>0, <1>5, <2>1 DEF Shape
  <2>5. bounds' = [restarts |-> bounds'.restarts, faults |-> bounds'.faults]
        /\ bounds'.restarts = bounds.restarts /\ bounds'.faults \in Nat
    BY <1>0, <1>5, FaultFacts
  <2>6. Shape'
    BY <1>0, <1>5, <2>4, <2>5 DEF Shape
  <2>7. ManifestInv'
    BY <1>0, <1>5, <2>5 DEF ManifestInv
  <2>8. ToldIsRegistered'
    BY <1>0, <2>3, <2>4 DEF ToldIsRegistered, Registered
  <2>9. FreshIsOwn'
    <3> SUFFICES ASSUME bounds'.restarts = 0, NEW x \in Names, registry'[x] # Absent
                 PROVE  Own(registry'[x].manifest)
      BY DEF FreshIsOwn, Registered, Own
    <3>1. CASE x = o
      BY <1>0, <2>2, <2>4, <2>5, <3>1 DEF ManifestInv
    <3>2. CASE x # o
      BY <1>0, <2>4, <2>5, <3>2 DEF FreshIsOwn, Registered, Own
    <3> QED
      BY <3>1, <3>2
  <2>10. ASSUME NEW i \in DOMAIN Outputs, runner'.pc = "register", i < runner'.next,
                Outputs[i] # ""
         PROVE  FromHand(Outputs[i])'
    <3>1. Outputs[i] \in Names
      BY <2>10 DEF Names
    <3>2. CASE Outputs[i] = o
      BY <1>5, <2>2, <2>3, <2>4, <3>2 DEF FromHand, Registered
    <3>3. CASE Outputs[i] # o
      <4>1. i < runner.next
        <5>1. i \in Nat /\ i # runner.next /\ i < runner.next + 1
          BY <1>5, <1>n, <2>10, <3>3 DEF o
        <5> QED
          BY <1>n, <5>1, Below, Zenon
      <4>2. FromHand(Outputs[i])
        BY <1>0, <2>10, <4>1 DEF ProgressInv
      <4> QED
        BY <1>5, <2>4, <3>1, <3>3, <4>2 DEF FromHand, Registered
    <3> QED
      BY <3>2, <3>3
  <2>11. ProgressInv'
    BY <1>0, <1>1, <1>5, <2>10 DEF ProgressInv
  <2> QED
    BY <2>6, <2>7, <2>8, <2>9, <2>11 DEF FinalInv
<1>6. \/ o = "" /\ advance /\ UNCHANGED <<registry, bounds>>
      \/ Goto("defer") /\ UNCHANGED registry /\ (UNCHANGED bounds \/ Fault)
      \/ /\ o # "" /\ Registrable(runner.manifest, o) /\ call
         /\ UNCHANGED bounds \/ Fault
         /\ advance \/ Goto("defer")
  BY DEF RegisterOutput
<1>7. IsRunner(runner) /\ "defer" \in PCs \ {"down"}
  BY <1>0 DEF Shape, PCs
<1> HIDE DEF e, o, advance, call
<1>8. CASE /\ o # "" /\ Registrable(runner.manifest, o) /\ call
           /\ UNCHANGED bounds \/ Fault
           /\ advance \/ Goto("defer")
  <2>1. CASE advance
    BY <1>3, <1>5, <1>8, <2>1
  <2>2. CASE Goto("defer")
    BY <1>5, <1>7, <1>8, <2>2, GotoFacts
  <2> QED
    BY <1>8, <2>1, <2>2
<1> QED
  BY <1>2, <1>4, <1>6, <1>8

\* A step that leaves AH alone.  What it may claim of the runner's new place is
\* what the place is reached with.
LEMMA PlaceStep ==
  ASSUME FinalInv, UNCHANGED registry, told' = told \/ (told' = TRUE /\ Together),
         IsRunner(runner'), bounds.restarts = bounds'.restarts => runner'.fresh = runner.fresh,
         bounds' = [restarts |-> bounds'.restarts, faults |-> bounds'.faults],
         bounds'.restarts \in Nat, bounds'.faults \in Nat,
         bounds'.restarts # bounds.restarts => bounds'.restarts # 0,
         attempt' = [status |-> attempt'.status, completed |-> attempt'.completed],
         runner'.pc # "register", ProgressInv'
  PROVE  FinalInv'
<1>1. Shape'
  BY DEF FinalInv, Shape
<1>2. ManifestInv'
  BY DEF FinalInv, ManifestInv
<1>3. ToldIsRegistered'
  BY DEF FinalInv, ToldIsRegistered, Together, Registered
<1>4. FreshIsOwn'
  BY DEF FinalInv, FreshIsOwn, Registered
<1> QED
  BY <1>1, <1>2, <1>3, <1>4 DEF FinalInv

\* The wait for the Job and the collection of the manifest.
LEMMA WaitStep == FinalInv /\ (WaitSucceeds \/ WaitFails \/ Collect \/ CollectFails) => FinalInv'
<1> SUFFICES ASSUME FinalInv, WaitSucceeds \/ WaitFails \/ Collect \/ CollectFails PROVE FinalInv'
  OBVIOUS
<1>0. /\ Shape /\ ProgressInv /\ ManifestInv /\ ToldIsRegistered /\ FreshIsOwn
      /\ runner.pc \in {"wait", "collect"} /\ IsRunner(runner)
      /\ UNCHANGED <<attempt, node, service>>
  BY DEF FinalInv, Shape, WaitSucceeds, WaitFails, Collect, CollectFails
<1>1. attempt.status # "Completed" /\ node # "Succeeded"
  BY <1>0 DEF ProgressInv
<1>2. ASSUME NEW pc \in {"ended", "defer"}, Goto(pc), UNCHANGED bounds \/ Fault PROVE FinalInv'
  BY <1>0, <1>1, <1>2, GotoFacts, QuietStep DEF PCs
<1>3. CASE WaitFails \/ CollectFails
  BY <1>2, <1>3 DEF WaitFails, CollectFails
<1>4. CASE WaitSucceeds
  <2>1. Goto(IF Outputs = <<>> THEN "notify" ELSE "collect") /\ UNCHANGED bounds
    BY <1>4 DEF WaitSucceeds, Goto
  <2>2. CASE Outputs = <<>>
    <3>1. Names = {}
      BY <2>2 DEF Names
    <3>2. /\ IsRunner(runner') /\ runner'.pc = "notify" /\ runner'.fresh = runner.fresh
      BY <1>0, <2>1, <2>2, GotoFacts DEF PCs
    <3>3. ProgressInv'
      BY <1>0, <1>1, <3>1, <3>2 DEF ProgressInv, Together
    <3> QED
      BY <1>0, <2>1, <3>2, <3>3, PlaceStep DEF Shape, service
  <2>3. CASE Outputs # <<>>
    BY <1>0, <1>1, <2>1, <2>3, GotoFacts, QuietStep DEF PCs
  <2> QED
    BY <2>2, <2>3
<1>5. CASE Collect
  <2> DEFINE p == findJobPod
             m == Observed(p)
  <2>1. UNCHANGED bounds
    BY <1>5 DEF Collect
  <2>2. CASE Goto("defer")
    BY <1>2, <2>1, <2>2
  <2>3. CASE /\ Collectable(m, runner.fresh)
             /\ runner' = [runner EXCEPT !.pc = "register", !.source = p,
                                         !.manifest = m, !.next = 1]
    <3>1. runner.fresh => Own(m)
      BY <2>3 DEF Collectable, validateObservedManifest, Own
    <3> HIDE DEF p, m
    <3>2. /\ IsRunner(runner') /\ runner'.pc = "register" /\ runner'.fresh = runner.fresh
          /\ runner'.manifest = m /\ runner'.next = 1
      BY <1>0, <2>3, CollectFacts
    <3>3. UNCHANGED registry /\ UNCHANGED told
      BY <1>0 DEF service
    <3>4. Shape' /\ ManifestInv'
      BY <1>0, <2>1, <3>1, <3>2, <3>3 DEF Shape, ManifestInv
    <3>5. \A i \in DOMAIN Outputs : ~(i < 1)
      <4>1. DOMAIN Outputs = 1 .. Len(Outputs) /\ Len(Outputs) \in Nat
        BY OutputAssumption
      <4> QED
        BY <4>1
    <3>6. ProgressInv'
      BY <1>0, <1>1, <3>2, <3>5 DEF ProgressInv
    <3>7. ToldIsRegistered' /\ FreshIsOwn'
      BY <1>0, <2>1, <3>3 DEF ToldIsRegistered, FreshIsOwn, Registered
    <3> QED
      BY <3>4, <3>6, <3>7 DEF FinalInv
  <2> QED
    BY <1>5, <2>2, <2>3 DEF Collect
<1> QED
  BY <1>3, <1>4, <1>5

\* From the end of the loop to the stored outcome, or to the deferral.
LEMMA EndStep ==
  FinalInv /\ (RegisterDone \/ Notify \/ CompleteAttempt \/ SucceedNode \/ Defer) => FinalInv'
<1> SUFFICES ASSUME FinalInv,
                    RegisterDone \/ Notify \/ CompleteAttempt \/ SucceedNode \/ Defer
             PROVE  FinalInv'
  OBVIOUS
<1>0. /\ Shape /\ ProgressInv /\ ManifestInv /\ ToldIsRegistered /\ FreshIsOwn
      /\ IsRunner(runner)
  BY DEF FinalInv, Shape
<1>b. UNCHANGED registry /\ (UNCHANGED bounds \/ Fault)
  BY DEF RegisterDone, Notify, CompleteAttempt, SucceedNode, Defer, service
<1>c. /\ bounds' = [restarts |-> bounds'.restarts, faults |-> bounds'.faults]
      /\ bounds'.restarts = bounds.restarts /\ bounds'.faults \in Nat
      /\ bounds'.restarts \in Nat
  BY <1>0, <1>b, FaultFacts DEF Shape
<1>t. Together' <=> Together
  BY <1>b, ServiceSame
<1>1. CASE RegisterDone
  <2>1. /\ runner.pc = "register" /\ runner.next \notin DOMAIN Outputs /\ Goto("notify")
        /\ UNCHANGED <<attempt, node, told>>
    BY <1>1 DEF RegisterDone, service
  <2>2. \A i \in DOMAIN Outputs : i < runner.next
    BY <1>0, <2>1, OutputAssumption DEF IsRunner
  <2>3. \A o \in Names : FromHand(o)
    BY <1>0, <2>1, <2>2 DEF ProgressInv, Names
  <2>4. Together
    BY <2>3 DEF Together, FromHand, Origin
  <2>5. /\ IsRunner(runner') /\ runner'.pc = "notify" /\ runner'.fresh = runner.fresh
    BY <1>0, <2>1, GotoFacts DEF PCs
  <2>6. ProgressInv'
    BY <1>0, <1>t, <2>1, <2>4, <2>5 DEF ProgressInv
  <2> QED
    BY <1>0, <1>b, <1>c, <2>1, <2>5, <2>6, PlaceStep DEF Shape
<1>2. CASE Notify
  <2>1. /\ runner.pc = "notify" /\ Together /\ UNCHANGED <<attempt, node>>
        /\ attempt.status # "Completed" /\ node # "Succeeded"
    BY <1>0, <1>2 DEF Notify, ProgressInv
  <2>2. (told' = TRUE /\ Goto("complete")) \/ (told' \in {told, TRUE} /\ Goto("defer"))
    BY <1>2 DEF Notify
  <2>3. /\ IsRunner(runner') /\ runner'.fresh = runner.fresh
        /\ (runner'.pc = "complete" /\ told' = TRUE) \/ runner'.pc = "defer"
    BY <1>0, <2>2, GotoFacts DEF PCs
  <2>4. ProgressInv'
    BY <1>t, <2>1, <2>3 DEF ProgressInv
  <2>5. runner'.pc # "register" /\ (told' = told \/ (told' = TRUE /\ Together))
    BY <2>1, <2>2, <2>3
  <2> QED
    BY <1>0, <1>b, <1>c, <2>1, <2>3, <2>4, <2>5, PlaceStep DEF Shape
<1>3. CASE CompleteAttempt
  <2>1. /\ runner.pc = "complete" /\ told /\ Together /\ UNCHANGED <<node, told>>
        /\ node # "Succeeded" /\ Goto("succeed")
        /\ attempt' = attempt \/ attempt' = [status |-> "Completed", completed |-> FALSE]
    BY <1>0, <1>3 DEF CompleteAttempt, ProgressInv, service
  <2>2. /\ IsRunner(runner') /\ runner'.fresh = runner.fresh /\ runner'.pc = "succeed"
    BY <1>0, <2>1, GotoFacts DEF PCs
  <2>3. ProgressInv'
    BY <1>0, <1>t, <2>1, <2>2 DEF ProgressInv
  <2>4. attempt' = [status |-> attempt'.status, completed |-> attempt'.completed]
    BY <1>0, <2>1 DEF Shape
  <2> QED
    BY <1>0, <1>b, <1>c, <2>1, <2>2, <2>3, <2>4, PlaceStep
<1>4. CASE SucceedNode
  <2>1. /\ runner.pc = "succeed" /\ told /\ Together /\ UNCHANGED <<attempt, told>>
        /\ \/ node' = "Succeeded" /\ Goto("done")
           \/ node' = node /\ Goto("ended")
        /\ node # "Succeeded"
    BY <1>0, <1>4 DEF SucceedNode, ProgressInv, service
  <2>2. /\ IsRunner(runner') /\ runner'.fresh = runner.fresh
        /\ (node' = "Succeeded" /\ runner'.pc = "done") \/ (node' = node /\ runner'.pc = "ended")
    BY <1>0, <2>1, GotoFacts DEF PCs
  <2>3. ProgressInv'
    BY <1>0, <1>t, <2>1, <2>2 DEF ProgressInv
  <2>4. runner'.pc # "register"
    BY <2>2
  <2> QED
    BY <1>0, <1>b, <1>c, <2>1, <2>2, <2>3, <2>4, PlaceStep DEF Shape
<1>5. CASE Defer
  <2>1. /\ runner.pc = "defer" /\ UNCHANGED <<node, told>> /\ Goto("ended")
        /\ attempt.status # "Completed" /\ node # "Succeeded"
        /\ attempt' = attempt \/ attempt' = [attempt EXCEPT !.completed = TRUE]
    BY <1>0, <1>5 DEF Defer, ProgressInv, service
  <2>2. /\ IsRunner(runner') /\ runner'.fresh = runner.fresh /\ runner'.pc = "ended"
    BY <1>0, <2>1, GotoFacts DEF PCs
  <2>3. /\ attempt' = [status |-> attempt'.status, completed |-> attempt'.completed]
        /\ attempt'.status = attempt.status
    BY <1>0, <2>1 DEF Shape
  <2>4. ProgressInv'
    BY <2>1, <2>2, <2>3 DEF ProgressInv
  <2> QED
    BY <1>0, <1>b, <1>c, <2>1, <2>2, <2>3, <2>4, PlaceStep
<1> QED
  BY <1>1, <1>2, <1>3, <1>4, <1>5

\* A crash keeps what is on record; the sweep resumes from that alone.
LEMMA RestartStep == FinalInv /\ (Crash \/ Restart) => FinalInv'
<1> SUFFICES ASSUME FinalInv, Crash \/ Restart PROVE FinalInv'
  OBVIOUS
<1>0. /\ Shape /\ ProgressInv /\ UNCHANGED <<attempt, node, registry, told>>
  BY DEF FinalInv, Crash, Restart, service
<1>t. Together' <=> Together
  BY <1>0, ServiceSame
<1>r. ASSUME NEW pc \in PCs, runner' = Runner(pc, FALSE)
      PROVE  IsRunner(runner') /\ runner'.pc = pc /\ runner'.fresh = FALSE
  BY <1>r DEF Runner, IsRunner
<1>1. CASE Crash
  <2>1. runner.pc # "done" /\ runner' = Runner("down", FALSE)
    BY <1>1 DEF Crash
  <2>2. IsRunner(runner') /\ runner'.pc = "down" /\ node # "Succeeded"
    BY <1>0, <1>r, <2>1 DEF PCs, ProgressInv
  <2>3. /\ bounds' = [restarts |-> bounds'.restarts, faults |-> bounds'.faults]
        /\ bounds'.restarts = bounds.restarts + 1 /\ bounds'.faults = bounds.faults
    BY <1>0, <1>1 DEF Crash, Shape
  <2>4. /\ bounds'.restarts \in Nat /\ bounds'.restarts # 0 /\ bounds'.faults \in Nat
        /\ bounds'.restarts # bounds.restarts
    BY <1>0, <2>3 DEF Shape
  <2>5. ProgressInv'
    BY <1>0, <1>t, <2>2 DEF ProgressInv
  <2> QED
    BY <1>0, <2>2, <2>3, <2>4, <2>5, PlaceStep DEF Shape
<1>2. CASE Restart
  <2>0. runner.pc = "down" /\ UNCHANGED bounds
    BY <1>2 DEF Restart
  <2>1. runner' = Runner(IF attempt.status = "Completed" THEN "succeed" ELSE "wait", FALSE)
    BY <1>2 DEF Restart
  <2>2. /\ IsRunner(runner') /\ node # "Succeeded" /\ runner'.fresh = FALSE
        /\ \/ attempt.status = "Completed" /\ runner'.pc = "succeed"
           \/ attempt.status # "Completed" /\ runner'.pc = "wait"
    BY <1>0, <1>r, <2>0, <2>1 DEF PCs, ProgressInv
  <2>3. ProgressInv'
    BY <1>0, <1>t, <2>2 DEF ProgressInv
  <2>4. bounds.restarts # 0
    BY <1>0, <2>0 DEF FinalInv, ManifestInv, Shape, IsRunner
  <2>5. Shape'
    BY <1>0, <2>0, <2>2 DEF Shape
  <2>6. ManifestInv' /\ FreshIsOwn'
    BY <2>0, <2>4 DEF ManifestInv, FreshIsOwn
  <2>7. ToldIsRegistered'
    BY <1>0 DEF FinalInv, ToldIsRegistered, Registered
  <2> QED
    BY <2>3, <2>5, <2>6, <2>7 DEF FinalInv
<1> QED
  BY <1>1, <1>2

\* The finalization starts in the invariant and stays in it.
LEMMA FinalInvariant == Spec => []FinalInv
<1>1. Init => FinalInv
  <2> SUFFICES ASSUME Init PROVE FinalInv
    OBVIOUS
  <2>1. IsRunner(runner) /\ runner.pc = "wait" /\ runner.fresh = TRUE
    BY DEF Init, Runner, IsRunner, PCs
  <2>2. /\ attempt = [status |-> "Started", completed |-> FALSE]
        /\ bounds = [restarts |-> 0, faults |-> 0]
        /\ node = "Running" /\ told = FALSE
        /\ registry = [o \in Names |-> Absent]
    BY DEF Init
  <2>3. Shape
    BY <2>1, <2>2 DEF Shape
  <2>4. ProgressInv
    BY <2>1, <2>2 DEF ProgressInv
  <2>5. ManifestInv
    BY <2>1 DEF ManifestInv
  <2>6. ToldIsRegistered /\ FreshIsOwn
    BY <2>2 DEF ToldIsRegistered, FreshIsOwn, Registered
  <2> QED
    BY <2>3, <2>4, <2>5, <2>6 DEF FinalInv
<1>2. FinalInv /\ [Next]_vars => FinalInv'
  <2> SUFFICES ASSUME FinalInv, [Next]_vars PROVE FinalInv'
    OBVIOUS
  <2>1. CASE UNCHANGED vars
    BY <2>1, ClusterStep DEF vars
  <2>2. ASSUME NEW p \in Pods, PodStarts(p) \/ PodEnds(p) \/ PodRemoved(p) PROVE FinalInv'
    BY <2>2, ClusterStep DEF PodStarts, PodEnds, PodRemoved
  <2>3. CASE JobExpires
    BY <2>3, ClusterStep DEF JobExpires
  <2>4. CASE RunnerStep
    BY <2>4, WaitStep, RegisterStep, EndStep DEF RunnerStep
  <2>5. CASE Crash \/ Restart
    BY <2>5, RestartStep
  <2> QED
    BY <2>1, <2>2, <2>3, <2>4, <2>5 DEF Next
<1> QED
  BY <1>1, <1>2, PTL DEF Spec

\* AH is told that the node Succeeded only when it holds every declared output, for
\* any outputs and manifests and however often the finalization is driven.
THEOREM ToldOnlyWhenRegistered == Spec => []ToldIsRegistered
<1>1. FinalInv => ToldIsRegistered
  BY DEF FinalInv
<1> QED
  BY <1>1, FinalInvariant, PTL

\* A node stored as Succeeded was reported, with all its outputs from one manifest
\* of one Pod (registerNodeOutputs starts over in every process).
THEOREM SuccessIsOfOneManifest == Spec => []SucceededIsComplete
<1>1. FinalInv => SucceededIsComplete
  BY DEF FinalInv, ProgressInv, SucceededIsComplete, Together
<1> QED
  BY <1>1, FinalInvariant, PTL

\* Until the process restarts, whatever AH holds for the attempt came from a
\* manifest that carries the attempt's own ids (validateObservedManifest).
THEOREM FirstProcessRegistersOwn == Spec => []FreshIsOwn
<1>1. FinalInv => FreshIsOwn
  BY DEF FinalInv
<1> QED
  BY <1>1, FinalInvariant, PTL

\* Once the attempt is on record as Completed no step of any process changes what
\* AH holds for it (the sweep repairs the node only).
THEOREM CompletedAttemptIsFrozen == Spec => CompletedIsFrozen
<1>1. FinalInv /\ [Next]_vars => [attempt.status = "Completed" => UNCHANGED service]_vars
  <2> SUFFICES ASSUME FinalInv, Next, attempt.status = "Completed" PROVE UNCHANGED service
    BY DEF vars
  <2>1. runner.pc \in {"succeed", "done", "ended", "down"}
    BY DEF FinalInv, ProgressInv
  <2>2. ASSUME NEW p \in Pods, PodStarts(p) \/ PodEnds(p) \/ PodRemoved(p)
        PROVE  UNCHANGED service
    BY <2>2 DEF PodStarts, PodEnds, PodRemoved, service
  <2>3. CASE JobExpires \/ Crash \/ Restart
    BY <2>3 DEF JobExpires, Crash, Restart, service
  <2>4. CASE RunnerStep
    <3>1. SucceedNode
      BY <2>1, <2>4 DEF RunnerStep, WaitSucceeds, WaitFails, Collect, CollectFails,
         RegisterOutput, RegisterDone, Notify, CompleteAttempt, Defer
    <3> QED
      BY <3>1 DEF SucceedNode, service
  <2> QED
    BY <2>2, <2>3, <2>4 DEF Next
<1> QED
  BY <1>1, FinalInvariant, PTL DEF Spec, CompletedIsFrozen

-----------------------------------------------------------------------------
(* The Pod that is read                                                    *)

MainStates == {"none", "running", "succeeded", "preempted", "gone"}
PodsTyped ==
  /\ pods \in [Pods -> [main : MainStates, at : Nat, message : Manifests \cup {NoManifest}]]
  /\ clock \in Nat /\ \A p \in Pods : pods[p].at <= clock

\* One Pod runs at a time, and none once the Job has ended: from then on Pods only
\* disappear.
JobInv ==
  /\ \A p, q \in Pods : pods[p].main = "running" /\ pods[q].main = "running" => p = q
  /\ job # "active" => \A p \in Pods : pods[p].main # "running"

NoneSucceeded == \A p \in Pods : pods[p].main # "succeeded"

\* Outputs are read and registered only of a Job that has ended; the manifest in
\* hand is one of its Pods', and of a preempted one only if none succeeded.
HandInv ==
  /\ runner.pc \in {"collect", "register"} => job # "active"
  /\ runner.pc = "register" =>
       /\ runner.source \in Pods /\ runner.manifest \in Manifests
       /\ pods[runner.source].main = "preempted" => NoneSucceeded
  /\ \A o \in Names : Registered(o) => job # "active" /\ registry[o].pod \in Pods

PodInv == PodsTyped /\ JobInv /\ HandInv /\ SuccessIsPreferred /\ RegisteredIsUsable

\* The scan for the latest Pod ends with a Pod of the set: there is a last second
\* in which one ended, and a first Pod that ended in it.
LEMMA LatestOfMember ==
  ASSUME PodsTyped, NEW S, S \subseteq Pods, S # {}
  PROVE  LatestOf(S) \in S
<1>0. /\ Pods \subseteq Nat /\ clock \in Nat
      /\ \A p \in Pods : pods[p].at \in Nat /\ pods[p].at <= clock
  <2>1. MaxPods \in Nat
    BY OutputAssumption
  <2> QED BY <2>1 DEF Pods, PodsTyped
<1> DEFINE D == {clock - pods[p].at : p \in S}
<1>1. D \subseteq Nat /\ D # {}
  <2>1. ASSUME NEW p \in S PROVE clock - pods[p].at \in Nat
    <3>1. p \in Pods
      OBVIOUS
    <3>2. pods[p].at \in Nat /\ pods[p].at <= clock
      BY <1>0, <3>1
    <3> QED BY <1>0, <3>2
  <2> QED BY <2>1
<1>2. PICK d \in D : \A k \in D : d <= k
  <2> HIDE DEF D
  <2> QED BY <1>1, Least
<1>3. PICK l \in S : d = clock - pods[l].at
  BY <1>2
<1> DEFINE F == {p \in S : pods[p].at = pods[l].at}
<1>4. \A q \in S : pods[q].at <= pods[l].at
  <2> TAKE q \in S
  <2>1. d <= clock - pods[q].at
    BY <1>2
  <2> QED BY <1>0, <1>3, <2>1
<1>5. F \subseteq Nat /\ F # {}
  BY <1>0, <1>3
<1>6. PICK f \in F : \A k \in F : f <= k
  <2> HIDE DEF F
  <2> QED BY <1>5, Least
<1>7. ASSUME NEW q \in S
      PROVE  ~ podTerminatedLater(q, f) /\ (q < f => podTerminatedLater(f, q))
  <2>1. pods[f].at = pods[l].at /\ pods[q].at <= pods[l].at /\ f \in Nat /\ q \in Nat
        /\ pods[q].at \in Nat /\ pods[l].at \in Nat
    BY <1>0, <1>3, <1>4, <1>6
  <2>2. pods[q].at = pods[l].at => f <= q
    BY <1>6
  <2> QED BY <2>1, <2>2 DEF podTerminatedLater
<1>8. \E p \in S : \A q \in S : ~ podTerminatedLater(q, p) /\ (q < p => podTerminatedLater(p, q))
  BY <1>6, <1>7
<1> QED BY <1>8 DEF LatestOf

\* Once the Job has ended and some Pod is left, findJobPod picks a Pod, and a
\* preempted one only if none succeeded.
LEMMA FindJobPodFacts ==
  ASSUME PodsTyped, JobInv, job # "active", Listed # {}
  PROVE  /\ findJobPod \in Pods
         /\ pods[findJobPod].main = "preempted" => NoneSucceeded
<1> DEFINE succeeded  == {p \in Listed : mainContainerSucceeded(p)}
           terminated == {p \in Listed : mainContainerTerminated(p)}
<1>1. succeeded \subseteq Pods /\ terminated \subseteq Pods
  BY DEF Listed
<1>2. terminated # {}
  BY DEF Listed, JobInv, mainContainerTerminated
<1>3. CASE succeeded # {}
  <2>1. findJobPod = LatestOf(succeeded)
    BY <1>3 DEF findJobPod
  <2>2. findJobPod \in succeeded
    <3> HIDE DEF succeeded
    <3> QED BY <1>1, <1>3, <2>1, LatestOfMember
  <2> QED BY <1>1, <2>2 DEF mainContainerSucceeded
<1>4. CASE succeeded = {}
  <2>1. findJobPod = LatestOf(terminated)
    BY <1>2, <1>4 DEF findJobPod
  <2>2. findJobPod \in terminated
    <3> HIDE DEF terminated
    <3> QED BY <1>1, <1>2, <2>1, LatestOfMember
  <2>3. NoneSucceeded
    BY <1>4 DEF NoneSucceeded, Listed, mainContainerSucceeded
  <2> QED BY <1>1, <2>2, <2>3
<1> QED BY <1>3, <1>4

\* The artifact looked up by the name of an output is one of the manifest's.
LEMMA ByOutputNameFacts ==
  ASSUME NEW m \in Manifests, NEW o, HasArtifact(m, o)
  PROVE  ByOutputName(m, o) \in Artifacts
<1>1. m.artifacts \in Seq(Artifacts)
  BY OutputAssumption DEF IsManifest
<1> DEFINE I == {i \in DOMAIN m.artifacts : m.artifacts[i].name = o}
<1>2. I \subseteq Nat /\ I # {}
  BY <1>1 DEF HasArtifact
<1>3. PICK f \in I : \A k \in I : f <= k
  <2> HIDE DEF I
  <2> QED BY <1>2, Least
<1> DEFINE First(i) == /\ m.artifacts[i].name = o
                       /\ \A j \in DOMAIN m.artifacts : m.artifacts[j].name = o => i <= j
           c == CHOOSE i \in DOMAIN m.artifacts : First(i)
<1>4. f \in DOMAIN m.artifacts /\ First(f)
  BY <1>3
<1>5. c \in DOMAIN m.artifacts
  BY <1>4
<1>6. ByOutputName(m, o) = m.artifacts[c]
  BY DEF ByOutputName
<1> HIDE DEF c
<1> QED BY <1>1, <1>5, <1>6

\* What RegisteredIsUsable says of one entry.
Usable(r, o) ==
  /\ r.digest # "" /\ r.uri # "jumi"
  /\ \/ r.uri # "" \/ r.loc # "none"
     \/ ByOutputName(r.manifest, o).loc = "empty"

\* RegisteredIsUsable entry by entry.
LEMMA UsableEntries ==
  RegisteredIsUsable <=> \A o \in Names : Registered(o) => Usable(registry[o], o)
BY DEF RegisteredIsUsable, Usable

\* What is registered for an output can be checked and fetched.
LEMMA RequestIsUsable ==
  ASSUME NEW m \in Manifests, NEW o, NEW p, Registrable(m, o)
  PROVE  Usable(Request(m, o, p), o) /\ Request(m, o, p).pod = p
<1> DEFINE r == Request(m, o, p)
<1> DEFINE a == ByOutputName(m, o)
<1>1. a \in Artifacts
  BY ByOutputNameFacts DEF Registrable
<1>2. a.digest # "" /\ (ConcreteUri(a) # "" \/ a.loc # "none")
  BY DEF Registrable
<1>3. Request(m, o, p) = [digest |-> a.digest, uri |-> ConcreteUri(a), logical |-> LogicalUri(a),
                          loc |-> toHandoffLocation(a), pod |-> p, manifest |-> m]
  BY DEF Request
<1>4. /\ r.digest = a.digest /\ r.uri = ConcreteUri(a) /\ r.loc = toHandoffLocation(a)
      /\ r.pod = p /\ r.manifest = m /\ ByOutputName(r.manifest, o) = a
  BY <1>3
<1> HIDE DEF a
<1>5. ConcreteUri(a) # "jumi"
  BY DEF ConcreteUri
<1>6. a.loc \in {"none", "empty", "unnamed", "named"}
  BY <1>1 DEF Artifacts
<1>7. a.loc \in {"unnamed", "named"} => toHandoffLocation(a) # "none"
  BY DEF toHandoffLocation
<1> QED BY <1>2, <1>4, <1>5, <1>6, <1>7 DEF Usable


\* RegisteredIsUsable is about what AH holds and nothing else.
LEMMA UsableSame ==
  ASSUME RegisteredIsUsable, UNCHANGED registry
  PROVE  RegisteredIsUsable'
BY DEF RegisteredIsUsable, Registered

\* A step of the cluster before the Job has ended: nothing was read or registered.
LEMMA EarlyPodStep ==
  ASSUME PodInv, job = "active", UNCHANGED <<runner, registry>>, PodsTyped', JobInv'
  PROVE  PodInv'
<1>1. runner.pc \notin {"collect", "register"} /\ \A o \in Names : ~Registered(o)
  BY DEF PodInv, HandInv
<1>2. \A o \in Names : ~Registered(o)'
  BY <1>1, ServiceSame
<1>3. HandInv' /\ SuccessIsPreferred'
  BY <1>1, <1>2 DEF HandInv, SuccessIsPreferred
<1> QED BY <1>3, UsableSame DEF PodInv

\* A step of the cluster that only makes Pods disappear.
LEMMA LatePodStep ==
  ASSUME PodInv, UNCHANGED <<runner, registry, clock>>, job' = job \/ job' # "active",
         DOMAIN pods' = Pods, pods' = [p \in Pods |-> pods'[p]],
         job = "active" => job' = "active",
         \A p \in Pods : \/ pods'[p] = pods[p]
                         \/ pods'[p] = [pods[p] EXCEPT !.main = "gone"]
  PROVE  PodInv'
<1>0. PodsTyped /\ JobInv /\ HandInv /\ SuccessIsPreferred /\ RegisteredIsUsable
  BY DEF PodInv
<1>1. ASSUME NEW p \in Pods
      PROVE  /\ pods'[p] \in [main : MainStates, at : Nat, message : Manifests \cup {NoManifest}]
             /\ pods'[p].at = pods[p].at
             /\ pods'[p].main = pods[p].main \/ pods'[p].main = "gone"
  <2>1. pods[p] \in [main : MainStates, at : Nat, message : Manifests \cup {NoManifest}]
    BY <1>0 DEF PodsTyped
  <2>2. "gone" \in MainStates
    BY DEF MainStates
  <2> QED BY <2>1, <2>2
<1>2. PodsTyped'
  <2> DEFINE R == [main : MainStates, at : Nat, message : Manifests \cup {NoManifest}]
  <2>1. \A p \in Pods : pods'[p] \in R
    BY <1>1
  <2>2. pods' \in [Pods -> R]
    <3> HIDE DEF R
    <3> QED BY <2>1
  <2> QED BY <1>0, <1>1, <2>2 DEF PodsTyped
<1>3. JobInv'
  <2>1. job' # "active" => job # "active"
    OBVIOUS
  <2> QED BY <1>0, <1>1, <2>1 DEF JobInv
<1>4. NoneSucceeded => NoneSucceeded'
  BY <1>1 DEF NoneSucceeded
<1>5. HandInv'
  BY <1>0, <1>1, <1>4, ServiceSame DEF HandInv
<1>6. SuccessIsPreferred'
  <2> SUFFICES ASSUME NEW o \in Names, registry[o] # Absent,
                      pods'[registry[o].pod].main = "preempted"
               PROVE  NoneSucceeded'
    BY DEF SuccessIsPreferred, NoneSucceeded, Registered
  <2>1. registry[o].pod \in Pods
    BY <1>0 DEF HandInv, Registered
  <2>2. pods[registry[o].pod].main = "preempted"
    BY <1>1, <2>1
  <2>3. NoneSucceeded
    BY <1>0, <2>2 DEF SuccessIsPreferred, NoneSucceeded, Registered
  <2> QED BY <1>4, <2>3
<1> QED BY <1>0, <1>2, <1>3, <1>5, <1>6, UsableSame DEF PodInv

\* The cluster keeps the invariant.
LEMMA PodStep ==
  ASSUME PodInv, (\E p \in Pods : PodStarts(p) \/ PodEnds(p) \/ PodRemoved(p)) \/ JobExpires
  PROVE  PodInv'
<1> DEFINE R == [main : MainStates, at : Nat, message : Manifests \cup {NoManifest}]
<1>0. /\ PodsTyped /\ JobInv /\ pods \in [Pods -> R] /\ clock \in Nat
      /\ \A p \in Pods : pods[p].at \in Nat /\ pods[p].at <= clock
  BY DEF PodInv, PodsTyped
<1>1. ASSUME NEW p \in Pods, PodStarts(p) PROVE PodInv'
  <2>1. /\ job = "active" /\ \A q \in Pods : pods[q].main # "running"
        /\ pods' = [pods EXCEPT ![p].main = "running"] /\ UNCHANGED <<clock, job, runner, registry>>
    BY <1>1 DEF PodStarts
  <2>2. "running" \in MainStates
    BY DEF MainStates
  <2>3. /\ pods' \in [Pods -> R] /\ pods'[p].at = pods[p].at
        /\ \A q \in Pods : q # p => pods'[q] = pods[q]
    BY <1>0, <2>1, <2>2
  <2>4. PodsTyped' /\ JobInv'
    BY <1>0, <2>1, <2>3 DEF PodsTyped, JobInv
  <2> QED BY <2>1, <2>4, EarlyPodStep
<1>2. ASSUME NEW p \in Pods, PodEnds(p) PROVE PodInv'
  <2>1. pods[p].main = "running" /\ UNCHANGED <<runner, registry>>
    BY <1>2 DEF PodEnds
  <2>2. PICK result \in {"succeeded", "preempted"}, t \in {clock, clock + 1},
             m \in Manifests \cup {NoManifest} :
          /\ pods' = [pods EXCEPT ![p] = [main |-> result, at |-> t, message |-> m]]
          /\ clock' = t
          /\ job' = IF result = "succeeded" THEN "succeeded" ELSE job
    BY <1>2 DEF PodEnds
  <2>3. job = "active" /\ \A q \in Pods : q # p => pods[q].main # "running"
    BY <1>0, <2>1 DEF JobInv
  <2>4. t \in Nat /\ t >= clock /\ result \in MainStates /\ result # "running"
    BY <1>0 DEF MainStates
  <2>5. [main |-> result, at |-> t, message |-> m] \in R
    BY <2>4
  <2>6. /\ pods' \in [Pods -> R] /\ pods'[p] = [main |-> result, at |-> t, message |-> m]
        /\ \A q \in Pods : q # p => pods'[q] = pods[q]
    <3> HIDE DEF R
    <3> QED BY <1>0, <2>2, <2>5
  <2>7. PodsTyped'
    <3>1. ASSUME NEW q \in Pods PROVE pods'[q].at <= clock'
      BY <1>0, <2>2, <2>4, <2>6
    <3> QED BY <2>2, <2>4, <2>6, <3>1 DEF PodsTyped
  <2>8. JobInv'
    BY <2>3, <2>4, <2>6 DEF JobInv
  <2> QED BY <2>1, <2>3, <2>7, <2>8, EarlyPodStep
<1>3. ASSUME NEW p \in Pods, PodRemoved(p) PROVE PodInv'
  <2>1. pods' = [pods EXCEPT ![p].main = "gone"] /\ UNCHANGED <<clock, job, runner, registry>>
    BY <1>3 DEF PodRemoved
  <2>2. /\ DOMAIN pods' = Pods /\ pods' = [q \in Pods |-> pods'[q]]
        /\ pods'[p] = [pods[p] EXCEPT !.main = "gone"]
        /\ \A q \in Pods : q # p => pods'[q] = pods[q]
    BY <1>0, <2>1
  <2> QED BY <2>1, <2>2, LatePodStep
<1>4. CASE JobExpires
  <2>1. /\ job = "succeeded" /\ job' = "gone" /\ UNCHANGED <<clock, runner, registry>>
        /\ pods' = [p \in Pods |-> [pods[p] EXCEPT !.main = "gone"]]
    BY <1>4 DEF JobExpires
  <2>2. /\ DOMAIN pods' = Pods /\ pods' = [q \in Pods |-> pods'[q]]
        /\ \A q \in Pods : pods'[q] = [pods[q] EXCEPT !.main = "gone"]
    BY <2>1
  <2> QED BY <2>1, <2>2, LatePodStep
<1> QED BY <1>1, <1>2, <1>3, <1>4

\* A step that leaves the cluster and AH alone and does not end with a manifest in
\* hand.
LEMMA HandsOffStep ==
  ASSUME PodInv, UNCHANGED <<pods, clock, job, registry>>, runner'.pc # "register",
         runner'.pc = "collect" => job # "active"
  PROVE  PodInv'
<1>1. PodsTyped' /\ JobInv'
  BY DEF PodInv, PodsTyped, JobInv
<1>2. HandInv'
  BY DEF PodInv, HandInv, Registered
<1>3. SuccessIsPreferred'
  BY DEF PodInv, SuccessIsPreferred, Registered
<1> QED BY <1>1, <1>2, <1>3, UsableSame DEF PodInv


\* Collecting a manifest takes it from the Pod findJobPod picks.
LEMMA CollectPodStep == FinalInv /\ PodInv /\ Collect => PodInv'
<1> SUFFICES ASSUME FinalInv, PodInv, Collect PROVE PodInv'
  OBVIOUS
<1>0. /\ UNCHANGED <<pods, clock, job, registry>> /\ runner.pc = "collect" /\ IsRunner(runner)
      /\ PodsTyped /\ JobInv /\ HandInv /\ SuccessIsPreferred /\ RegisteredIsUsable
      /\ job # "active"
  BY DEF Collect, cluster, service, FinalInv, Shape, PodInv, HandInv
<1> DEFINE p == findJobPod
           m == Observed(p)
<1>1. CASE Goto("defer")
  BY <1>0, <1>1, GotoFacts, HandsOffStep DEF PCs
<1>2. CASE /\ Listed # {} /\ Collectable(m, runner.fresh)
           /\ runner' = [runner EXCEPT !.pc = "register", !.source = p, !.manifest = m, !.next = 1]
  <2>1. p \in Pods /\ (pods[p].main = "preempted" => NoneSucceeded)
    BY <1>0, <1>2, FindJobPodFacts
  <2>2. m \in Manifests
    <3>1. m # NoManifest
      BY <1>2 DEF Collectable
    <3>2. m = pods[p].message
      BY <3>1 DEF Observed, readArtifactsManifest, readArtifactsManifestFromTerminationMessage
    <3>3. pods[p].message \in Manifests \cup {NoManifest}
      BY <1>0, <2>1 DEF PodsTyped
    <3> QED BY <3>1, <3>2, <3>3
  <2> HIDE DEF p, m
  <2>3. runner'.pc = "register" /\ runner'.source = p /\ runner'.manifest = m
    BY <1>0, <1>2, CollectFacts
  <2>4. PodsTyped' /\ JobInv'
    BY <1>0 DEF PodsTyped, JobInv
  <2>5. HandInv'
    BY <1>0, <2>1, <2>2, <2>3 DEF HandInv, NoneSucceeded, Registered
  <2>6. SuccessIsPreferred'
    BY <1>0 DEF SuccessIsPreferred, Registered
  <2> QED BY <1>0, <2>4, <2>5, <2>6, UsableSame DEF PodInv
<1> QED BY <1>1, <1>2 DEF Collect

\* Registering an output records the manifest in hand for it.
LEMMA RegisterPodStep == FinalInv /\ PodInv /\ RegisterOutput => PodInv'
<1> SUFFICES ASSUME FinalInv, PodInv, RegisterOutput PROVE PodInv'
  OBVIOUS
<1> DEFINE o == Outputs[runner.next]
           e == Request(runner.manifest, o, runner.source)
           advance == runner' = [runner EXCEPT !.next = @ + 1]
           call == registry' = [registry EXCEPT ![o] = e]
<1>0. /\ UNCHANGED <<pods, clock, job>> /\ runner.pc = "register" /\ IsRunner(runner)
      /\ PodsTyped /\ JobInv /\ HandInv /\ SuccessIsPreferred /\ RegisteredIsUsable
      /\ job # "active" /\ runner.source \in Pods /\ runner.manifest \in Manifests
      /\ pods[runner.source].main = "preempted" => NoneSucceeded
  BY DEF RegisterOutput, cluster, FinalInv, Shape, PodInv, HandInv
<1>r. /\ DOMAIN registry = Names /\ registry = [x \in Names |-> registry[x]]
      /\ runner.next \in DOMAIN Outputs
  BY DEF FinalInv, Shape, RegisterOutput
<1>1. PodsTyped' /\ JobInv' /\ (NoneSucceeded' <=> NoneSucceeded)
  BY <1>0 DEF PodsTyped, JobInv, NoneSucceeded
<1>2. ASSUME advance \/ Goto("defer")
      PROVE  /\ runner'.pc \in {"register", "defer"}
             /\ runner'.source = runner.source /\ runner'.manifest = runner.manifest
  <2>1. CASE advance
    BY <1>0, <2>1 DEF IsRunner
  <2>2. CASE Goto("defer")
    BY <1>0, <2>2, GotoFacts DEF PCs
  <2> QED BY <1>2, <2>1, <2>2
<1>3. ASSUME UNCHANGED registry, advance \/ Goto("defer") PROVE PodInv'
  <2>1. HandInv'
    BY <1>0, <1>1, <1>2, <1>3, ServiceSame DEF HandInv
  <2>2. SuccessIsPreferred'
    BY <1>0, <1>3 DEF SuccessIsPreferred, Registered
  <2> QED BY <1>0, <1>1, <1>3, <2>1, <2>2, UsableSame DEF PodInv
<1>4. ASSUME o # "", Registrable(runner.manifest, o), call, advance \/ Goto("defer")
      PROVE  PodInv'
  <2>1. o \in Names
    BY <1>r, <1>4 DEF Names
  <2>2. Usable(e, o) /\ e.pod = runner.source
    <3>1. runner.manifest \in Manifests /\ Registrable(runner.manifest, o)
      BY <1>0, <1>4
    <3> HIDE DEF o
    <3> QED BY <3>1, RequestIsUsable, Zenon DEF e
  <2> HIDE DEF e, o
  <2>3. registry'[o] = e /\ \A x \in Names \ {o} : registry'[x] = registry[x]
    BY <1>r, <1>4, <2>1
  <2>4. HandInv'
    <3>1. ASSUME NEW x \in Names, Registered(x)'
          PROVE  job' # "active" /\ registry'[x].pod \in Pods
      <4>1. CASE x = o
        BY <1>0, <2>2, <2>3, <4>1
      <4>2. CASE x # o
        BY <1>0, <2>3, <3>1, <4>2 DEF HandInv, Registered
      <4> QED BY <4>1, <4>2
    <3> QED BY <1>0, <1>1, <1>2, <1>4, <3>1 DEF HandInv
  <2>5. SuccessIsPreferred'
    <3> SUFFICES ASSUME NEW x \in Names, Registered(x)',
                        pods[registry'[x].pod].main = "preempted"
                 PROVE  NoneSucceeded
      BY <1>0 DEF SuccessIsPreferred, NoneSucceeded
    <3>1. CASE x = o
      BY <1>0, <2>2, <2>3, <3>1
    <3>2. CASE x # o
      BY <1>0, <2>3, <3>2 DEF SuccessIsPreferred, Registered, NoneSucceeded
    <3> QED BY <3>1, <3>2
  <2>6. RegisteredIsUsable'
    <3>1. ASSUME NEW x \in Names, Registered(x)' PROVE Usable(registry'[x], x)
      <4>1. CASE x = o
        BY <2>2, <2>3, <4>1
      <4>2. CASE x # o
        <5>1. registry'[x] = registry[x] /\ Registered(x)
          BY <2>3, <3>1, <4>2 DEF Registered
        <5>2. Usable(registry[x], x)
          BY <1>0, <5>1, UsableEntries
        <5> QED BY <5>1, <5>2
      <4> QED BY <4>1, <4>2
    <3> QED BY <3>1 DEF RegisteredIsUsable, Usable
  <2> QED BY <1>1, <2>4, <2>5, <2>6 DEF PodInv
<1>5. \/ UNCHANGED registry /\ (advance \/ Goto("defer"))
      \/ o # "" /\ Registrable(runner.manifest, o) /\ call /\ (advance \/ Goto("defer"))
  BY DEF RegisterOutput
<1> QED BY <1>3, <1>4, <1>5

\* The other steps of the runner, crashes and restarts.
LEMMA OtherPodStep ==
  ASSUME FinalInv, PodInv,
         \/ WaitSucceeds \/ WaitFails \/ CollectFails \/ RegisterDone \/ Notify
         \/ CompleteAttempt \/ SucceedNode \/ Defer \/ Crash \/ Restart
  PROVE  PodInv'
<1>0. UNCHANGED <<pods, clock, job, registry>> /\ IsRunner(runner)
  BY DEF FinalInv, Shape, WaitSucceeds, WaitFails, CollectFails, RegisterDone, Notify,
     CompleteAttempt, SucceedNode, Defer, Crash, Restart, cluster, service
<1>g. ASSUME NEW pc \in PCs \ {"down"}, Goto(pc) PROVE runner'.pc = pc
  BY <1>0, <1>g, GotoFacts
<1>1. CASE WaitSucceeds
  <2>1. job = "succeeded" /\ (Goto("notify") \/ Goto("collect"))
    BY <1>1 DEF WaitSucceeds, Goto
  <2>2. runner'.pc \in {"notify", "collect"}
    BY <1>g, <2>1 DEF PCs
  <2> QED BY <1>0, <2>1, <2>2, HandsOffStep
<1>2. CASE WaitFails \/ CollectFails \/ RegisterDone \/ Notify \/ CompleteAttempt \/ SucceedNode
           \/ Defer
  <2>1. \E pc \in {"ended", "defer", "notify", "complete", "succeed", "done"} : Goto(pc)
    BY <1>2 DEF WaitFails, CollectFails, RegisterDone, Notify, CompleteAttempt, SucceedNode, Defer
  <2>2. runner'.pc \in {"ended", "defer", "notify", "complete", "succeed", "done"}
    BY <1>g, <2>1 DEF PCs
  <2> QED BY <1>0, <2>2, HandsOffStep
<1>3. CASE Crash \/ Restart
  <2>1. runner'.pc \in {"down", "succeed", "wait"}
    BY <1>3 DEF Crash, Restart, Runner
  <2> QED BY <1>0, <2>1, HandsOffStep
<1> QED BY <1>1, <1>2, <1>3

\* The Pods, the manifest in hand and what AH holds stay in the invariant.
LEMMA PodInvariant == Spec => []PodInv
<1>1. Init => PodInv
  <2> SUFFICES ASSUME Init PROVE PodInv
    OBVIOUS
  <2>1. /\ pods = [p \in Pods |-> [main |-> "none", at |-> 0, message |-> NoManifest]]
        /\ clock = 0 /\ job = "active" /\ runner.pc = "wait"
        /\ registry = [o \in Names |-> Absent]
    BY DEF Init, Runner
  <2>2. PodsTyped
    BY <2>1 DEF PodsTyped, MainStates
  <2>3. JobInv
    BY <2>1 DEF JobInv
  <2>4. \A o \in Names : ~Registered(o)
    BY <2>1 DEF Registered
  <2> QED BY <2>1, <2>2, <2>3, <2>4 DEF PodInv, HandInv, SuccessIsPreferred, RegisteredIsUsable
<1>2. FinalInv /\ PodInv /\ [Next]_vars => PodInv'
  <2> SUFFICES ASSUME FinalInv, PodInv, [Next]_vars PROVE PodInv'
    OBVIOUS
  <2>1. CASE UNCHANGED vars
    BY <2>1 DEF vars, PodInv, PodsTyped, JobInv, HandInv, NoneSucceeded, SuccessIsPreferred,
       RegisteredIsUsable, Registered
  <2>2. CASE (\E p \in Pods : PodStarts(p) \/ PodEnds(p) \/ PodRemoved(p)) \/ JobExpires
    BY <2>2, PodStep
  <2>3. CASE RunnerStep
    BY <2>3, CollectPodStep, RegisterPodStep, OtherPodStep DEF RunnerStep
  <2>4. CASE Crash \/ Restart
    BY <2>4, OtherPodStep
  <2> QED BY <2>1, <2>2, <2>3, <2>4 DEF Next
<1> QED BY <1>1, <1>2, FinalInvariant, PTL DEF Spec

\* While the Pod that succeeded exists no output is registered from a preempted one,
\* for any number of Pods, whenever they ended and however they are listed.
THEOREM SucceededPodIsRead == Spec => []SuccessIsPreferred
<1>1. PodInv => SuccessIsPreferred
  BY DEF PodInv
<1> QED BY <1>1, PodInvariant, PTL

\* Whatever AH holds for an output has a digest, no logical URI, and a URI or a
\* location, unless the manifest's location entry had no content.
THEOREM RegisteredOutputsUsable == Spec => []RegisteredIsUsable
<1>1. PodInv => RegisteredIsUsable
  BY DEF PodInv
<1> QED BY <1>1, PodInvariant, PTL

=============================================================================
