------------------------ MODULE NodeExecutionProofs ------------------------
EXTENDS NodeExecution, TLAPS

(***************************************************************************)
(* The theorems of NodeExecution, for every ceiling, retry policy, adapter *)
(* and every number of crashes, Cancel requests and registry faults.       *)
(*                                                                         *)
(* The argument has three layers.  SafetyInv is inductive by itself: the   *)
(* runner works on the node's current attempt, it is on its way to another *)
(* allocation only below the ceiling, and it holds no settled node.        *)
(* SubmissionInv is inductive relative to it when no registry write is     *)
(* lost: what was submitted keeps an anchor in the records.  EarnedInv     *)
(* adds that a success on record has an execution behind it, which is what *)
(* the refinement of NodeContract needs.                                   *)
(***************************************************************************)

\* The labels the runner is sent to are labels; with this the provers need not
\* expand RunnerPCs.
LEMMA Labels ==
  /\ "classify" \in RunnerPCs /\ "allocate" \in RunnerPCs /\ "resume" \in RunnerPCs
  /\ "bindings" \in RunnerPCs /\ "building" \in RunnerPCs
  /\ "resolving" \in RunnerPCs /\ "starting" \in RunnerPCs
  /\ "prepare" \in RunnerPCs /\ "gate" \in RunnerPCs /\ "submit" \in RunnerPCs
  /\ "submitted" \in RunnerPCs /\ "persist" \in RunnerPCs /\ "started" \in RunnerPCs
  /\ "running" \in RunnerPCs /\ "repair" \in RunnerPCs /\ "reattach" \in RunnerPCs
  /\ "identity" \in RunnerPCs /\ "attach" \in RunnerPCs /\ "attached" \in RunnerPCs
  /\ "wait" \in RunnerPCs /\ "register" \in RunnerPCs /\ "notify" \in RunnerPCs
  /\ "complete" \in RunnerPCs /\ "succeed" \in RunnerPCs /\ "defer" \in RunnerPCs
  /\ "fail" \in RunnerPCs /\ "reattempt" \in RunnerPCs /\ "reset" \in RunnerPCs
  /\ "failed" \in RunnerPCs /\ "cancelAttempt" \in RunnerPCs
  /\ "cancelNode" \in RunnerPCs /\ "cancelBare" \in RunnerPCs
  /\ "notifyFailed" \in RunnerPCs /\ "notifyCanceled" \in RunnerPCs
  /\ "idle" \in RunnerPCs /\ "unresolved" \in RunnerPCs /\ "done" \in RunnerPCs
BY DEF RunnerPCs, PreFencePCs, PostFencePCs, EndPCs

\* The registry operations that set one field of an attempt keep the records
\* well-formed.
LEMMA AttemptFlags ==
  ASSUME NEW f \in [Attempts -> AttemptRecord], NEW k
  PROVE  /\ OpenedAttempts(f, k) \in [Attempts -> AttemptRecord]
         /\ HandleAttempts(f, k) \in [Attempts -> AttemptRecord]
         /\ IntentAttempts(f, k) \in [Attempts -> AttemptRecord]
         /\ ReattemptableAttempts(f, k) \in [Attempts -> AttemptRecord]
         /\ ProcessCompletedAttempts(f, k) \in [Attempts -> AttemptRecord]
BY DEF AttemptRecord, OpenedAttempts, HandleAttempts, IntentAttempts,
       ReattemptableAttempts, ProcessCompletedAttempts

\* So does UpsertAttempt with each of the records the executor passes to it.
LEMMA AttemptUpserts ==
  ASSUME NEW f \in [Attempts -> AttemptRecord], NEW k
  PROVE  /\ Upserted(f, k, NewAttempt("Prepared", "none")) \in [Attempts -> AttemptRecord]
         /\ Upserted(f, k, NewAttempt("Started", "none")) \in [Attempts -> AttemptRecord]
         /\ Upserted(f, k, NewAttempt("Completed", "finished")) \in [Attempts -> AttemptRecord]
         /\ Upserted(f, k, NewAttempt("Errored", "failed")) \in [Attempts -> AttemptRecord]
         /\ Upserted(f, k, NewAttempt("Errored", "canceled")) \in [Attempts -> AttemptRecord]
BY DEF Upserted, NewAttempt, AttemptRecord, AttemptStatuses, StopCauses

-----------------------------------------------------------------------------
(* Layer 1: types, the ceiling and the finality of outcomes                *)

\* Every step keeps the types.  Allocate is the one that needs more than types:
\* only RealizationInv says that there is a number left for another attempt.
LEMMA TypeStep == SafetyInv /\ [Next]_vars => TypeOK'
<1> SUFFICES ASSUME TypeOK, RunnerInv, RealizationInv, [Next]_vars PROVE TypeOK'
  BY DEF SafetyInv
<1>1. ASSUME BeginRun PROVE TypeOK'
  <2>1. active' \in ActiveRecord
    BY <1>1
    DEF BeginRun, TypeOK, ActiveRecord, ActivePCs
  <2>2. bounds' \in Bounds
    BY <1>1, ParameterAssumption
    DEF BeginRun, TypeOK, StoreFault, Bounds
  <2> QED BY <1>1, <2>1, <2>2 DEF TypeOK, BeginRun, durable, external
<1>2. ASSUME SetRunRunning PROVE TypeOK'
  <2>1. run' \in RunStatuses
    BY <1>2
    DEF SetRunRunning, TypeOK, StoreFault, RunStatuses
  <2>2. active' \in ActiveRecord
    BY <1>2
    DEF SetRunRunning, TypeOK, ActiveRecord, ActivePCs
  <2>3. bounds' \in Bounds
    BY <1>2, ParameterAssumption
    DEF SetRunRunning, TypeOK, StoreFault, Bounds
  <2> QED BY <1>2, <2>1, <2>2, <2>3 DEF TypeOK, SetRunRunning, durable, external
<1>3. ASSUME GraphNotStarted PROVE TypeOK'
  <2>1. active' \in ActiveRecord
    BY <1>3
    DEF GraphNotStarted, TypeOK, ActiveRecord, ActivePCs
  <2> QED BY <1>3, <2>1 DEF TypeOK, GraphNotStarted, durable, external
<1>4. ASSUME GraphSucceeds PROVE TypeOK'
  <2>1. active' \in ActiveRecord
    BY <1>4
    DEF GraphSucceeds, TypeOK, ActiveRecord, ActivePCs
  <2> QED BY <1>4, <2>1 DEF TypeOK, GraphSucceeds, durable, external
<1>5. ASSUME GraphFails PROVE TypeOK'
  <2>1. active' \in ActiveRecord
    BY <1>5
    DEF GraphFails, TypeOK, ActiveRecord, ActivePCs
  <2> QED BY <1>5, <2>1 DEF TypeOK, GraphFails, durable, external
<1>6. ASSUME FastFail PROVE TypeOK'
  <2>1. active' \in ActiveRecord
    BY <1>6
    DEF FastFail, TypeOK, ActiveRecord, ActivePCs
  <2>2. jobs' \in [Attempts -> JobStates]
    BY <1>6
    DEF FastFail, TypeOK, CancelNodeSucceeds, CancelNodeFails, JobStates
  <2> QED BY <1>6, <2>1, <2>2 DEF TypeOK, FastFail, durable, external
<1>7. ASSUME SkipPending PROVE TypeOK'
  <2>1. node' \in NodeRecord
    BY <1>7
    DEF SkipPending, TypeOK, BestEffortNode, NodeRecord, NodeStatuses
  <2>2. active' \in ActiveRecord
    BY <1>7
    DEF SkipPending, TypeOK, ActiveRecord, ActivePCs
  <2>3. bounds' \in Bounds
    BY <1>7, ParameterAssumption
    DEF SkipPending, TypeOK, BestEffortNode, StoreFault, Bounds
  <2> QED BY <1>7, <2>1, <2>2, <2>3 DEF TypeOK, SkipPending, durable, external
<1>8. ASSUME FinalizeRead PROVE TypeOK'
  <2>1. active' \in ActiveRecord
    BY <1>8
    DEF FinalizeRead, TypeOK, FinalStatus, RunStatuses, ActiveRecord,
        ActivePCs
  <2> QED BY <1>8, <2>1 DEF TypeOK, FinalizeRead, durable, external
<1>9. ASSUME FinalizeWrite PROVE TypeOK'
  <2>1. run' \in RunStatuses
    BY <1>9
    DEF FinalizeWrite, TypeOK, ActiveRecord, RunStatuses
  <2>2. active' \in ActiveRecord
    BY <1>9
    DEF FinalizeWrite, TypeOK, ActiveRecord, ActivePCs
  <2> QED BY <1>9, <2>1, <2>2 DEF TypeOK, FinalizeWrite, durable, external
<1>10. ASSUME FinalizeError PROVE TypeOK'
  <2>1. run' \in RunStatuses
    BY <1>10
    DEF FinalizeError, TypeOK, RunStatuses
  <2>2. active' \in ActiveRecord
    BY <1>10
    DEF FinalizeError, TypeOK, ActiveRecord, ActivePCs
  <2>3. bounds' \in Bounds
    BY <1>10, ParameterAssumption
    DEF FinalizeError, TypeOK, StoreFault, Bounds
  <2> QED BY <1>10, <2>1, <2>2, <2>3 DEF TypeOK, FinalizeError, durable, external
<1>11. ASSUME HandoffFinalize PROVE TypeOK'
  <2>1. run' \in RunStatuses
    BY <1>11
    DEF HandoffFinalize, TypeOK, RunStatuses
  <2>2. active' \in ActiveRecord
    BY <1>11
    DEF HandoffFinalize, TypeOK, ActiveRecord, ActivePCs
  <2> QED BY <1>11, <2>1, <2>2 DEF TypeOK, HandoffFinalize, durable, external
<1>12. ASSUME DriveEnds PROVE TypeOK'
  <2>1. active' \in ActiveRecord
    BY <1>12
    DEF DriveEnds, TypeOK, ActiveRecord, ActivePCs
  <2> QED BY <1>12, <2>1 DEF TypeOK, DriveEnds, durable, external
<1>13. ASSUME CancelSignal PROVE TypeOK'
  <2>1. active' \in ActiveRecord
    BY <1>13
    DEF CancelSignal, TypeOK, ActiveRecord, ActivePCs
  <2>2. cx' \in CancelPCs
    BY <1>13
    DEF CancelSignal, TypeOK, CancelPCs
  <2> QED BY <1>13, <2>1, <2>2 DEF TypeOK, CancelSignal, durable, external
<1>14. ASSUME CancelJobs PROVE TypeOK'
  <2>1. jobs' \in [Attempts -> JobStates]
    BY <1>14
    DEF CancelJobs, TypeOK, CancelNodeSucceeds, CancelNodeFails, JobStates
  <2>2. cx' \in CancelPCs
    BY <1>14
    DEF CancelJobs, TypeOK, CancelPCs
  <2> QED BY <1>14, <2>1, <2>2 DEF TypeOK, CancelJobs, durable, external
<1>15. ASSUME CancelUpdateNode PROVE TypeOK'
  <2>1. node' \in NodeRecord
    BY <1>15
    DEF CancelUpdateNode, TypeOK, NodeRecord, NodeStatuses
  <2>2. cx' \in CancelPCs
    BY <1>15
    DEF CancelUpdateNode, TypeOK, CancelPCs
  <2> QED BY <1>15, <2>1, <2>2 DEF TypeOK, CancelUpdateNode, durable, external
<1>16. ASSUME CancelPersistIntent PROVE TypeOK'
  <2>1. attempts' \in [Attempts -> AttemptRecord]
    BY <1>16, AttemptFlags
    DEF CancelPersistIntent, TypeOK
  <2>2. cx' \in CancelPCs
    BY <1>16
    DEF CancelPersistIntent, TypeOK, CancelPCs
  <2> QED BY <1>16, <2>1, <2>2 DEF TypeOK, CancelPersistIntent, durable, external
<1>17. ASSUME CancelAbandoned PROVE TypeOK'
  <2>1. cx' \in CancelPCs
    BY <1>17
    DEF CancelAbandoned, TypeOK, CancelPCs
  <2> QED BY <1>17, <2>1 DEF TypeOK, CancelAbandoned, durable, external
<1>18. ASSUME RunnerStart PROVE TypeOK'
  <2>1. runner' \in RunnerRecord
    BY <1>18, Labels
    DEF RunnerStart, TypeOK, RunnerRecord
  <2> QED BY <1>18, <2>1 DEF TypeOK, RunnerStart, durable, external
<1>19. ASSUME Classify PROVE TypeOK'
  <2>1. runner' \in RunnerRecord
    BY <1>19, Labels
    DEF Classify, TypeOK, NodeRecord, RunNext, DriveNext, ClassifyReconcile,
        RunnerRecord
  <2> QED BY <1>19, <2>1 DEF TypeOK, Classify, durable, external
<1>20. ASSUME RepairProjection PROVE TypeOK'
  <2>1. node' \in NodeRecord
    BY <1>20
    DEF RepairProjection, TypeOK, BestEffortNode, NodeStatusFromAttempt, NoId,
        NodeRecord, NodeStatuses
  <2>2. runner' \in RunnerRecord
    BY <1>20, Labels
    DEF RepairProjection, TypeOK, Return, NoRunner, RunnerRecord
  <2>3. active' \in ActiveRecord
    BY <1>20
    DEF RepairProjection, TypeOK, Return, NoRunner, NoId, ActiveRecord,
        ActivePCs
  <2>4. bounds' \in Bounds
    BY <1>20, ParameterAssumption
    DEF RepairProjection, TypeOK, BestEffortNode, StoreFault, Bounds
  <2> QED BY <1>20, <2>1, <2>2, <2>3, <2>4 DEF TypeOK, RepairProjection, durable, external
<1>21. ASSUME Allocate PROVE TypeOK'
  <2>1. /\ node.realized + 1 \in Attempts
        /\ node.realized + 1 \in 0 .. Ceiling + 1
    BY <1>21, CeilingAssumption DEF Allocate, At, RealizationInv, TypeOK, NodeRecord, Attempts
  <2>2. CASE MayAllocate(node, attempts)
    <3>1. node' \in NodeRecord
      BY <1>21, <2>1, <2>2
      DEF Allocate, AllocatedNode, NextAttempt, TypeOK, NodeRecord, NodeStatuses
    <3>2. attempts' \in [Attempts -> AttemptRecord]
      BY <1>21, <2>2, AttemptUpserts DEF Allocate, TypeOK
    <3>3. runner' \in RunnerRecord
      BY <1>21, <2>1, <2>2, Labels DEF Allocate, NextAttempt, AfterReady, TypeOK, RunnerRecord
    <3> QED BY <1>21, <2>2, <3>1, <3>2, <3>3 DEF TypeOK, Allocate, external
  <2>3. CASE ~MayAllocate(node, attempts)
    <3>1. runner' \in RunnerRecord
      BY <1>21, <2>3, Labels DEF Allocate, Return, NoRunner, RunnerRecord
    <3>2. active' \in ActiveRecord
      BY <1>21, <2>3 DEF Allocate, Return, TypeOK, ActiveRecord, NoId
    <3> QED BY <1>21, <2>3, <3>1, <3>2 DEF TypeOK, Allocate, external
  <2> QED BY <2>2, <2>3
<1>22. ASSUME Resume PROVE TypeOK'
  <2>1. node' \in NodeRecord
    BY <1>22
    DEF Resume, TypeOK, SetNodeStatus, NodeRecord, NodeStatuses
  <2>2. runner' \in RunnerRecord
    BY <1>22, Labels
    DEF Resume, TypeOK, Goto, AfterReady, RunnerRecord
  <2> QED BY <1>22, <2>1, <2>2 DEF TypeOK, Resume, durable, external
<1>23. ASSUME EnvKeysCollide PROVE TypeOK'
  <2>1. attempts' \in [Attempts -> AttemptRecord]
    BY <1>23, AttemptUpserts
    DEF EnvKeysCollide, TypeOK, AttemptErrs, BestEffortAttempts
  <2>2. runner' \in RunnerRecord
    BY <1>23, Labels
    DEF EnvKeysCollide, TypeOK, AttemptErrs, RunnerRecord
  <2>3. bounds' \in Bounds
    BY <1>23, ParameterAssumption
    DEF EnvKeysCollide, TypeOK, AttemptErrs, BestEffortAttempts, StoreFault,
        Bounds
  <2> QED BY <1>23, <2>1, <2>2, <2>3 DEF TypeOK, EnvKeysCollide, AttemptErrs, durable, external
<1>24. ASSUME BuildBindings PROVE TypeOK'
  <2>1. node' \in NodeRecord
    BY <1>24
    DEF BuildBindings, TypeOK, SetNodeStatus, NodeRecord, NodeStatuses
  <2>2. runner' \in RunnerRecord
    BY <1>24, Labels
    DEF BuildBindings, TypeOK, Goto, RunnerRecord
  <2> QED BY <1>24, <2>1, <2>2 DEF TypeOK, BuildBindings, durable, external
<1>25. ASSUME ResolveInputs PROVE TypeOK'
  <2>1. node' \in NodeRecord
    BY <1>25
    DEF ResolveInputs, TypeOK, SetNodeStatus, NodeRecord, NodeStatuses
  <2>2. runner' \in RunnerRecord
    BY <1>25, Labels
    DEF ResolveInputs, TypeOK, Goto, RunnerRecord
  <2> QED BY <1>25, <2>1, <2>2 DEF TypeOK, ResolveInputs, durable, external
<1>26. ASSUME InputsFail PROVE TypeOK'
  <2>1. attempts' \in [Attempts -> AttemptRecord]
    BY <1>26, AttemptUpserts
    DEF InputsFail, TypeOK, AttemptErrs, BestEffortAttempts
  <2>2. runner' \in RunnerRecord
    BY <1>26, Labels
    DEF InputsFail, TypeOK, AttemptErrs, RunnerRecord
  <2>3. bounds' \in Bounds
    BY <1>26, ParameterAssumption
    DEF InputsFail, TypeOK, AttemptErrs, BestEffortAttempts, StoreFault,
        Bounds
  <2> QED BY <1>26, <2>1, <2>2, <2>3 DEF TypeOK, InputsFail, AttemptErrs, durable, external
<1>27. ASSUME SetStarting PROVE TypeOK'
  <2>1. node' \in NodeRecord
    BY <1>27
    DEF SetStarting, TypeOK, SetNodeStatus, NodeRecord, NodeStatuses
  <2>2. runner' \in RunnerRecord
    BY <1>27, Labels
    DEF SetStarting, TypeOK, Goto, RunnerRecord
  <2> QED BY <1>27, <2>1, <2>2 DEF TypeOK, SetStarting, durable, external
<1>28. ASSUME PrepareFails PROVE TypeOK'
  <2>1. attempts' \in [Attempts -> AttemptRecord]
    BY <1>28, AttemptUpserts
    DEF PrepareFails, TypeOK, AttemptErrs, BestEffortAttempts
  <2>2. runner' \in RunnerRecord
    BY <1>28, Labels
    DEF PrepareFails, TypeOK, AttemptErrs, RunnerRecord
  <2>3. bounds' \in Bounds
    BY <1>28, ParameterAssumption
    DEF PrepareFails, TypeOK, AttemptErrs, BestEffortAttempts, StoreFault,
        Bounds
  <2> QED BY <1>28, <2>1, <2>2, <2>3 DEF TypeOK, PrepareFails, AttemptErrs, durable, external
<1>29. ASSUME SetReleasing PROVE TypeOK'
  <2>1. node' \in NodeRecord
    BY <1>29
    DEF SetReleasing, TypeOK, SetNodeStatus, NodeRecord, NodeStatuses
  <2>2. runner' \in RunnerRecord
    BY <1>29, Labels
    DEF SetReleasing, TypeOK, Goto, RunnerRecord
  <2> QED BY <1>29, <2>1, <2>2 DEF TypeOK, SetReleasing, durable, external
<1>30. ASSUME OpenAttempt PROVE TypeOK'
  <2>1. node' \in NodeRecord
    BY <1>30
    DEF OpenAttempt, TypeOK, OpenedNode, NodeRecord, NodeStatuses
  <2>2. attempts' \in [Attempts -> AttemptRecord]
    BY <1>30, AttemptUpserts, AttemptFlags
    DEF OpenAttempt, TypeOK, BestEffortAttempts
  <2>3. runner' \in RunnerRecord
    BY <1>30, Labels
    DEF OpenAttempt, TypeOK, Goto, RunnerRecord
  <2>4. bounds' \in Bounds
    BY <1>30, ParameterAssumption
    DEF OpenAttempt, TypeOK, BestEffortAttempts, StoreFault, Bounds
  <2> QED BY <1>30, <2>1, <2>2, <2>3, <2>4 DEF TypeOK, OpenAttempt, durable, external
<1>31. ASSUME OpenFails PROVE TypeOK'
  <2>1. attempts' \in [Attempts -> AttemptRecord]
    BY <1>31, AttemptUpserts
    DEF OpenFails, TypeOK
  <2>2. runner' \in RunnerRecord
    BY <1>31, Labels
    DEF OpenFails, TypeOK, RunnerRecord
  <2>3. bounds' \in Bounds
    BY <1>31, ParameterAssumption
    DEF OpenFails, TypeOK, StoreFault, Bounds
  <2> QED BY <1>31, <2>1, <2>2, <2>3 DEF TypeOK, OpenFails, durable, external
<1>32. ASSUME StartNode PROVE TypeOK'
  <2>1. runner' \in RunnerRecord
    BY <1>32, Labels
    DEF StartNode, TypeOK, Goto, RunnerRecord
  <2>2. jobs' \in [Attempts -> JobStates]
    BY <1>32
    DEF StartNode, TypeOK, JobStates
  <2>3. execs' \in Nat
    BY <1>32
    DEF StartNode, TypeOK
  <2> QED BY <1>32, <2>1, <2>2, <2>3 DEF TypeOK, StartNode, durable, external
<1>33. ASSUME StartNodeFails PROVE TypeOK'
  <2>1. runner' \in RunnerRecord
    BY <1>33, Labels
    DEF StartNodeFails, TypeOK, Goto, RunnerRecord
  <2> QED BY <1>33, <2>1 DEF TypeOK, StartNodeFails, durable, external
<1>34. ASSUME RegisterHandle PROVE TypeOK'
  <2>1. active' \in ActiveRecord
    BY <1>34
    DEF RegisterHandle, TypeOK, RunnerRecord, ActiveRecord, ActivePCs
  <2>2. runner' \in RunnerRecord
    BY <1>34, Labels
    DEF RegisterHandle, TypeOK, Goto, RunnerRecord
  <2> QED BY <1>34, <2>1, <2>2 DEF TypeOK, RegisterHandle, durable, external
<1>35. ASSUME PersistHandle PROVE TypeOK'
  <2>1. node' \in NodeRecord
    BY <1>35
    DEF PersistHandle, TypeOK, RunnerRecord, HandleNode, NodeRecord,
        NodeStatuses
  <2>2. attempts' \in [Attempts -> AttemptRecord]
    BY <1>35, AttemptFlags
    DEF PersistHandle, TypeOK
  <2>3. runner' \in RunnerRecord
    BY <1>35, Labels
    DEF PersistHandle, TypeOK, Goto, RunnerRecord
  <2>4. bounds' \in Bounds
    BY <1>35, ParameterAssumption
    DEF PersistHandle, TypeOK, StoreFault, Bounds
  <2> QED BY <1>35, <2>1, <2>2, <2>3, <2>4 DEF TypeOK, PersistHandle, durable, external
<1>36. ASSUME UpsertStarted PROVE TypeOK'
  <2>1. attempts' \in [Attempts -> AttemptRecord]
    BY <1>36, AttemptUpserts
    DEF UpsertStarted, TypeOK, BestEffortAttempts
  <2>2. runner' \in RunnerRecord
    BY <1>36, Labels
    DEF UpsertStarted, TypeOK, Goto, RunnerRecord
  <2>3. bounds' \in Bounds
    BY <1>36, ParameterAssumption
    DEF UpsertStarted, TypeOK, BestEffortAttempts, StoreFault, Bounds
  <2> QED BY <1>36, <2>1, <2>2, <2>3 DEF TypeOK, UpsertStarted, durable, external
<1>37. ASSUME MarkRunning PROVE TypeOK'
  <2>1. node' \in NodeRecord
    BY <1>37
    DEF MarkRunning, TypeOK, SetNodeStatus, NodeRecord, NodeStatuses
  <2>2. runner' \in RunnerRecord
    BY <1>37, Labels
    DEF MarkRunning, TypeOK, Goto, RunnerRecord
  <2> QED BY <1>37, <2>1, <2>2 DEF TypeOK, MarkRunning, durable, external
<1>38. ASSUME Reattach PROVE TypeOK'
  <2>1. active' \in ActiveRecord
    BY <1>38
    DEF Reattach, TypeOK, NodeRecord, Goto, ActiveRecord, ActivePCs
  <2>2. runner' \in RunnerRecord
    BY <1>38, Labels
    DEF Reattach, TypeOK, Goto, RunnerRecord
  <2>3. jobs' \in [Attempts -> JobStates]
    BY <1>38
    DEF Reattach, TypeOK, CancelNodeSucceeds, CancelNodeFails, JobStates
  <2> QED BY <1>38, <2>1, <2>2, <2>3 DEF TypeOK, Reattach, durable, external
<1>39. ASSUME IdentityFound PROVE TypeOK'
  <2>1. runner' \in RunnerRecord
    BY <1>39, Labels
    DEF IdentityFound, TypeOK, Goto, RunnerRecord
  <2> QED BY <1>39, <2>1 DEF TypeOK, IdentityFound, durable, external
<1>40. ASSUME IdentityUnresolved PROVE TypeOK'
  <2>1. runner' \in RunnerRecord
    BY <1>40, Labels
    DEF IdentityUnresolved, TypeOK, Goto, RunnerRecord
  <2> QED BY <1>40, <2>1 DEF TypeOK, IdentityUnresolved, durable, external
<1>41. ASSUME AttachPersist PROVE TypeOK'
  <2>1. node' \in NodeRecord
    BY <1>41
    DEF AttachPersist, TypeOK, RunnerRecord, HandleNode, NodeRecord,
        NodeStatuses
  <2>2. attempts' \in [Attempts -> AttemptRecord]
    BY <1>41, AttemptFlags
    DEF AttachPersist, TypeOK
  <2>3. runner' \in RunnerRecord
    BY <1>41, Labels
    DEF AttachPersist, TypeOK, Goto, RunnerRecord
  <2>4. bounds' \in Bounds
    BY <1>41, ParameterAssumption
    DEF AttachPersist, TypeOK, StoreFault, Bounds
  <2> QED BY <1>41, <2>1, <2>2, <2>3, <2>4 DEF TypeOK, AttachPersist, durable, external
<1>42. ASSUME AttachWait PROVE TypeOK'
  <2>1. active' \in ActiveRecord
    BY <1>42
    DEF AttachWait, TypeOK, RunnerRecord, Goto, ActiveRecord, ActivePCs
  <2>2. runner' \in RunnerRecord
    BY <1>42, Labels
    DEF AttachWait, TypeOK, Goto, RunnerRecord
  <2>3. jobs' \in [Attempts -> JobStates]
    BY <1>42
    DEF AttachWait, TypeOK, CancelNodeSucceeds, CancelNodeFails, JobStates
  <2>4. bounds' \in Bounds
    BY <1>42, ParameterAssumption
    DEF AttachWait, TypeOK, IsRunCanceled, StoreFault, Bounds
  <2> QED BY <1>42, <2>1, <2>2, <2>3, <2>4 DEF TypeOK, AttachWait, durable, external
<1>43. ASSUME WaitSucceeded PROVE TypeOK'
  <2>1. runner' \in RunnerRecord
    BY <1>43, Labels
    DEF WaitSucceeded, TypeOK, Goto, RunnerRecord
  <2> QED BY <1>43, <2>1 DEF TypeOK, WaitSucceeded, durable, external
<1>44. ASSUME WaitFailed PROVE TypeOK'
  <2>1. attempts' \in [Attempts -> AttemptRecord]
    BY <1>44, AttemptUpserts
    DEF WaitFailed, TypeOK, AttemptErrs, BestEffortAttempts
  <2>2. runner' \in RunnerRecord
    BY <1>44, Labels
    DEF WaitFailed, TypeOK, AttemptErrs, RunnerRecord
  <2>3. bounds' \in Bounds
    BY <1>44, ParameterAssumption
    DEF WaitFailed, TypeOK, AttemptErrs, BestEffortAttempts, StoreFault,
        Bounds
  <2> QED BY <1>44, <2>1, <2>2, <2>3 DEF TypeOK, WaitFailed, AttemptErrs, durable, external
<1>45. ASSUME WaitError PROVE TypeOK'
  <2>1. runner' \in RunnerRecord
    BY <1>45, Labels
    DEF WaitError, TypeOK, Goto, RunnerRecord
  <2>2. bounds' \in Bounds
    BY <1>45, ParameterAssumption
    DEF WaitError, TypeOK, IsRunCanceled, StoreFault, Bounds
  <2> QED BY <1>45, <2>1, <2>2 DEF TypeOK, WaitError, durable, external
<1>46. ASSUME RegisterOutputs PROVE TypeOK'
  <2>1. told' \in SUBSET (Attempts \X Facts)
    BY <1>46
    DEF RegisterOutputs, TypeOK, RunnerInv, RunnerRecord, At, NotifyErrs,
        Facts
  <2>2. runner' \in RunnerRecord
    BY <1>46, Labels
    DEF RegisterOutputs, TypeOK, Goto, RunnerRecord
  <2> QED BY <1>46, <2>1, <2>2 DEF TypeOK, RegisterOutputs, durable, external
<1>47. ASSUME NotifySucceeded PROVE TypeOK'
  <2>1. told' \in SUBSET (Attempts \X Facts)
    BY <1>47
    DEF NotifySucceeded, TypeOK, RunnerInv, RunnerRecord, At, NotifyErrs,
        Facts
  <2>2. runner' \in RunnerRecord
    BY <1>47, Labels
    DEF NotifySucceeded, TypeOK, Goto, RunnerRecord
  <2> QED BY <1>47, <2>1, <2>2 DEF TypeOK, NotifySucceeded, durable, external
<1>48. ASSUME CompleteAttempt PROVE TypeOK'
  <2>1. attempts' \in [Attempts -> AttemptRecord]
    BY <1>48, AttemptUpserts
    DEF CompleteAttempt, TypeOK, BestEffortAttempts
  <2>2. runner' \in RunnerRecord
    BY <1>48, Labels
    DEF CompleteAttempt, TypeOK, Goto, RunnerRecord
  <2>3. bounds' \in Bounds
    BY <1>48, ParameterAssumption
    DEF CompleteAttempt, TypeOK, BestEffortAttempts, StoreFault, Bounds
  <2> QED BY <1>48, <2>1, <2>2, <2>3 DEF TypeOK, CompleteAttempt, durable, external
<1>49. ASSUME SucceedNode PROVE TypeOK'
  <2>1. node' \in NodeRecord
    BY <1>49
    DEF SucceedNode, TypeOK, NoId, NodeRecord, NodeStatuses
  <2>2. runner' \in RunnerRecord
    BY <1>49, Labels
    DEF SucceedNode, TypeOK, Return, NoRunner, RunnerRecord
  <2>3. active' \in ActiveRecord
    BY <1>49
    DEF SucceedNode, TypeOK, Return, NoRunner, NoId, ActiveRecord, ActivePCs
  <2> QED BY <1>49, <2>1, <2>2, <2>3 DEF TypeOK, SucceedNode, durable, external
<1>50. ASSUME DeferFinalization PROVE TypeOK'
  <2>1. attempts' \in [Attempts -> AttemptRecord]
    BY <1>50, AttemptFlags
    DEF DeferFinalization, TypeOK, BestEffortAttempts
  <2>2. runner' \in RunnerRecord
    BY <1>50, Labels
    DEF DeferFinalization, TypeOK, Goto, RunnerRecord
  <2>3. bounds' \in Bounds
    BY <1>50, ParameterAssumption
    DEF DeferFinalization, TypeOK, BestEffortAttempts, StoreFault, Bounds
  <2> QED BY <1>50, <2>1, <2>2, <2>3 DEF TypeOK, DeferFinalization, durable, external
<1>51. ASSUME Unresolved PROVE TypeOK'
  <2>1. active' \in ActiveRecord
    BY <1>51
    DEF Unresolved, TypeOK, NoId, ActiveRecord, ActivePCs
  <2>2. runner' \in RunnerRecord
    BY <1>51, Labels
    DEF Unresolved, TypeOK, NoRunner, RunnerRecord
  <2> QED BY <1>51, <2>1, <2>2 DEF TypeOK, Unresolved, durable, external
<1>52. ASSUME FailNode PROVE TypeOK'
  <2>1. runner' \in RunnerRecord
    BY <1>52, Labels
    DEF FailNode, TypeOK, Goto, FailNext, RunnerRecord
  <2>2. bounds' \in Bounds
    BY <1>52, ParameterAssumption
    DEF FailNode, TypeOK, IsRunCanceled, StoreFault, Bounds
  <2> QED BY <1>52, <2>1, <2>2 DEF TypeOK, FailNode, durable, external
<1>53. ASSUME FailUncounted PROVE TypeOK'
  <2>1. runner' \in RunnerRecord
    BY <1>53, Labels
    DEF FailUncounted, TypeOK, Goto, RunnerRecord
  <2>2. bounds' \in Bounds
    BY <1>53, ParameterAssumption
    DEF FailUncounted, TypeOK, StoreFault, Bounds
  <2> QED BY <1>53, <2>1, <2>2 DEF TypeOK, FailUncounted, durable, external
<1>54. ASSUME MarkReattemptable PROVE TypeOK'
  <2>1. attempts' \in [Attempts -> AttemptRecord]
    BY <1>54, AttemptFlags
    DEF MarkReattemptable, TypeOK, BestEffortAttempts
  <2>2. runner' \in RunnerRecord
    BY <1>54, Labels
    DEF MarkReattemptable, TypeOK, Goto, RunnerRecord
  <2>3. bounds' \in Bounds
    BY <1>54, ParameterAssumption
    DEF MarkReattemptable, TypeOK, BestEffortAttempts, StoreFault, Bounds
  <2> QED BY <1>54, <2>1, <2>2, <2>3 DEF TypeOK, MarkReattemptable, durable, external
<1>55. ASSUME ResetNode PROVE TypeOK'
  <2>1. node' \in NodeRecord
    BY <1>55
    DEF ResetNode, TypeOK, BestEffortNode, NoId, NodeRecord, NodeStatuses
  <2>2. runner' \in RunnerRecord
    BY <1>55, Labels
    DEF ResetNode, TypeOK, Goto, RunnerRecord
  <2>3. bounds' \in Bounds
    BY <1>55, ParameterAssumption
    DEF ResetNode, TypeOK, BestEffortNode, StoreFault, Bounds
  <2> QED BY <1>55, <2>1, <2>2, <2>3 DEF TypeOK, ResetNode, durable, external
<1>56. ASSUME TerminalizeFailed PROVE TypeOK'
  <2>1. node' \in NodeRecord
    BY <1>56
    DEF TerminalizeFailed, TypeOK, BestEffortNode, NoId, NodeRecord,
        NodeStatuses
  <2>2. runner' \in RunnerRecord
    BY <1>56, Labels
    DEF TerminalizeFailed, TypeOK, Goto, RunnerRecord
  <2>3. bounds' \in Bounds
    BY <1>56, ParameterAssumption
    DEF TerminalizeFailed, TypeOK, BestEffortNode, StoreFault, Bounds
  <2> QED BY <1>56, <2>1, <2>2, <2>3 DEF TypeOK, TerminalizeFailed, durable, external
<1>57. ASSUME NotifyFailed PROVE TypeOK'
  <2>1. told' \in SUBSET (Attempts \X Facts)
    BY <1>57
    DEF NotifyFailed, TypeOK, RunnerInv, RunnerRecord, At, Notify, Facts
  <2>2. runner' \in RunnerRecord
    BY <1>57, Labels
    DEF NotifyFailed, TypeOK, Return, NoRunner, RunnerRecord
  <2>3. active' \in ActiveRecord
    BY <1>57
    DEF NotifyFailed, TypeOK, Return, NoRunner, NoId, ActiveRecord, ActivePCs
  <2> QED BY <1>57, <2>1, <2>2, <2>3 DEF TypeOK, NotifyFailed, durable, external
<1>58. ASSUME CancelAttempt PROVE TypeOK'
  <2>1. attempts' \in [Attempts -> AttemptRecord]
    BY <1>58, AttemptUpserts
    DEF CancelAttempt, TypeOK, BestEffortAttempts
  <2>2. runner' \in RunnerRecord
    BY <1>58, Labels
    DEF CancelAttempt, TypeOK, Goto, RunnerRecord
  <2>3. bounds' \in Bounds
    BY <1>58, ParameterAssumption
    DEF CancelAttempt, TypeOK, BestEffortAttempts, StoreFault, Bounds
  <2> QED BY <1>58, <2>1, <2>2, <2>3 DEF TypeOK, CancelAttempt, durable, external
<1>59. ASSUME CancelNodeRecord PROVE TypeOK'
  <2>1. node' \in NodeRecord
    BY <1>59
    DEF CancelNodeRecord, TypeOK, NoId, NodeRecord, NodeStatuses
  <2>2. runner' \in RunnerRecord
    BY <1>59, Labels
    DEF CancelNodeRecord, TypeOK, Goto, RunnerRecord
  <2> QED BY <1>59, <2>1, <2>2 DEF TypeOK, CancelNodeRecord, durable, external
<1>60. ASSUME NotifyCanceled PROVE TypeOK'
  <2>1. told' \in SUBSET (Attempts \X Facts)
    BY <1>60
    DEF NotifyCanceled, TypeOK, RunnerInv, RunnerRecord, At, Notify, Facts
  <2>2. runner' \in RunnerRecord
    BY <1>60, Labels
    DEF NotifyCanceled, TypeOK, Return, NoRunner, RunnerRecord
  <2>3. active' \in ActiveRecord
    BY <1>60
    DEF NotifyCanceled, TypeOK, Return, NoRunner, NoId, ActiveRecord,
        ActivePCs
  <2> QED BY <1>60, <2>1, <2>2, <2>3 DEF TypeOK, NotifyCanceled, durable, external
<1>61. ASSUME CancelBareNode PROVE TypeOK'
  <2>1. node' \in NodeRecord
    BY <1>61
    DEF CancelBareNode, TypeOK, BestEffortNode, NodeRecord, NodeStatuses
  <2>2. runner' \in RunnerRecord
    BY <1>61, Labels
    DEF CancelBareNode, TypeOK, Return, NoRunner, RunnerRecord
  <2>3. active' \in ActiveRecord
    BY <1>61
    DEF CancelBareNode, TypeOK, Return, NoRunner, NoId, ActiveRecord,
        ActivePCs
  <2>4. bounds' \in Bounds
    BY <1>61, ParameterAssumption
    DEF CancelBareNode, TypeOK, BestEffortNode, StoreFault, Bounds
  <2> QED BY <1>61, <2>1, <2>2, <2>3, <2>4 DEF TypeOK, CancelBareNode, durable, external
<1>62. ASSUME StoreErrorAborts PROVE TypeOK'
  <2>1. runner' \in RunnerRecord
    BY <1>62, Labels
    DEF StoreErrorAborts, TypeOK, Return, NoRunner, RunnerRecord
  <2>2. active' \in ActiveRecord
    BY <1>62
    DEF StoreErrorAborts, TypeOK, Return, NoRunner, NoId, ActiveRecord,
        ActivePCs
  <2>3. bounds' \in Bounds
    BY <1>62, ParameterAssumption
    DEF StoreErrorAborts, TypeOK, StoreFault, Bounds
  <2> QED BY <1>62, <2>1, <2>2, <2>3 DEF TypeOK, StoreErrorAborts, durable, external
<1>63. ASSUME Admit PROVE TypeOK'
  <2>1. run' \in RunStatuses
    BY <1>63
    DEF Admit, TypeOK, RunStatuses
  <2>2. active' \in ActiveRecord
    BY <1>63
    DEF Admit, TypeOK, ActiveRecord, ActivePCs
  <2> QED BY <1>63, <2>1, <2>2 DEF TypeOK, Admit, durable, external
<1>64. ASSUME AdmitFails PROVE TypeOK'
  <2>1. active' \in ActiveRecord
    BY <1>64
    DEF AdmitFails, TypeOK, ActiveRecord, ActivePCs
  <2> QED BY <1>64, <2>1 DEF TypeOK, AdmitFails, durable, external
<1>65. ASSUME CancelRequest PROVE TypeOK'
  <2>1. run' \in RunStatuses
    BY <1>65
    DEF CancelRequest, TypeOK, RunStatuses
  <2>2. cx' \in CancelPCs
    BY <1>65
    DEF CancelRequest, TypeOK, CancelPCs
  <2>3. bounds' \in Bounds
    BY <1>65, ParameterAssumption
    DEF CancelRequest, TypeOK, Bounds
  <2> QED BY <1>65, <2>1, <2>2, <2>3 DEF TypeOK, CancelRequest, durable, external
<1>66. ASSUME Timeout PROVE TypeOK'
  <2>1. runner' \in RunnerRecord
    BY <1>66, Labels
    DEF Timeout, TypeOK, RunnerRecord
  <2> QED BY <1>66, <2>1 DEF TypeOK, Timeout, durable, external
<1>67. ASSUME Crash PROVE TypeOK'
  <2>1. active' \in ActiveRecord
    BY <1>67
    DEF Crash, TypeOK, Goroutine, NoId, RunStatuses, ActiveRecord, ActivePCs
  <2>2. runner' \in RunnerRecord
    BY <1>67, Labels
    DEF Crash, TypeOK, NoRunner, RunnerRecord
  <2>3. cx' \in CancelPCs
    BY <1>67
    DEF Crash, TypeOK, CancelPCs
  <2>4. bounds' \in Bounds
    BY <1>67, ParameterAssumption
    DEF Crash, TypeOK, Bounds
  <2> QED BY <1>67, <2>1, <2>2, <2>3, <2>4 DEF TypeOK, Crash, durable, external
<1>68. ASSUME Recover PROVE TypeOK'
  <2>1. active' \in ActiveRecord
    BY <1>68
    DEF Recover, TypeOK, Goroutine, NoId, RunStatuses, ActiveRecord, ActivePCs
  <2> QED BY <1>68, <2>1 DEF TypeOK, Recover, durable, external
<1>69. ASSUME NEW j \in Attempts, JobFinishes(j) PROVE TypeOK'
  BY <1>69 DEF TypeOK, JobFinishes, JobStates, durable
<1>70. ASSUME NEW j \in Attempts, JobExpires(j) PROVE TypeOK'
  BY <1>70 DEF TypeOK, JobExpires, JobStates, durable
<1>71. CASE UNCHANGED vars
  BY <1>71 DEF TypeOK, vars
<1> QED
  BY <1>71, <1>1, <1>2, <1>3, <1>4, <1>5, <1>6, <1>7, <1>8, <1>9,
     <1>10, <1>11, <1>12, <1>13, <1>14, <1>15, <1>16, <1>17, <1>18, <1>19,
     <1>20, <1>21, <1>22, <1>23, <1>24, <1>25, <1>26, <1>27, <1>28, <1>29,
     <1>30, <1>31, <1>32, <1>33, <1>34, <1>35, <1>36, <1>37, <1>38, <1>39,
     <1>40, <1>41, <1>42, <1>43, <1>44, <1>45, <1>46, <1>47, <1>48, <1>49,
     <1>50, <1>51, <1>52, <1>53, <1>54, <1>55, <1>56, <1>57, <1>58, <1>59,
     <1>60, <1>61, <1>62, <1>63, <1>64, <1>65, <1>66, <1>67, <1>68, <1>69,
     <1>70
  DEF Next, RunStep, CancelStep, RunnerStep, RealizeStep, SubmitStep, OutcomeStep

\* Every step keeps SafetyInv.  Most touch neither the node, nor the attempts,
\* nor the runner.
LEMMA SafetyStep == SafetyInv /\ [Next]_vars => SafetyInv'
<1> SUFFICES ASSUME SafetyInv, [Next]_vars
             PROVE  RunnerInv' /\ RealizationInv' /\ OutcomeInv'
  BY TypeStep DEF SafetyInv
<1>a. TypeOK'
  BY TypeStep
<1> USE DEF SafetyInv, RunnerInv, RealizationInv, OutcomeInv
<1>1. ASSUME UNCHANGED <<node, attempts, runner>>
     PROVE  RunnerInv' /\ RealizationInv' /\ OutcomeInv'
  BY <1>1
<1>2. ASSUME Admit \/ AdmitFails \/ CancelRequest \/ BeginRun \/ SetRunRunning \/
            GraphNotStarted \/ GraphSucceeds \/ GraphFails \/ FastFail \/
            FinalizeRead \/ FinalizeWrite \/ FinalizeError \/
            HandoffFinalize \/ DriveEnds \/ CancelSignal \/ CancelJobs \/
            CancelAbandoned \/ Recover
            \/ (\E j \in Attempts : JobFinishes(j) \/ JobExpires(j))
     PROVE  UNCHANGED <<node, attempts, runner>>
  BY <1>2 DEF durable, Admit, AdmitFails, CancelRequest, BeginRun,
      SetRunRunning, GraphNotStarted, GraphSucceeds, GraphFails, FastFail,
      FinalizeRead, FinalizeWrite, FinalizeError, HandoffFinalize, DriveEnds,
      CancelSignal, CancelJobs, CancelAbandoned, Recover, JobFinishes,
      JobExpires
<1>3. ASSUME SkipPending PROVE RunnerInv' /\ RealizationInv' /\ OutcomeInv'
  BY <1>3, <1>a DEF SkipPending, At, TypeOK, NodeRecord, RunnerRecord,
      AttemptRecord, durable, BestEffortNode
<1>4. ASSUME CancelUpdateNode PROVE RunnerInv' /\ RealizationInv' /\ OutcomeInv'
  BY <1>4, <1>a DEF CancelUpdateNode, At, TypeOK, NodeRecord, RunnerRecord,
      AttemptRecord, durable, NodeTerminal
<1>5. ASSUME CancelPersistIntent PROVE RunnerInv' /\ RealizationInv' /\ OutcomeInv'
  BY <1>5, <1>a DEF CancelPersistIntent, At, TypeOK, NodeRecord, RunnerRecord,
      AttemptRecord, durable, IntentAttempts
<1>6. ASSUME RunnerStart PROVE RunnerInv' /\ RealizationInv' /\ OutcomeInv'
  BY <1>6, <1>a DEF RunnerStart, At, TypeOK, NodeRecord, RunnerRecord,
      AttemptRecord, durable
<1>7. ASSUME Classify PROVE RunnerInv' /\ RealizationInv' /\ OutcomeInv'
  <2>1. PICK d : d = ClassifyReconcile(node, attempts)
    OBVIOUS
  <2>2. /\ d \in Decisions
        /\ NodeTerminal(node.status) => d = "TerminalRepair"
        /\ node.cur = NoId => d \in {"TerminalRepair", "Fresh"}
        /\ d = "Fresh" => node.cur = NoId \/ attempts[node.cur].reatt
    BY <2>1 DEF ClassifyReconcile, HasAttempt, Reattemptable, Decisions
  <2>3. PICK pc : pc = IF runner.drive THEN DriveNext(d) ELSE RunNext(d)
    OBVIOUS
  <2>4. /\ pc \in {"repair", "reattach", "identity", "resume", "allocate", "cancelBare",
                   "cancelAttempt"}
        /\ pc = "repair" <=> d = "TerminalRepair"
        /\ pc = "allocate" => d = "Fresh"
        /\ node.cur = NoId => pc \in {"repair", "allocate", "cancelBare"}
    BY <2>2, <2>3 DEF DriveNext, RunNext, Decisions
  <2>5. runner'.pc = pc /\ runner'.att = node.cur /\ UNCHANGED <<node, attempts>>
    BY <1>7, <2>1, <2>3 DEF Classify, TypeOK, RunnerRecord, durable
  <2>6. RunnerInv'
    BY <2>4, <2>5
  <2>7. RealizationInv'
    BY <2>2, <2>4, <2>5
  <2>8. OutcomeInv'
    BY <2>2, <2>4, <2>5 DEF NodeTerminal
  <2> QED  BY <2>6, <2>7, <2>8
<1>8. ASSUME RepairProjection PROVE RunnerInv' /\ RealizationInv' /\ OutcomeInv'
  BY <1>8, <1>a DEF RepairProjection, At, TypeOK, NodeRecord, RunnerRecord,
      AttemptRecord, durable, BestEffortNode, NodeTerminal,
      NodeStatusFromAttempt, Return, NoRunner, NoId
<1>9. ASSUME Allocate PROVE RunnerInv' /\ RealizationInv' /\ OutcomeInv'
  <2>1. CASE MayAllocate(node, attempts)
    <3>1. /\ node.realized < Ceiling /\ node.realized + 1 \in Attempts
          /\ node.realized \in Nat
      BY <1>9, CeilingAssumption DEF Allocate, At, TypeOK, NodeRecord, Attempts
    <3>2. node'.realized = node.realized + 1 /\ node'.cur = node.realized + 1
      BY <1>9, <2>1 DEF Allocate, AllocatedNode, NextAttempt, TypeOK, NodeRecord
    <3>3. /\ ~attempts'[node.realized + 1].reatt
          /\ attempts'[node.realized + 1].status = "Prepared"
      BY <1>9, <2>1, <3>1
      DEF Allocate, NextAttempt, Upserted, NewAttempt, TypeOK
    <3>4. /\ runner'.pc \in {"bindings", "starting"}
          /\ runner'.att = node.realized + 1
      BY <1>9, <2>1
      DEF Allocate, AfterReady, NextAttempt, TypeOK, RunnerRecord
    <3>5. node'.status = "Ready"
      BY <1>9, <2>1 DEF Allocate, AllocatedNode, TypeOK, NodeRecord
    <3>6. node.realized + 1 <= Ceiling /\ node.realized + 1 # NoId
      BY <3>1, CeilingAssumption DEF NoId
    <3> QED BY <3>2, <3>3, <3>4, <3>5, <3>6
  <2>2. CASE ~MayAllocate(node, attempts)
    BY <1>9, <2>2 DEF Allocate, Return, NoRunner, TypeOK
  <2> QED BY <2>1, <2>2
<1>10. ASSUME Resume PROVE RunnerInv' /\ RealizationInv' /\ OutcomeInv'
  BY <1>10, <1>a DEF Resume, At, TypeOK, NodeRecord, RunnerRecord,
      AttemptRecord, durable, SetNodeStatus, Goto, AfterReady
<1>11. ASSUME EnvKeysCollide PROVE RunnerInv' /\ RealizationInv' /\ OutcomeInv'
  BY <1>11, <1>a DEF EnvKeysCollide, At, TypeOK, NodeRecord, RunnerRecord,
      AttemptRecord, durable, AttemptErrs, BestEffortAttempts, Upserted,
      NewAttempt
<1>12. ASSUME BuildBindings PROVE RunnerInv' /\ RealizationInv' /\ OutcomeInv'
  BY <1>12, <1>a DEF BuildBindings, At, TypeOK, NodeRecord, RunnerRecord,
      AttemptRecord, durable, SetNodeStatus, Goto
<1>13. ASSUME ResolveInputs PROVE RunnerInv' /\ RealizationInv' /\ OutcomeInv'
  BY <1>13, <1>a DEF ResolveInputs, At, TypeOK, NodeRecord, RunnerRecord,
      AttemptRecord, durable, SetNodeStatus, Goto
<1>14. ASSUME InputsFail PROVE RunnerInv' /\ RealizationInv' /\ OutcomeInv'
  BY <1>14, <1>a DEF InputsFail, At, TypeOK, NodeRecord, RunnerRecord,
      AttemptRecord, durable, AttemptErrs, BestEffortAttempts, Upserted,
      NewAttempt
<1>15. ASSUME SetStarting PROVE RunnerInv' /\ RealizationInv' /\ OutcomeInv'
  BY <1>15, <1>a DEF SetStarting, At, TypeOK, NodeRecord, RunnerRecord,
      AttemptRecord, durable, SetNodeStatus, Goto
<1>16. ASSUME PrepareFails PROVE RunnerInv' /\ RealizationInv' /\ OutcomeInv'
  BY <1>16, <1>a DEF PrepareFails, At, TypeOK, NodeRecord, RunnerRecord,
      AttemptRecord, durable, AttemptErrs, BestEffortAttempts, Upserted,
      NewAttempt
<1>17. ASSUME SetReleasing PROVE RunnerInv' /\ RealizationInv' /\ OutcomeInv'
  BY <1>17, <1>a DEF SetReleasing, At, TypeOK, NodeRecord, RunnerRecord,
      AttemptRecord, durable, SetNodeStatus, Goto
<1>18. ASSUME OpenAttempt PROVE RunnerInv' /\ RealizationInv' /\ OutcomeInv'
  <2>1. CASE OpenedOpportunities(attempts) >= EffectiveMaxAttempts(MaxAttempts)
    BY <1>18, <2>1
    DEF OpenAttempt, At, TypeOK, NodeRecord, RunnerRecord, AttemptRecord, Goto,
        BestEffortAttempts, Upserted, NewAttempt
  <2>2. CASE ~(OpenedOpportunities(attempts) >= EffectiveMaxAttempts(MaxAttempts))
    <3>1. /\ node'.handle = node.handle /\ node'.cur = node.cur
          /\ node'.status = node.status /\ node'.realized = node.realized
      BY <1>18, <2>2 DEF OpenAttempt, OpenedNode, TypeOK, NodeRecord
    <3>2. \A k \in Attempts : /\ attempts'[k].status = attempts[k].status
                              /\ attempts'[k].reatt = attempts[k].reatt
      BY <1>18, <2>2 DEF OpenAttempt, OpenedAttempts, TypeOK, AttemptRecord
    <3>3. At("gate") /\ runner' = [runner EXCEPT !.pc = "submit"]
      BY <1>18, <2>2 DEF OpenAttempt, Goto
    <3> QED BY <3>1, <3>2, <3>3 DEF At, TypeOK, NodeRecord, RunnerRecord
  <2> QED BY <2>1, <2>2
<1>19. ASSUME OpenFails PROVE RunnerInv' /\ RealizationInv' /\ OutcomeInv'
  BY <1>19, <1>a DEF OpenFails, At, TypeOK, NodeRecord, RunnerRecord,
      AttemptRecord, durable, Upserted, NewAttempt
<1>20. ASSUME StartNode PROVE RunnerInv' /\ RealizationInv' /\ OutcomeInv'
  BY <1>20, <1>a DEF StartNode, At, TypeOK, NodeRecord, RunnerRecord,
      AttemptRecord, durable, Goto
<1>21. ASSUME StartNodeFails PROVE RunnerInv' /\ RealizationInv' /\ OutcomeInv'
  BY <1>21, <1>a DEF StartNodeFails, At, TypeOK, NodeRecord, RunnerRecord,
      AttemptRecord, durable, Goto
<1>22. ASSUME RegisterHandle PROVE RunnerInv' /\ RealizationInv' /\ OutcomeInv'
  BY <1>22, <1>a DEF RegisterHandle, At, TypeOK, NodeRecord, RunnerRecord,
      AttemptRecord, durable, Goto
<1>23. ASSUME PersistHandle PROVE RunnerInv' /\ RealizationInv' /\ OutcomeInv'
  <2>1. CASE UNCHANGED <<node, attempts>>
    BY <1>23, <2>1 DEF PersistHandle, At, Goto, TypeOK, RunnerRecord
  <2>2. CASE /\ attempts' = HandleAttempts(attempts, runner.att)
             /\ node' = HandleNode(node, runner.att)
    <3>1. /\ node'.handle # NoId => node'.cur # NoId
          /\ node'.cur = node.cur
          /\ node'.status = node.status /\ node'.realized = node.realized
      BY <1>23, <2>2 DEF PersistHandle, At, HandleNode, TypeOK, NodeRecord
    <3>2. \A k \in Attempts : /\ attempts'[k].status = attempts[k].status
                              /\ attempts'[k].reatt = attempts[k].reatt
      BY <2>2 DEF HandleAttempts, TypeOK, AttemptRecord
    <3>3. At("persist") /\ runner' = [runner EXCEPT !.pc = "started"]
      BY <1>23 DEF PersistHandle, Goto
    <3> QED BY <3>1, <3>2, <3>3 DEF At, TypeOK, NodeRecord, RunnerRecord
  <2> QED BY <1>23, <2>1, <2>2 DEF PersistHandle
<1>24. ASSUME UpsertStarted PROVE RunnerInv' /\ RealizationInv' /\ OutcomeInv'
  BY <1>24, <1>a DEF UpsertStarted, At, TypeOK, NodeRecord, RunnerRecord,
      AttemptRecord, durable, Goto, BestEffortAttempts, Upserted, NewAttempt
<1>25. ASSUME MarkRunning PROVE RunnerInv' /\ RealizationInv' /\ OutcomeInv'
  BY <1>25, <1>a DEF MarkRunning, At, TypeOK, NodeRecord, RunnerRecord,
      AttemptRecord, durable, SetNodeStatus, Goto
<1>26. ASSUME Reattach PROVE RunnerInv' /\ RealizationInv' /\ OutcomeInv'
  <2>1. /\ runner.pc = "reattach" /\ runner'.pc \in {"unresolved", "wait"}
        /\ runner'.att = runner.att /\ UNCHANGED <<node, attempts>>
    BY <1>26 DEF Reattach, At, TypeOK, RunnerRecord, durable, Goto
  <2> QED  BY <2>1
<1>27. ASSUME IdentityFound PROVE RunnerInv' /\ RealizationInv' /\ OutcomeInv'
  BY <1>27, <1>a DEF IdentityFound, At, TypeOK, NodeRecord, RunnerRecord,
      AttemptRecord, durable, Goto
<1>28. ASSUME IdentityUnresolved PROVE RunnerInv' /\ RealizationInv' /\ OutcomeInv'
  BY <1>28, <1>a DEF IdentityUnresolved, At, TypeOK, NodeRecord, RunnerRecord,
      AttemptRecord, durable, Goto
<1>29. ASSUME AttachPersist PROVE RunnerInv' /\ RealizationInv' /\ OutcomeInv'
  BY <1>29, <1>a DEF AttachPersist, At, TypeOK, NodeRecord, RunnerRecord,
      AttemptRecord, durable, Goto, HandleNode, HandleAttempts
<1>30. ASSUME AttachWait PROVE RunnerInv' /\ RealizationInv' /\ OutcomeInv'
  BY <1>30, <1>a DEF AttachWait, At, TypeOK, NodeRecord, RunnerRecord,
      AttemptRecord, durable, Goto
<1>31. ASSUME WaitSucceeded PROVE RunnerInv' /\ RealizationInv' /\ OutcomeInv'
  BY <1>31, <1>a DEF WaitSucceeded, At, TypeOK, NodeRecord, RunnerRecord,
      AttemptRecord, durable, Goto
<1>32. ASSUME WaitFailed PROVE RunnerInv' /\ RealizationInv' /\ OutcomeInv'
  BY <1>32, <1>a DEF WaitFailed, At, TypeOK, NodeRecord, RunnerRecord,
      AttemptRecord, durable, AttemptErrs, BestEffortAttempts, Upserted,
      NewAttempt
<1>33. ASSUME WaitError PROVE RunnerInv' /\ RealizationInv' /\ OutcomeInv'
  BY <1>33, <1>a DEF WaitError, At, TypeOK, NodeRecord, RunnerRecord,
      AttemptRecord, durable, Goto
<1>34. ASSUME RegisterOutputs PROVE RunnerInv' /\ RealizationInv' /\ OutcomeInv'
  BY <1>34, <1>a DEF RegisterOutputs, At, TypeOK, NodeRecord, RunnerRecord,
      AttemptRecord, durable, Goto
<1>35. ASSUME NotifySucceeded PROVE RunnerInv' /\ RealizationInv' /\ OutcomeInv'
  BY <1>35, <1>a DEF NotifySucceeded, At, TypeOK, NodeRecord, RunnerRecord,
      AttemptRecord, durable, Goto
<1>36. ASSUME CompleteAttempt PROVE RunnerInv' /\ RealizationInv' /\ OutcomeInv'
  BY <1>36, <1>a DEF CompleteAttempt, At, TypeOK, NodeRecord, RunnerRecord,
      AttemptRecord, durable, Goto, BestEffortAttempts, Upserted, NewAttempt
<1>37. ASSUME SucceedNode PROVE RunnerInv' /\ RealizationInv' /\ OutcomeInv'
  BY <1>37, <1>a DEF SucceedNode, At, TypeOK, NodeRecord, RunnerRecord,
      AttemptRecord, durable, Return, NoRunner, NoId
<1>38. ASSUME DeferFinalization PROVE RunnerInv' /\ RealizationInv' /\ OutcomeInv'
  BY <1>38, <1>a DEF DeferFinalization, At, TypeOK, NodeRecord, RunnerRecord,
      AttemptRecord, durable, Goto, BestEffortAttempts,
      ProcessCompletedAttempts
<1>39. ASSUME Unresolved PROVE RunnerInv' /\ RealizationInv' /\ OutcomeInv'
  BY <1>39, <1>a DEF Unresolved, At, TypeOK, NodeRecord, RunnerRecord,
      AttemptRecord, durable, NoRunner
<1>40. ASSUME FailNode PROVE RunnerInv' /\ RealizationInv' /\ OutcomeInv'
  BY <1>40, <1>a DEF FailNode, At, TypeOK, NodeRecord, RunnerRecord,
      AttemptRecord, durable, Goto, FailNext
<1>41. ASSUME FailUncounted PROVE RunnerInv' /\ RealizationInv' /\ OutcomeInv'
  BY <1>41, <1>a DEF FailUncounted, At, TypeOK, NodeRecord, RunnerRecord,
      AttemptRecord, durable, Goto
<1>42. ASSUME MarkReattemptable PROVE RunnerInv' /\ RealizationInv' /\ OutcomeInv'
  BY <1>42, <1>a DEF MarkReattemptable, At, TypeOK, NodeRecord, RunnerRecord,
      AttemptRecord, durable, Goto, BestEffortAttempts, ReattemptableAttempts
<1>43. ASSUME ResetNode PROVE RunnerInv' /\ RealizationInv' /\ OutcomeInv'
  BY <1>43, <1>a DEF ResetNode, At, TypeOK, NodeRecord, RunnerRecord,
      AttemptRecord, durable, Goto, BestEffortNode, NoId
<1>44. ASSUME TerminalizeFailed PROVE RunnerInv' /\ RealizationInv' /\ OutcomeInv'
  BY <1>44, <1>a DEF TerminalizeFailed, At, TypeOK, NodeRecord, RunnerRecord,
      AttemptRecord, durable, Goto, BestEffortNode, NoId
<1>45. ASSUME NotifyFailed PROVE RunnerInv' /\ RealizationInv' /\ OutcomeInv'
  BY <1>45, <1>a DEF NotifyFailed, At, TypeOK, NodeRecord, RunnerRecord,
      AttemptRecord, durable, Return, NoRunner
<1>46. ASSUME CancelAttempt PROVE RunnerInv' /\ RealizationInv' /\ OutcomeInv'
  BY <1>46, <1>a DEF CancelAttempt, At, TypeOK, NodeRecord, RunnerRecord,
      AttemptRecord, durable, Goto, BestEffortAttempts, Upserted, NewAttempt
<1>47. ASSUME CancelNodeRecord PROVE RunnerInv' /\ RealizationInv' /\ OutcomeInv'
  BY <1>47, <1>a DEF CancelNodeRecord, At, TypeOK, NodeRecord, RunnerRecord,
      AttemptRecord, durable, Goto, NoId
<1>48. ASSUME NotifyCanceled PROVE RunnerInv' /\ RealizationInv' /\ OutcomeInv'
  BY <1>48, <1>a DEF NotifyCanceled, At, TypeOK, NodeRecord, RunnerRecord,
      AttemptRecord, durable, Return, NoRunner
<1>49. ASSUME CancelBareNode PROVE RunnerInv' /\ RealizationInv' /\ OutcomeInv'
  BY <1>49, <1>a DEF CancelBareNode, At, TypeOK, NodeRecord, RunnerRecord,
      AttemptRecord, durable, BestEffortNode, NodeTerminal, Return, NoRunner
<1>50. ASSUME StoreErrorAborts PROVE RunnerInv' /\ RealizationInv' /\ OutcomeInv'
  BY <1>50, <1>a DEF StoreErrorAborts, At, TypeOK, NodeRecord, RunnerRecord,
      AttemptRecord, durable, Return, NoRunner
<1>51. ASSUME Timeout PROVE RunnerInv' /\ RealizationInv' /\ OutcomeInv'
  BY <1>51, <1>a DEF Timeout, At, TypeOK, NodeRecord, RunnerRecord,
      AttemptRecord, durable
<1>52. ASSUME Crash PROVE RunnerInv' /\ RealizationInv' /\ OutcomeInv'
  BY <1>52, <1>a DEF Crash, At, TypeOK, NodeRecord, RunnerRecord,
      AttemptRecord, durable, NoRunner
<1>53. CASE UNCHANGED vars
  BY <1>1, <1>53 DEF vars
<1> QED
  BY <1>1, <1>2, <1>3, <1>4, <1>5, <1>6, <1>7, <1>8, <1>9, <1>10,
     <1>11, <1>12, <1>13, <1>14, <1>15, <1>16, <1>17, <1>18, <1>19, <1>20,
     <1>21, <1>22, <1>23, <1>24, <1>25, <1>26, <1>27, <1>28, <1>29, <1>30,
     <1>31, <1>32, <1>33, <1>34, <1>35, <1>36, <1>37, <1>38, <1>39, <1>40,
     <1>41, <1>42, <1>43, <1>44, <1>45, <1>46, <1>47, <1>48, <1>49, <1>50,
     <1>51, <1>52, <1>53
  DEF Next, RunStep, CancelStep, RunnerStep, RealizeStep, SubmitStep, OutcomeStep

\* SafetyInv holds in every reachable state of the executor, registry faults
\* included.
THEOREM SafetyInvariant == Spec => []SafetyInv
<1>1. Init => SafetyInv
  BY Labels, CeilingAssumption, ParameterAssumption
  DEF Init, SafetyInv, TypeOK, RunnerInv, RealizationInv, OutcomeInv, NewNode,
      NewAttempt, Goroutine, NoRunner, NoId, NodeRecord, AttemptRecord,
      ActiveRecord, RunnerRecord, Bounds, RunStatuses, NodeStatuses,
      AttemptStatuses, StopCauses, ActivePCs, CancelPCs, JobStates, Facts
<1> QED BY <1>1, SafetyStep, PTL DEF Spec

\* The records and the goroutines' positions always have their types, for every
\* value of the constants: no action of the executor leaves the state space.
THEOREM TypeCorrectness == Spec => []TypeOK
<1>1. SafetyInv => TypeOK
  BY DEF SafetyInv
<1> QED BY <1>1, SafetyInvariant, PTL

\* No node takes more realization cycles than realizationAttemptCeiling: the
\* check in failNode is enough, although AllocateCurrentAttempt itself makes
\* none and recoveries reach it without passing failNode.
THEOREM RealizationCeiling == Spec => []RealizationBounded
<1>1. SafetyInv => RealizationBounded
  BY DEF SafetyInv, RealizationInv, RealizationBounded
<1> QED BY <1>1, SafetyInvariant, PTL

\* No step changes the status of a node that Succeeded or Failed: the steps that
\* write a status either skip terminal nodes or are taken by a runner that, by
\* OutcomeInv, does not stand there when the node is settled.
LEMMA FinalStep == SafetyInv /\ [Next]_vars =>
  (node.status \in {"Succeeded", "Failed"} => node'.status = node.status)
<1> SUFFICES ASSUME SafetyInv, [Next]_vars, node.status \in {"Succeeded", "Failed"}
             PROVE  node'.status = node.status
  OBVIOUS
<1> USE DEF SafetyInv, TypeOK, NodeRecord, OutcomeInv
<1>1. ASSUME SkipPending PROVE node'.status = node.status
  BY <1>1 DEF SkipPending, At, BestEffortNode
<1>2. ASSUME CancelUpdateNode PROVE node'.status = node.status
  BY <1>2 DEF CancelUpdateNode, At, NodeTerminal
<1>3. ASSUME RepairProjection PROVE node'.status = node.status
  BY <1>3 DEF RepairProjection, At, BestEffortNode, NodeTerminal,
      NodeStatusFromAttempt, Return, NoId
<1>4. ASSUME Allocate PROVE node'.status = node.status
  BY <1>4 DEF Allocate, At, AllocatedNode
<1>5. ASSUME Resume PROVE node'.status = node.status
  BY <1>5 DEF Resume, At, SetNodeStatus, Goto, AfterReady
<1>6. ASSUME BuildBindings PROVE node'.status = node.status
  BY <1>6 DEF BuildBindings, At, SetNodeStatus, Goto
<1>7. ASSUME ResolveInputs PROVE node'.status = node.status
  BY <1>7 DEF ResolveInputs, At, SetNodeStatus, Goto
<1>8. ASSUME SetStarting PROVE node'.status = node.status
  BY <1>8 DEF SetStarting, At, SetNodeStatus, Goto
<1>9. ASSUME SetReleasing PROVE node'.status = node.status
  BY <1>9 DEF SetReleasing, At, SetNodeStatus, Goto
<1>10. ASSUME MarkRunning PROVE node'.status = node.status
  BY <1>10 DEF MarkRunning, At, SetNodeStatus, Goto
<1>11. ASSUME OpenAttempt PROVE node'.status = node.status
  BY <1>11 DEF OpenAttempt, At, Goto, BestEffortAttempts, OpenedNode
<1>12. ASSUME PersistHandle PROVE node'.status = node.status
  BY <1>12 DEF PersistHandle, At, Goto, HandleNode
<1>13. ASSUME AttachPersist PROVE node'.status = node.status
  BY <1>13 DEF AttachPersist, At, Goto, HandleNode
<1>14. ASSUME SucceedNode PROVE node'.status = node.status
  BY <1>14 DEF SucceedNode, At, Return, NoId
<1>15. ASSUME ResetNode PROVE node'.status = node.status
  BY <1>15 DEF ResetNode, At, Goto, BestEffortNode, NoId
<1>16. ASSUME TerminalizeFailed PROVE node'.status = node.status
  BY <1>16 DEF TerminalizeFailed, At, Goto, BestEffortNode, NoId
<1>17. ASSUME CancelNodeRecord PROVE node'.status = node.status
  BY <1>17 DEF CancelNodeRecord, At, Goto, NoId
<1>18. ASSUME CancelBareNode PROVE node'.status = node.status
  BY <1>18 DEF CancelBareNode, At, BestEffortNode, NodeTerminal, Return
<1>19. CASE UNCHANGED node
  BY <1>19
<1> QED
  BY <1>1, <1>2, <1>3, <1>4, <1>5, <1>6, <1>7, <1>8, <1>9, <1>10,
     <1>11, <1>12, <1>13, <1>14, <1>15, <1>16, <1>17, <1>18, <1>19
  DEF Next, RunStep, CancelStep, RunnerStep, RealizeStep, SubmitStep, OutcomeStep, vars, durable,
      BeginRun, SetRunRunning, GraphNotStarted, GraphSucceeds, GraphFails,
      FastFail, FinalizeRead, FinalizeWrite, FinalizeError, HandoffFinalize,
      DriveEnds, CancelSignal, CancelJobs, CancelPersistIntent,
      CancelAbandoned, RunnerStart, Classify, EnvKeysCollide, InputsFail,
      PrepareFails, OpenFails, StartNode, StartNodeFails, RegisterHandle,
      UpsertStarted, Reattach, IdentityFound, IdentityUnresolved, AttachWait,
      WaitSucceeded, WaitFailed, WaitError, RegisterOutputs, NotifySucceeded,
      CompleteAttempt, DeferFinalization, Unresolved, FailNode, FailUncounted,
      MarkReattemptable, NotifyFailed, CancelAttempt, NotifyCanceled,
      StoreErrorAborts, Admit, AdmitFails, CancelRequest, Timeout, Crash,
      Recover, JobFinishes, JobExpires, AttemptErrs

\* A node's success or failure is final, against every interleaving of Cancel,
\* skipping, recovery and a runner that was overtaken by any of them.
THEOREM OutcomesAreFinal == Spec => OutcomeIsFinal
BY SafetyInvariant, FinalStep, PTL DEF Spec, OutcomeIsFinal

-----------------------------------------------------------------------------
(* Layer 2: what was submitted is never lost                               *)

\* With no registry fault every step keeps SubmissionInv.  The step that matters
\* is Classify: an anchored attempt is never taken for a fresh one.
LEMMA SubmissionStep ==
  ASSUME MaxFaults = 0
  PROVE  SafetyInv /\ SubmissionInv /\ [Next]_vars => SubmissionInv'
<1> SUFFICES ASSUME SafetyInv, SubmissionInv, [Next]_vars PROVE SubmissionInv'
  OBVIOUS
<1>a. TypeOK' /\ RunnerInv'
  BY SafetyStep DEF SafetyInv
<1>b. ~StoreFault
  BY DEF StoreFault, SafetyInv, TypeOK, Bounds
<1> USE DEF SafetyInv, RunnerInv, SubmissionInv, Anchored, AttemptTerminal
<1>1. ASSUME UNCHANGED <<node, attempts, runner, jobs, execs>>
     PROVE  SubmissionInv'
  BY <1>1 DEF At
<1>2. ASSUME Admit \/ AdmitFails \/ CancelRequest \/ BeginRun \/ SetRunRunning \/
            GraphNotStarted \/ GraphSucceeds \/ GraphFails \/
            FinalizeRead \/ FinalizeWrite \/ FinalizeError \/
            HandoffFinalize \/ DriveEnds \/ CancelSignal \/
            CancelAbandoned \/ Recover
     PROVE  UNCHANGED <<node, attempts, runner, jobs, execs>>
  BY <1>2 DEF durable, external, Admit, AdmitFails, CancelRequest, BeginRun,
      SetRunRunning, GraphNotStarted, GraphSucceeds, GraphFails, FinalizeRead,
      FinalizeWrite, FinalizeError, HandoffFinalize, DriveEnds, CancelSignal,
      CancelAbandoned, Recover
<1>3. ASSUME FastFail PROVE SubmissionInv'
  BY <1>3, <1>a, <1>b DEF FastFail, At, TypeOK, NodeRecord, RunnerRecord,
      AttemptRecord, durable, external, NoId, CancelNodeSucceeds,
      CancelNodeFails, JobPresent, PreFencePCs
<1>4. ASSUME SkipPending PROVE SubmissionInv'
  <2>1. /\ node'.cur = node.cur /\ node'.handle = node.handle
        /\ NodeTerminal(node.status) => NodeTerminal(node'.status)
        /\ UNCHANGED <<attempts, runner, jobs, execs>>
    BY <1>4, <1>b
    DEF SkipPending, BestEffortNode, TypeOK, NodeRecord, NodeTerminal, external
  <2> QED BY <2>1 DEF At
<1>5. ASSUME CancelJobs PROVE SubmissionInv'
  BY <1>5, <1>a, <1>b DEF CancelJobs, At, TypeOK, NodeRecord, RunnerRecord,
      AttemptRecord, durable, external, NoId, CancelNodeSucceeds,
      CancelNodeFails, JobPresent, PreFencePCs
<1>6. ASSUME CancelUpdateNode PROVE SubmissionInv'
  BY <1>6, <1>a, <1>b DEF CancelUpdateNode, At, TypeOK, NodeRecord,
      RunnerRecord, AttemptRecord, durable, external, NoId, NodeTerminal,
      PreFencePCs
<1>7. ASSUME CancelPersistIntent PROVE SubmissionInv'
  <2>1. \A k \in Attempts : /\ attempts'[k].status = attempts[k].status
                            /\ attempts'[k].fence = attempts[k].fence
                            /\ attempts'[k].handle = attempts[k].handle
                            /\ attempts'[k].reatt = attempts[k].reatt
    BY <1>7 DEF CancelPersistIntent, IntentAttempts, TypeOK, AttemptRecord
  <2>2. UNCHANGED <<node, runner, jobs, execs>>
    BY <1>7 DEF CancelPersistIntent, external
  <2>3. attempts'[runner.att].status = attempts[runner.att].status
        /\ Reattemptable(attempts'[runner.att]) = Reattemptable(attempts[runner.att])
        /\ attempts'[runner.att].reatt = attempts[runner.att].reatt
        /\ attempts'[runner.att].fence = attempts[runner.att].fence
    BY <1>7, <2>1 DEF CancelPersistIntent, IntentAttempts, TypeOK, RunnerRecord, Reattemptable
  <2>4. node.cur \in {NoId} \cup Attempts
    BY DEF TypeOK, NodeRecord
  <2> QED BY <2>1, <2>2, <2>3, <2>4 DEF At
<1>8. ASSUME RunnerStart PROVE SubmissionInv'
  BY <1>8, <1>a, <1>b DEF RunnerStart, At, TypeOK, NodeRecord, RunnerRecord,
      AttemptRecord, durable, external, NoId, PreFencePCs
<1>9. ASSUME Classify PROVE SubmissionInv'
  <2> DEFINE D == ClassifyReconcile(node, attempts)
  <2>1. execs > 0 => D \notin {"Fresh", "ResumePreFence"}
    BY DEF ClassifyReconcile, HasAttempt, Reattemptable
  <2>2. D = "TerminalRepair" =>
          \/ NodeTerminal(node.status)
          \/ /\ node.cur # NoId
             /\ AttemptTerminal(attempts[node.cur].status)
             /\ ~Reattemptable(attempts[node.cur])
    BY DEF ClassifyReconcile, HasAttempt
  <2>3. D \in Decisions
    BY DEF ClassifyReconcile, Decisions
  <2>4. /\ runner'.att = node.cur
        /\ runner'.pc = IF runner.drive THEN DriveNext(D) ELSE RunNext(D)
    BY <1>9 DEF Classify, TypeOK, RunnerRecord
  <2>5. UNCHANGED <<node, attempts, jobs, execs>>
    BY <1>9 DEF Classify, durable, external
  <2> HIDE DEF D
  <2>6. /\ runner'.pc \in {"repair", "reattach", "identity", "resume", "allocate",
                           "cancelBare", "cancelAttempt"}
        /\ runner'.pc = "repair" => D = "TerminalRepair"
        /\ runner'.pc \in {"resume", "allocate"} => D \in {"Fresh", "ResumePreFence"}
    BY <2>3, <2>4 DEF DriveNext, RunNext, Decisions
  <2> QED BY <2>1, <2>2, <2>4, <2>5, <2>6 DEF At, PreFencePCs
<1>10. ASSUME RepairProjection PROVE SubmissionInv'
  <2>1. /\ node'.cur = node.cur
        /\ \/ node'.handle = node.handle
           \/ /\ AttemptTerminal(attempts[runner.att].status)
              /\ ~Reattemptable(attempts[runner.att])
    BY <1>10, <1>b DEF RepairProjection, At, BestEffortNode, TypeOK, NodeRecord
  <2>2. runner'.pc = "done" /\ runner.att = node.cur
    BY <1>10 DEF RepairProjection, At, Return, NoRunner
  <2>3. UNCHANGED <<attempts, jobs, execs>>
    BY <1>10 DEF RepairProjection, external
  <2> QED BY <2>1, <2>2, <2>3 DEF At, PreFencePCs, Reattemptable
<1>11. ASSUME Allocate PROVE SubmissionInv'
  <2>1. ~(execs > 0) /\ UNCHANGED <<jobs, execs>>
    BY <1>11 DEF Allocate, At, PreFencePCs, external
  <2>2. runner'.pc \in {"bindings", "starting", "done"}
    BY <1>11 DEF Allocate, AfterReady, Return, NoRunner, TypeOK, RunnerRecord
  <2> QED BY <2>1, <2>2 DEF At
<1>12. ASSUME Resume PROVE SubmissionInv'
  BY <1>12, <1>a, <1>b DEF Resume, At, TypeOK, NodeRecord, RunnerRecord,
      AttemptRecord, durable, external, NoId, SetNodeStatus, Goto, AfterReady,
      PreFencePCs
<1>13. ASSUME EnvKeysCollide PROVE SubmissionInv'
  BY <1>13, <1>a, <1>b DEF EnvKeysCollide, At, TypeOK, NodeRecord,
      RunnerRecord, AttemptRecord, durable, external, NoId, AttemptErrs,
      BestEffortAttempts, Upserted, NewAttempt, PreFencePCs
<1>14. ASSUME BuildBindings PROVE SubmissionInv'
  BY <1>14, <1>a, <1>b DEF BuildBindings, At, TypeOK, NodeRecord,
      RunnerRecord, AttemptRecord, durable, external, NoId, SetNodeStatus,
      Goto, PreFencePCs
<1>15. ASSUME ResolveInputs PROVE SubmissionInv'
  BY <1>15, <1>a, <1>b DEF ResolveInputs, At, TypeOK, NodeRecord,
      RunnerRecord, AttemptRecord, durable, external, NoId, SetNodeStatus,
      Goto, PreFencePCs
<1>16. ASSUME InputsFail PROVE SubmissionInv'
  BY <1>16, <1>a, <1>b DEF InputsFail, At, TypeOK, NodeRecord, RunnerRecord,
      AttemptRecord, durable, external, NoId, AttemptErrs, BestEffortAttempts,
      Upserted, NewAttempt, PreFencePCs
<1>17. ASSUME SetStarting PROVE SubmissionInv'
  BY <1>17, <1>a, <1>b DEF SetStarting, At, TypeOK, NodeRecord, RunnerRecord,
      AttemptRecord, durable, external, NoId, SetNodeStatus, Goto, PreFencePCs
<1>18. ASSUME PrepareFails PROVE SubmissionInv'
  BY <1>18, <1>a, <1>b DEF PrepareFails, At, TypeOK, NodeRecord, RunnerRecord,
      AttemptRecord, durable, external, NoId, AttemptErrs, BestEffortAttempts,
      Upserted, NewAttempt, PreFencePCs
<1>19. ASSUME SetReleasing PROVE SubmissionInv'
  BY <1>19, <1>a, <1>b DEF SetReleasing, At, TypeOK, NodeRecord, RunnerRecord,
      AttemptRecord, durable, external, NoId, SetNodeStatus, Goto, PreFencePCs
<1>20. ASSUME OpenAttempt PROVE SubmissionInv'
  BY <1>20, <1>a, <1>b DEF OpenAttempt, At, TypeOK, NodeRecord, RunnerRecord,
      AttemptRecord, durable, external, NoId, Goto, BestEffortAttempts,
      Upserted, NewAttempt, OpenedNode, OpenedAttempts, PreFencePCs
<1>21. ~OpenFails
  BY <1>b DEF OpenFails
<1>22. ASSUME StartNode PROVE SubmissionInv'
  BY <1>22, <1>a, <1>b DEF StartNode, At, TypeOK, NodeRecord, RunnerRecord,
      AttemptRecord, durable, external, NoId, Goto, Goto, JobPresent,
      PreFencePCs
<1>23. ASSUME StartNodeFails PROVE SubmissionInv'
  BY <1>23, <1>a, <1>b DEF StartNodeFails, At, TypeOK, NodeRecord,
      RunnerRecord, AttemptRecord, durable, external, NoId, Goto, PreFencePCs
<1>24. ASSUME RegisterHandle PROVE SubmissionInv'
  BY <1>24, <1>a, <1>b DEF RegisterHandle, At, TypeOK, NodeRecord,
      RunnerRecord, AttemptRecord, durable, external, NoId, Goto, PreFencePCs
<1>25. ASSUME PersistHandle PROVE SubmissionInv'
  BY <1>25, <1>a, <1>b DEF PersistHandle, At, TypeOK, NodeRecord,
      RunnerRecord, AttemptRecord, durable, external, NoId, Goto, HandleNode,
      HandleAttempts, PreFencePCs
<1>26. ASSUME UpsertStarted PROVE SubmissionInv'
  BY <1>26, <1>a, <1>b DEF UpsertStarted, At, TypeOK, NodeRecord,
      RunnerRecord, AttemptRecord, durable, external, NoId, Goto,
      BestEffortAttempts, Upserted, NewAttempt, PreFencePCs
<1>27. ASSUME MarkRunning PROVE SubmissionInv'
  BY <1>27, <1>a, <1>b DEF MarkRunning, At, TypeOK, NodeRecord, RunnerRecord,
      AttemptRecord, durable, external, NoId, SetNodeStatus, Goto, PreFencePCs
<1>28. ASSUME Reattach PROVE SubmissionInv'
  <2>1. \A k \in Attempts : jobs'[k] # "none" => jobs[k] # "none"
    BY <1>28 DEF Reattach, CancelNodeSucceeds, CancelNodeFails, JobPresent, TypeOK
  <2>2. runner'.pc \in {"wait", "unresolved"}
    BY <1>28 DEF Reattach, Goto, TypeOK, RunnerRecord
  <2>3. UNCHANGED <<node, attempts, execs>>
    BY <1>28 DEF Reattach, durable
  <2> QED BY <2>1, <2>2, <2>3 DEF At, PreFencePCs
<1>29. ASSUME IdentityFound PROVE SubmissionInv'
  BY <1>29, <1>a, <1>b DEF IdentityFound, At, TypeOK, NodeRecord,
      RunnerRecord, AttemptRecord, durable, external, NoId, Goto, PreFencePCs
<1>30. ASSUME IdentityUnresolved PROVE SubmissionInv'
  BY <1>30, <1>a, <1>b DEF IdentityUnresolved, At, TypeOK, NodeRecord,
      RunnerRecord, AttemptRecord, durable, external, NoId, Goto, PreFencePCs
<1>31. ASSUME AttachPersist PROVE SubmissionInv'
  BY <1>31, <1>a, <1>b DEF AttachPersist, At, TypeOK, NodeRecord,
      RunnerRecord, AttemptRecord, durable, external, NoId, Goto, HandleNode,
      HandleAttempts, PreFencePCs
<1>32. ASSUME AttachWait PROVE SubmissionInv'
  <2>1. \A k \in Attempts : jobs'[k] # "none" => jobs[k] # "none"
    BY <1>32 DEF AttachWait, CancelNodeSucceeds, CancelNodeFails, JobPresent, TypeOK
  <2>2. runner'.pc \in {"wait", "unresolved"}
    BY <1>32 DEF AttachWait, Goto, TypeOK, RunnerRecord
  <2>3. UNCHANGED <<node, attempts, execs>>
    BY <1>32 DEF AttachWait, durable
  <2> QED BY <2>1, <2>2, <2>3 DEF At, PreFencePCs
<1>33. ASSUME WaitSucceeded PROVE SubmissionInv'
  BY <1>33, <1>a, <1>b DEF WaitSucceeded, At, TypeOK, NodeRecord,
      RunnerRecord, AttemptRecord, durable, external, NoId, Goto, PreFencePCs
<1>34. ASSUME WaitFailed PROVE SubmissionInv'
  BY <1>34, <1>a, <1>b DEF WaitFailed, At, TypeOK, NodeRecord, RunnerRecord,
      AttemptRecord, durable, external, NoId, AttemptErrs, BestEffortAttempts,
      Upserted, NewAttempt, PreFencePCs
<1>35. ASSUME WaitError PROVE SubmissionInv'
  BY <1>35, <1>a, <1>b DEF WaitError, At, TypeOK, NodeRecord, RunnerRecord,
      AttemptRecord, durable, external, NoId, Goto, PreFencePCs
<1>36. ASSUME RegisterOutputs PROVE SubmissionInv'
  BY <1>36, <1>a, <1>b DEF RegisterOutputs, At, TypeOK, NodeRecord,
      RunnerRecord, AttemptRecord, durable, external, NoId, Goto, PreFencePCs
<1>37. ASSUME NotifySucceeded PROVE SubmissionInv'
  BY <1>37, <1>a, <1>b DEF NotifySucceeded, At, TypeOK, NodeRecord,
      RunnerRecord, AttemptRecord, durable, external, NoId, Goto, PreFencePCs
<1>38. ASSUME CompleteAttempt PROVE SubmissionInv'
  BY <1>38, <1>a, <1>b DEF CompleteAttempt, At, TypeOK, NodeRecord,
      RunnerRecord, AttemptRecord, durable, external, NoId, Goto,
      BestEffortAttempts, Upserted, NewAttempt, PreFencePCs
<1>39. ASSUME SucceedNode PROVE SubmissionInv'
  BY <1>39, <1>a, <1>b DEF SucceedNode, At, TypeOK, NodeRecord, RunnerRecord,
      AttemptRecord, durable, external, NoId, Return, NoRunner, PreFencePCs
<1>40. ASSUME DeferFinalization PROVE SubmissionInv'
  BY <1>40, <1>a, <1>b DEF DeferFinalization, At, TypeOK, NodeRecord,
      RunnerRecord, AttemptRecord, durable, external, NoId, Goto,
      BestEffortAttempts, ProcessCompletedAttempts, PreFencePCs
<1>41. ASSUME Unresolved PROVE SubmissionInv'
  BY <1>41, <1>a, <1>b DEF Unresolved, At, TypeOK, NodeRecord, RunnerRecord,
      AttemptRecord, durable, external, NoId, NoRunner, PreFencePCs
<1>42. ASSUME FailNode PROVE SubmissionInv'
  BY <1>42, <1>a, <1>b DEF FailNode, At, TypeOK, NodeRecord, RunnerRecord,
      AttemptRecord, durable, external, NoId, Goto, FailNext, PreFencePCs
<1>43. ~FailUncounted
  BY <1>b DEF FailUncounted
<1>44. ASSUME MarkReattemptable PROVE SubmissionInv'
  BY <1>44, <1>a, <1>b DEF MarkReattemptable, At, TypeOK, NodeRecord,
      RunnerRecord, AttemptRecord, durable, external, NoId, Goto,
      BestEffortAttempts, ReattemptableAttempts, PreFencePCs
<1>45. ASSUME ResetNode PROVE SubmissionInv'
  BY <1>45, <1>a, <1>b DEF ResetNode, At, TypeOK, NodeRecord, RunnerRecord,
      AttemptRecord, durable, external, NoId, Goto, BestEffortNode,
      PreFencePCs
<1>46. ASSUME TerminalizeFailed PROVE SubmissionInv'
  BY <1>46, <1>a, <1>b DEF TerminalizeFailed, At, TypeOK, NodeRecord,
      RunnerRecord, AttemptRecord, durable, external, NoId, Goto,
      BestEffortNode, PreFencePCs
<1>47. ASSUME NotifyFailed PROVE SubmissionInv'
  BY <1>47, <1>a, <1>b DEF NotifyFailed, At, TypeOK, NodeRecord, RunnerRecord,
      AttemptRecord, durable, external, NoId, Return, NoRunner, PreFencePCs
<1>48. ASSUME CancelAttempt PROVE SubmissionInv'
  BY <1>48, <1>a, <1>b DEF CancelAttempt, At, TypeOK, NodeRecord,
      RunnerRecord, AttemptRecord, durable, external, NoId, Goto,
      BestEffortAttempts, Upserted, NewAttempt, PreFencePCs
<1>49. ASSUME CancelNodeRecord PROVE SubmissionInv'
  BY <1>49, <1>a, <1>b DEF CancelNodeRecord, At, TypeOK, NodeRecord,
      RunnerRecord, AttemptRecord, durable, external, NoId, Goto, PreFencePCs
<1>50. ASSUME NotifyCanceled PROVE SubmissionInv'
  BY <1>50, <1>a, <1>b DEF NotifyCanceled, At, TypeOK, NodeRecord,
      RunnerRecord, AttemptRecord, durable, external, NoId, Return, NoRunner,
      PreFencePCs
<1>51. ASSUME CancelBareNode PROVE SubmissionInv'
  BY <1>51, <1>a, <1>b DEF CancelBareNode, At, TypeOK, NodeRecord,
      RunnerRecord, AttemptRecord, durable, external, NoId, BestEffortNode,
      NodeTerminal, Return, NoRunner, PreFencePCs
<1>52. ~StoreErrorAborts
  BY <1>b DEF StoreErrorAborts
<1>53. ASSUME Timeout PROVE SubmissionInv'
  BY <1>53, <1>a, <1>b DEF Timeout, At, TypeOK, NodeRecord, RunnerRecord,
      AttemptRecord, durable, external, NoId, PreFencePCs
<1>54. ASSUME Crash PROVE SubmissionInv'
  BY <1>54, <1>a, <1>b DEF Crash, At, TypeOK, NodeRecord, RunnerRecord,
      AttemptRecord, durable, external, NoId, NoRunner, PreFencePCs
<1>55. ASSUME NEW j \in Attempts, JobFinishes(j) PROVE SubmissionInv'
  BY <1>55, <1>a, <1>b DEF JobFinishes, At, TypeOK, NodeRecord, RunnerRecord,
      AttemptRecord, durable, external, NoId, PreFencePCs
<1>56. ASSUME NEW j \in Attempts, JobExpires(j) PROVE SubmissionInv'
  BY <1>56, <1>a, <1>b DEF JobExpires, At, TypeOK, NodeRecord, RunnerRecord,
      AttemptRecord, durable, external, NoId, PreFencePCs
<1>57. CASE UNCHANGED vars
  BY <1>1, <1>57 DEF vars
<1> QED
  BY <1>1, <1>2, <1>3, <1>4, <1>5, <1>6, <1>7, <1>8, <1>9, <1>10,
     <1>11, <1>12, <1>13, <1>14, <1>15, <1>16, <1>17, <1>18, <1>19, <1>20,
     <1>21, <1>22, <1>23, <1>24, <1>25, <1>26, <1>27, <1>28, <1>29, <1>30,
     <1>31, <1>32, <1>33, <1>34, <1>35, <1>36, <1>37, <1>38, <1>39, <1>40,
     <1>41, <1>42, <1>43, <1>44, <1>45, <1>46, <1>47, <1>48, <1>49, <1>50,
     <1>51, <1>52, <1>53, <1>54, <1>55, <1>56, <1>57
  DEF Next, RunStep, CancelStep, RunnerStep, RealizeStep, SubmitStep, OutcomeStep

\* The anchors of a submitted attempt survive everything but a lost registry
\* write: crashes, restarts, cancellations, timeouts, failing backend calls.
THEOREM SubmissionInvariant == ASSUME MaxFaults = 0 PROVE Spec => []SubmissionInv
<1>1. Init => SubmissionInv
  BY DEF Init, SubmissionInv, NewAttempt, NoRunner, At
<1>2. SafetyInv /\ SubmissionInv /\ [Next]_vars => SubmissionInv'
  BY SubmissionStep
<1> QED BY <1>1, <1>2, SafetyInvariant, PTL DEF Spec

\* User code is started at most once (StartNode creates at most one Job over the
\* life of the node) as long as the registry loses no write.
THEOREM NoRerun == ASSUME MaxFaults = 0 PROVE Spec => []AtMostOneExecution
<1>1. SubmissionInv => AtMostOneExecution
  BY DEF SubmissionInv, AtMostOneExecution
<1> QED BY <1>1, SubmissionInvariant, PTL

\* At any moment after a submission, ClassifyReconcile leads a restarted
\* executor back to the submitted attempt.
THEOREM Recoverability == ASSUME MaxFaults = 0 PROVE Spec => []SubmittedIsRecoverable
<1>1. SafetyInv /\ SubmissionInv => SubmittedIsRecoverable
  BY DEF SafetyInv, RunnerInv, SubmissionInv, Anchored, SubmittedIsRecoverable,
     ClassifyReconcile, HasAttempt, Reattemptable, AttemptTerminal
<1> QED BY <1>1, SafetyInvariant, SubmissionInvariant, PTL

-----------------------------------------------------------------------------
(* Layer 3: the contract of a node                                         *)

\* Only StartNode starts user code.
LEMMA ExecsStep == [Next]_vars => StartNode \/ UNCHANGED execs
BY DEF Next, RunStep, CancelStep, RunnerStep, RealizeStep, SubmitStep,
   OutcomeStep, vars, durable, external, AttemptErrs,
   BeginRun, SetRunRunning, GraphNotStarted, GraphSucceeds, GraphFails,
   FastFail, SkipPending, FinalizeRead, FinalizeWrite, FinalizeError,
   HandoffFinalize, DriveEnds, CancelSignal, CancelJobs, CancelUpdateNode,
   CancelPersistIntent, CancelAbandoned, RunnerStart, Classify,
   RepairProjection, Allocate, Resume, EnvKeysCollide, BuildBindings,
   ResolveInputs, InputsFail, SetStarting, PrepareFails, SetReleasing,
   OpenAttempt, OpenFails, StartNodeFails, RegisterHandle, PersistHandle,
   UpsertStarted, MarkRunning, Reattach, IdentityFound, IdentityUnresolved,
   AttachPersist, AttachWait, WaitSucceeded, WaitFailed, WaitError,
   RegisterOutputs, NotifySucceeded, CompleteAttempt, SucceedNode,
   DeferFinalization, Unresolved, FailNode, FailUncounted, MarkReattemptable,
   ResetNode, TerminalizeFailed, NotifyFailed, CancelAttempt,
   CancelNodeRecord, NotifyCanceled, CancelBareNode, StoreErrorAborts, Admit,
   AdmitFails, CancelRequest, Timeout, Crash, Recover, JobFinishes, JobExpires

\* A success is recorded only after an execution.
LEMMA EarnedStep ==
  SafetyInv /\ (\A k \in Attempts : jobs[k] # "none" => execs > 0) /\ EarnedInv
    /\ [Next]_vars => EarnedInv'
<1> SUFFICES ASSUME SafetyInv, \A k \in Attempts : jobs[k] # "none" => execs > 0,
                    EarnedInv, [Next]_vars
             PROVE  EarnedInv'
  OBVIOUS
<1> USE DEF EarnedInv
<1>1. execs > 0 => execs' > 0
  BY ExecsStep DEF StartNode, SafetyInv, TypeOK
<1>2. ASSUME UNCHANGED <<attempts, runner>> PROVE EarnedInv'
  BY <1>1, <1>2
<1>3. ASSUME CancelPersistIntent PROVE EarnedInv'
  BY <1>1, <1>3 DEF CancelPersistIntent, At, SafetyInv, TypeOK, RunnerRecord,
      AttemptRecord, durable, IntentAttempts
<1>4. ASSUME RunnerStart PROVE EarnedInv'
  BY <1>1, <1>4 DEF RunnerStart, At, SafetyInv, TypeOK, RunnerRecord, durable
<1>5. ASSUME Classify PROVE EarnedInv'
  <2>1. PICK d : d = ClassifyReconcile(node, attempts) /\ d \in Decisions
    BY DEF ClassifyReconcile, Decisions
  <2>2. PICK pc : pc = IF runner.drive THEN DriveNext(d) ELSE RunNext(d)
    OBVIOUS
  <2>3. pc \notin {"register", "notify", "complete", "succeed"}
    BY <2>1, <2>2 DEF DriveNext, RunNext, Decisions
  <2>4. runner'.pc = pc /\ UNCHANGED attempts
    BY <1>5, <2>1, <2>2 DEF Classify, SafetyInv, TypeOK, RunnerRecord, durable
  <2> QED  BY <1>1, <2>3, <2>4
<1>6. ASSUME RepairProjection PROVE EarnedInv'
  BY <1>1, <1>6 DEF RepairProjection, At, SafetyInv, TypeOK, RunnerRecord,
      durable, Return, NoRunner
<1>7. ASSUME Allocate PROVE EarnedInv'
  <2>1. \A k \in Attempts : attempts'[k].status = "Completed"
                            => attempts[k].status = "Completed"
    <3>1. CASE MayAllocate(node, attempts)
      BY <1>7, <3>1 DEF Allocate, Upserted, NewAttempt, SafetyInv, TypeOK
    <3>2. CASE ~MayAllocate(node, attempts)
      BY <1>7, <3>2 DEF Allocate
    <3> QED BY <3>1, <3>2
  <2>2. runner'.pc \in {"bindings", "starting", "done"}
    BY <1>7
    DEF Allocate, AfterReady, Return, NoRunner, SafetyInv, TypeOK, RunnerRecord
  <2> QED BY <1>1, <2>1, <2>2
<1>8. ASSUME Resume PROVE EarnedInv'
  BY <1>1, <1>8 DEF Resume, At, SafetyInv, TypeOK, RunnerRecord, durable,
      Goto, AfterReady
<1>9. ASSUME EnvKeysCollide PROVE EarnedInv'
  BY <1>1, <1>9 DEF EnvKeysCollide, At, SafetyInv, TypeOK, RunnerRecord,
      AttemptRecord, durable, AttemptErrs, BestEffortAttempts, Upserted,
      NewAttempt
<1>10. ASSUME BuildBindings PROVE EarnedInv'
  BY <1>1, <1>10 DEF BuildBindings, At, SafetyInv, TypeOK, RunnerRecord,
      durable, Goto
<1>11. ASSUME ResolveInputs PROVE EarnedInv'
  BY <1>1, <1>11 DEF ResolveInputs, At, SafetyInv, TypeOK, RunnerRecord,
      durable, Goto
<1>12. ASSUME InputsFail PROVE EarnedInv'
  BY <1>1, <1>12 DEF InputsFail, At, SafetyInv, TypeOK, RunnerRecord,
      AttemptRecord, durable, AttemptErrs, BestEffortAttempts, Upserted,
      NewAttempt
<1>13. ASSUME SetStarting PROVE EarnedInv'
  BY <1>1, <1>13 DEF SetStarting, At, SafetyInv, TypeOK, RunnerRecord,
      durable, Goto
<1>14. ASSUME PrepareFails PROVE EarnedInv'
  BY <1>1, <1>14 DEF PrepareFails, At, SafetyInv, TypeOK, RunnerRecord,
      AttemptRecord, durable, AttemptErrs, BestEffortAttempts, Upserted,
      NewAttempt
<1>15. ASSUME SetReleasing PROVE EarnedInv'
  BY <1>1, <1>15 DEF SetReleasing, At, SafetyInv, TypeOK, RunnerRecord,
      durable, Goto
<1>16. ASSUME OpenAttempt PROVE EarnedInv'
  BY <1>1, <1>16 DEF OpenAttempt, At, SafetyInv, TypeOK, RunnerRecord,
      AttemptRecord, durable, Goto, BestEffortAttempts, Upserted, NewAttempt,
      OpenedAttempts
<1>17. ASSUME OpenFails PROVE EarnedInv'
  BY <1>1, <1>17 DEF OpenFails, At, SafetyInv, TypeOK, RunnerRecord,
      AttemptRecord, durable, Upserted, NewAttempt
<1>18. ASSUME StartNode PROVE EarnedInv'
  BY <1>1, <1>18 DEF StartNode, At, SafetyInv, TypeOK, RunnerRecord, durable,
      Goto
<1>19. ASSUME StartNodeFails PROVE EarnedInv'
  BY <1>1, <1>19 DEF StartNodeFails, At, SafetyInv, TypeOK, RunnerRecord,
      durable, Goto
<1>20. ASSUME RegisterHandle PROVE EarnedInv'
  BY <1>1, <1>20 DEF RegisterHandle, At, SafetyInv, TypeOK, RunnerRecord,
      durable, Goto
<1>21. ASSUME PersistHandle PROVE EarnedInv'
  BY <1>1, <1>21 DEF PersistHandle, At, SafetyInv, TypeOK, RunnerRecord,
      AttemptRecord, durable, Goto, HandleAttempts
<1>22. ASSUME UpsertStarted PROVE EarnedInv'
  BY <1>1, <1>22 DEF UpsertStarted, At, SafetyInv, TypeOK, RunnerRecord,
      AttemptRecord, durable, Goto, BestEffortAttempts, Upserted, NewAttempt
<1>23. ASSUME MarkRunning PROVE EarnedInv'
  BY <1>1, <1>23 DEF MarkRunning, At, SafetyInv, TypeOK, RunnerRecord,
      durable, Goto
<1>24. ASSUME Reattach PROVE EarnedInv'
  BY <1>1, <1>24 DEF Reattach, At, SafetyInv, TypeOK, RunnerRecord, durable,
      Goto
<1>25. ASSUME IdentityFound PROVE EarnedInv'
  BY <1>1, <1>25 DEF IdentityFound, At, SafetyInv, TypeOK, RunnerRecord,
      durable, Goto
<1>26. ASSUME IdentityUnresolved PROVE EarnedInv'
  BY <1>1, <1>26 DEF IdentityUnresolved, At, SafetyInv, TypeOK, RunnerRecord,
      durable, Goto
<1>27. ASSUME AttachPersist PROVE EarnedInv'
  BY <1>1, <1>27 DEF AttachPersist, At, SafetyInv, TypeOK, RunnerRecord,
      AttemptRecord, durable, Goto, HandleAttempts
<1>28. ASSUME AttachWait PROVE EarnedInv'
  BY <1>1, <1>28 DEF AttachWait, At, SafetyInv, TypeOK, RunnerRecord, durable,
      Goto
<1>29. ASSUME WaitSucceeded PROVE EarnedInv'
  BY <1>1, <1>29 DEF WaitSucceeded, At, SafetyInv, TypeOK, RunnerRecord,
      RunnerInv, durable, Goto
<1>30. ASSUME WaitFailed PROVE EarnedInv'
  BY <1>1, <1>30 DEF WaitFailed, At, SafetyInv, TypeOK, RunnerRecord,
      AttemptRecord, durable, AttemptErrs, BestEffortAttempts, Upserted,
      NewAttempt
<1>31. ASSUME WaitError PROVE EarnedInv'
  BY <1>1, <1>31 DEF WaitError, At, SafetyInv, TypeOK, RunnerRecord, durable,
      Goto
<1>32. ASSUME RegisterOutputs PROVE EarnedInv'
  BY <1>1, <1>32 DEF RegisterOutputs, At, SafetyInv, TypeOK, RunnerRecord,
      durable, Goto
<1>33. ASSUME NotifySucceeded PROVE EarnedInv'
  BY <1>1, <1>33 DEF NotifySucceeded, At, SafetyInv, TypeOK, RunnerRecord,
      durable, Goto
<1>34. ASSUME CompleteAttempt PROVE EarnedInv'
  BY <1>1, <1>34 DEF CompleteAttempt, At, SafetyInv, TypeOK, RunnerRecord,
      AttemptRecord, RunnerInv, durable, Goto, BestEffortAttempts, Upserted,
      NewAttempt
<1>35. ASSUME SucceedNode PROVE EarnedInv'
  BY <1>1, <1>35 DEF SucceedNode, At, SafetyInv, TypeOK, RunnerRecord,
      durable, Return, NoRunner
<1>36. ASSUME DeferFinalization PROVE EarnedInv'
  BY <1>1, <1>36 DEF DeferFinalization, At, SafetyInv, TypeOK, RunnerRecord,
      AttemptRecord, durable, Goto, BestEffortAttempts,
      ProcessCompletedAttempts
<1>37. ASSUME Unresolved PROVE EarnedInv'
  BY <1>1, <1>37 DEF Unresolved, At, SafetyInv, TypeOK, RunnerRecord, durable,
      NoRunner
<1>38. ASSUME FailNode PROVE EarnedInv'
  BY <1>1, <1>38 DEF FailNode, At, SafetyInv, TypeOK, RunnerRecord, durable,
      Goto, FailNext
<1>39. ASSUME FailUncounted PROVE EarnedInv'
  BY <1>1, <1>39 DEF FailUncounted, At, SafetyInv, TypeOK, RunnerRecord,
      durable, Goto
<1>40. ASSUME MarkReattemptable PROVE EarnedInv'
  BY <1>1, <1>40 DEF MarkReattemptable, At, SafetyInv, TypeOK, RunnerRecord,
      AttemptRecord, durable, Goto, BestEffortAttempts, ReattemptableAttempts
<1>41. ASSUME ResetNode PROVE EarnedInv'
  BY <1>1, <1>41 DEF ResetNode, At, SafetyInv, TypeOK, RunnerRecord, durable,
      Goto
<1>42. ASSUME TerminalizeFailed PROVE EarnedInv'
  BY <1>1, <1>42 DEF TerminalizeFailed, At, SafetyInv, TypeOK, RunnerRecord,
      durable, Goto
<1>43. ASSUME NotifyFailed PROVE EarnedInv'
  BY <1>1, <1>43 DEF NotifyFailed, At, SafetyInv, TypeOK, RunnerRecord,
      durable, Return, NoRunner
<1>44. ASSUME CancelAttempt PROVE EarnedInv'
  BY <1>1, <1>44 DEF CancelAttempt, At, SafetyInv, TypeOK, RunnerRecord,
      AttemptRecord, durable, Goto, BestEffortAttempts, Upserted, NewAttempt
<1>45. ASSUME CancelNodeRecord PROVE EarnedInv'
  BY <1>1, <1>45 DEF CancelNodeRecord, At, SafetyInv, TypeOK, RunnerRecord,
      durable, Goto
<1>46. ASSUME NotifyCanceled PROVE EarnedInv'
  BY <1>1, <1>46 DEF NotifyCanceled, At, SafetyInv, TypeOK, RunnerRecord,
      durable, Return, NoRunner
<1>47. ASSUME CancelBareNode PROVE EarnedInv'
  BY <1>1, <1>47 DEF CancelBareNode, At, SafetyInv, TypeOK, RunnerRecord,
      durable, Return, NoRunner
<1>48. ASSUME StoreErrorAborts PROVE EarnedInv'
  BY <1>1, <1>48 DEF StoreErrorAborts, At, SafetyInv, TypeOK, RunnerRecord,
      durable, Return, NoRunner
<1>49. ASSUME Timeout PROVE EarnedInv'
  BY <1>1, <1>49 DEF Timeout, At, SafetyInv, TypeOK, RunnerRecord, durable
<1>50. ASSUME Crash PROVE EarnedInv'
  BY <1>1, <1>50 DEF Crash, At, SafetyInv, TypeOK, RunnerRecord, durable,
      NoRunner
<1>51. CASE UNCHANGED <<attempts, runner>>
  BY <1>2, <1>51
<1> QED
  BY <1>2, <1>3, <1>4, <1>5, <1>6, <1>7, <1>8, <1>9, <1>10, <1>11,
     <1>12, <1>13, <1>14, <1>15, <1>16, <1>17, <1>18, <1>19, <1>20, <1>21,
     <1>22, <1>23, <1>24, <1>25, <1>26, <1>27, <1>28, <1>29, <1>30, <1>31,
     <1>32, <1>33, <1>34, <1>35, <1>36, <1>37, <1>38, <1>39, <1>40, <1>41,
     <1>42, <1>43, <1>44, <1>45, <1>46, <1>47, <1>48, <1>49, <1>50, <1>51
  DEF Next, RunStep, CancelStep, RunnerStep, RealizeStep, SubmitStep, OutcomeStep, vars, durable,
      Admit, AdmitFails, CancelRequest, BeginRun, SetRunRunning,
      GraphNotStarted, GraphSucceeds, GraphFails, FastFail, FinalizeRead,
      FinalizeWrite, FinalizeError, HandoffFinalize, DriveEnds, CancelSignal,
      CancelJobs, CancelAbandoned, Recover, SkipPending, CancelUpdateNode,
      JobFinishes, JobExpires

\* A node is settled by three steps only.
LEMMA SettleStep ==
  SafetyInv /\ [Next]_vars =>
    \/ SucceedNode \/ RepairProjection \/ TerminalizeFailed
    \/ node'.status = node.status
    \/ node'.status \notin {"Succeeded", "Failed"}
<1> SUFFICES ASSUME SafetyInv, [Next]_vars, ~SucceedNode, ~RepairProjection,
                    ~TerminalizeFailed
             PROVE  \/ node'.status = node.status
                    \/ node'.status \notin {"Succeeded", "Failed"}
  OBVIOUS
<1> USE DEF SafetyInv, TypeOK, NodeRecord
<1>1. CASE SkipPending
  BY <1>1 DEF SkipPending, BestEffortNode
<1>2. CASE CancelUpdateNode
  BY <1>2 DEF CancelUpdateNode
<1>3. CASE Allocate
  BY <1>3 DEF Allocate, AllocatedNode
<1>4. CASE Resume
  BY <1>4 DEF Resume, SetNodeStatus
<1>5. CASE BuildBindings
  BY <1>5 DEF BuildBindings, SetNodeStatus
<1>6. CASE ResolveInputs
  BY <1>6 DEF ResolveInputs, SetNodeStatus
<1>7. CASE SetStarting
  BY <1>7 DEF SetStarting, SetNodeStatus
<1>8. CASE SetReleasing
  BY <1>8 DEF SetReleasing, SetNodeStatus
<1>9. CASE MarkRunning
  BY <1>9 DEF MarkRunning, SetNodeStatus
<1>10. CASE OpenAttempt
  BY <1>10 DEF OpenAttempt, BestEffortAttempts, OpenedNode
<1>11. CASE PersistHandle
  BY <1>11 DEF PersistHandle, HandleNode
<1>12. CASE AttachPersist
  BY <1>12 DEF AttachPersist, HandleNode
<1>13. CASE ResetNode
  BY <1>13 DEF ResetNode, BestEffortNode
<1>14. CASE CancelNodeRecord
  BY <1>14 DEF CancelNodeRecord
<1>15. CASE CancelBareNode
  BY <1>15 DEF CancelBareNode, BestEffortNode
<1>16. CASE UNCHANGED node
  BY <1>16
<1> QED
  BY <1>1, <1>2, <1>3, <1>4, <1>5, <1>6, <1>7, <1>8, <1>9, <1>10,
     <1>11, <1>12, <1>13, <1>14, <1>15, <1>16
  DEF Next, RunStep, CancelStep, RunnerStep, RealizeStep, SubmitStep, OutcomeStep, vars, durable,
      BeginRun, SetRunRunning, GraphNotStarted, GraphSucceeds, GraphFails,
      FastFail, FinalizeRead, FinalizeWrite, FinalizeError, HandoffFinalize,
      DriveEnds, CancelSignal, CancelJobs, CancelPersistIntent,
      CancelAbandoned, RunnerStart, Classify, EnvKeysCollide, InputsFail,
      PrepareFails, OpenFails, StartNode, StartNodeFails, RegisterHandle,
      UpsertStarted, Reattach, IdentityFound, IdentityUnresolved, AttachWait,
      WaitSucceeded, WaitFailed, WaitError, RegisterOutputs, NotifySucceeded,
      CompleteAttempt, DeferFinalization, Unresolved, FailNode, FailUncounted,
      MarkReattemptable, NotifyFailed, CancelAttempt, NotifyCanceled,
      StoreErrorAborts, Admit, AdmitFails, CancelRequest, Timeout, Crash,
      Recover, JobFinishes, JobExpires, AttemptErrs

\* Every step of the executor is a step of NodeContract or leaves what it shows
\* unchanged.
LEMMA RefinementStep ==
  ASSUME MaxFaults = 0
  PROVE  SafetyInv /\ SubmissionInv /\ EarnedInv /\ [Next]_vars
           => [NC!ContractNext]_<<execs, Outcome>>
<1> SUFFICES ASSUME SafetyInv, SubmissionInv, EarnedInv, [Next]_vars
             PROVE  [NC!ContractNext]_<<execs, Outcome>>
  OBVIOUS
<1>0. execs \in Nat /\ execs <= 1
  BY DEF SafetyInv, TypeOK, SubmissionInv
<1>1. ASSUME StartNode PROVE NC!Execute \/ UNCHANGED <<execs, Outcome>>
  <2>1. UNCHANGED Outcome /\ Outcome = "open" /\ execs = 0
    BY <1>0, <1>1
    DEF StartNode, durable, Outcome, SafetyInv, OutcomeInv, At, SubmissionInv
  <2> QED BY <1>1, <2>1 DEF StartNode, NC!Execute
<1>2. ASSUME SucceedNode PROVE NC!Settle("Succeeded")
  BY <1>0, <1>2
  DEF SucceedNode, NC!Settle, Outcome, SafetyInv, TypeOK, NodeRecord, OutcomeInv,
      At, EarnedInv, external
<1>3. ASSUME TerminalizeFailed
      PROVE  NC!Settle("Failed") \/ UNCHANGED <<execs, Outcome>>
  BY <1>3
  DEF TerminalizeFailed, BestEffortNode, NC!Settle, Outcome, SafetyInv, TypeOK,
      NodeRecord, OutcomeInv, At, external
<1>4. ASSUME RepairProjection
      PROVE  NC!ContractNext \/ UNCHANGED <<execs, Outcome>>
  <2>1. CASE NodeTerminal(node.status) \/ UNCHANGED node
    BY <1>4, <2>1 DEF RepairProjection, BestEffortNode, Outcome, external
  <2>2. CASE ~NodeTerminal(node.status) /\ ~UNCHANGED node
    <3>1. /\ Outcome = "open" /\ UNCHANGED execs
          /\ node'.status = NodeStatusFromAttempt(attempts[runner.att])
      BY <1>4, <2>2
      DEF RepairProjection, BestEffortNode, Outcome, external, NodeTerminal,
          SafetyInv, TypeOK, NodeRecord
    <3>2. runner.att \in Attempts
      BY <1>4, <2>2
      DEF RepairProjection, At, SafetyInv, RunnerInv, TypeOK, RunnerRecord,
          SubmissionInv
    <3>3. attempts[runner.att].status = "Completed" => execs = 1
      BY <1>0, <3>2 DEF EarnedInv
    <3> QED
      BY <3>1, <3>3
      DEF NodeStatusFromAttempt, Outcome, NC!ContractNext, NC!Settle
  <2> QED BY <2>1, <2>2
<1>5. StartNode \/ UNCHANGED execs
  BY ExecsStep
<1>6. CASE ~StartNode /\ ~SucceedNode /\ ~TerminalizeFailed /\ ~RepairProjection
  BY <1>5, <1>6, SettleStep, FinalStep DEF Outcome
<1> QED BY <1>1, <1>2, <1>3, <1>4, <1>6 DEF NC!ContractNext

\* The executor implements NodeContract: seen from outside a node is executed at
\* most once, succeeds only after that, and is settled for good.
THEOREM Refinement == ASSUME MaxFaults = 0 PROVE Spec => ImplementsContract
<1>1. Init => EarnedInv /\ NC!ContractInit
  BY DEF Init, EarnedInv, NewAttempt, NoRunner, NC!ContractInit, Outcome, NewNode
<1>2. SafetyInv /\ SubmissionInv /\ EarnedInv /\ [Next]_vars => EarnedInv'
  BY EarnedStep DEF SubmissionInv
<1>3. SafetyInv /\ SubmissionInv /\ EarnedInv /\ [Next]_vars
        => [NC!ContractNext]_<<execs, Outcome>>
  BY RefinementStep
<1> QED
  BY <1>1, <1>2, <1>3, SafetyInvariant, SubmissionInvariant, PTL
  DEF Spec, ImplementsContract, NC!ContractSpec
=============================================================================
