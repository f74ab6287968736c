------------------------- MODULE NodeOutcomeProofs -------------------------
(***************************************************************************)
(* More theorems of NodeExecution: what the records, the Jobs and the      *)
(* artifact-handoff service are left with.                                 *)
(*                                                                         *)
(* RecordInv is inductive relative to SafetyInv, with any number of        *)
(* registry faults: the outcome of an attempt is final.  ToldInv is        *)
(* inductive relative to SafetyInv, SubmissionInv and RecordInv when no    *)
(* write is lost: a success is earned, and AH is never told two stories.   *)
(* AccountInv follows the run goroutine alone.                             *)
(***************************************************************************)
EXTENDS NodeExecutionProofs

-----------------------------------------------------------------------------
(* The outcome of an attempt                                               *)

GivingUp == {"fail", "reattempt", "cancelAttempt"}

\* A step that neither allocates nor writes a status of an attempt, and that takes
\* the runner nowhere it would need to know more of its attempt.
Quiet ==
  /\ node'.cur = node.cur /\ node'.realized = node.realized
  /\ \A k \in Attempts : /\ attempts'[k].status = attempts[k].status
                         /\ attempts'[k].reatt = attempts[k].reatt
  /\ \/ runner'.pc = runner.pc /\ runner'.att = runner.att
     \/ runner.pc \in OpenPCs \cup {"fail"} /\ runner'.att = runner.att
        /\ (runner.pc = "fail" => runner'.pc \notin OpenPCs)
     \/ runner'.pc \notin OpenPCs \cup GivingUp

\* The runner's attempt is a number where it matters.
LEMMA OpenHasAttempt ==
  ASSUME SafetyInv, runner.pc \in OpenPCs \cup GivingUp
  PROVE  runner.att \in Attempts /\ runner.att = node.cur
<1>1. runner.att = node.cur /\ node.cur # NoId
  BY DEF SafetyInv, RunnerInv, OpenPCs, PreFencePCs, PostFencePCs, GivingUp
<1>2. node.cur \in {NoId} \cup Attempts
  BY DEF SafetyInv, TypeOK, NodeRecord
<1> QED BY <1>1, <1>2

\* Such a step keeps RecordInv.
LEMMA QuietKeeps ==
  ASSUME SafetyInv, RecordInv, Quiet
  PROVE  RecordInv'
<1>1. /\ (node.cur <= node.realized)'
      /\ (\A k \in Attempts : k > node.realized => attempts[k].status = "None")'
      /\ (\A k \in Attempts : attempts[k].reatt => attempts[k].status # "Completed")'
  BY DEF RecordInv, Quiet
<1>2. CASE runner'.pc \notin OpenPCs \cup GivingUp
  BY <1>1, <1>2 DEF RecordInv, GivingUp
<1>3. CASE runner'.pc \in OpenPCs \cup GivingUp
  <2>1. /\ runner'.att = runner.att
        /\ runner'.pc \in OpenPCs => runner.pc \in OpenPCs
        /\ runner.pc \in OpenPCs \cup GivingUp
    BY <1>3 DEF Quiet, GivingUp
  <2>2. runner.att \in Attempts
    BY <2>1, OpenHasAttempt
  <2>3. attempts'[runner.att].status = attempts[runner.att].status
    BY <2>2 DEF Quiet
  <2>4. runner.pc \in GivingUp => attempts[runner.att].status # "Completed"
    BY DEF RecordInv, GivingUp
  <2>5. runner.pc \in OpenPCs => ~AttemptTerminal(attempts[runner.att].status)
    BY DEF RecordInv
  <2>6. attempts[runner.att].status # "Completed"
    BY <2>1, <2>4, <2>5 DEF AttemptTerminal
  <2>7. (runner.pc \in OpenPCs => ~AttemptTerminal(attempts[runner.att].status))'
    BY <2>1, <2>3, <2>5
  <2> QED BY <1>1, <2>1, <2>3, <2>6, <2>7 DEF RecordInv
<1> QED BY <1>2, <1>3

\* The steps that are quiet.
LEMMA QuietSteps ==
  ASSUME SafetyInv,
         Admit \/ AdmitFails \/ CancelRequest \/ BeginRun \/ SetRunRunning \/
         GraphNotStarted \/ GraphSucceeds \/ GraphFails \/ FastFail \/ FinalizeRead
         \/ FinalizeWrite \/ FinalizeError \/ HandoffFinalize \/ DriveEnds \/
         CancelSignal \/ CancelJobs \/ CancelAbandoned \/ Recover \/ SkipPending \/
         CancelUpdateNode \/ CancelPersistIntent \/ RunnerStart \/ RepairProjection
         \/ Resume \/ BuildBindings \/ ResolveInputs \/ SetStarting \/ SetReleasing
         \/ StartNode \/ StartNodeFails \/ RegisterHandle \/ PersistHandle \/
         MarkRunning \/ Reattach \/ IdentityFound \/ IdentityUnresolved \/
         AttachPersist \/ AttachWait \/ WaitSucceeded \/ WaitError \/
         RegisterOutputs \/ NotifySucceeded \/ SucceedNode \/ DeferFinalization \/
         Unresolved \/ FailNode \/ FailUncounted \/ TerminalizeFailed \/
         NotifyFailed \/ CancelNodeRecord \/ NotifyCanceled \/ CancelBareNode \/
         StoreErrorAborts \/ Timeout \/ Crash \/ UNCHANGED vars \/
         (\E k \in Attempts : JobFinishes(k) \/ JobExpires(k))
  PROVE  Quiet
<1> USE DEF SafetyInv, TypeOK
<1>1. ASSUME UNCHANGED <<node, attempts, runner>> PROVE Quiet
  BY <1>1 DEF Quiet

<1>2. ASSUME Admit \/ AdmitFails \/ CancelRequest \/ BeginRun \/ SetRunRunning \/
             GraphNotStarted \/ GraphSucceeds \/ GraphFails \/ FastFail \/
             FinalizeRead \/ FinalizeWrite \/ FinalizeError \/ HandoffFinalize
             \/ DriveEnds \/ CancelSignal \/ CancelJobs \/ CancelAbandoned \/
             Recover \/ UNCHANGED vars \/
             (\E k \in Attempts : JobFinishes(k) \/ JobExpires(k))
      PROVE  Quiet
  BY <1>1, <1>2 DEF Admit, AdmitFails, CancelRequest, BeginRun, SetRunRunning,
    GraphNotStarted, GraphSucceeds, GraphFails, FastFail, FinalizeRead, FinalizeWrite,
    FinalizeError, HandoffFinalize, DriveEnds, CancelSignal, CancelJobs,
    CancelAbandoned, Recover, JobFinishes, JobExpires, vars, durable
<1>3. ASSUME SkipPending PROVE Quiet
  BY <1>3 DEF SkipPending, external, BestEffortNode, NodeRecord, RunnerRecord,
    AttemptRecord, OpenPCs, PreFencePCs, PostFencePCs, GivingUp, Quiet
<1>4. ASSUME CancelUpdateNode PROVE Quiet
  BY <1>4 DEF CancelUpdateNode, external, NodeRecord, RunnerRecord, AttemptRecord,
    OpenPCs, PreFencePCs, PostFencePCs, GivingUp, Quiet
<1>5. ASSUME CancelPersistIntent PROVE Quiet
  BY <1>5 DEF CancelPersistIntent, external, IntentAttempts, NodeRecord, RunnerRecord,
    AttemptRecord, OpenPCs, PreFencePCs, PostFencePCs, GivingUp, Quiet
<1>6. ASSUME RunnerStart PROVE Quiet
  BY <1>6 DEF RunnerStart, durable, external, At, NodeRecord, RunnerRecord,
    AttemptRecord, OpenPCs, PreFencePCs, PostFencePCs, GivingUp, Quiet
<1>7. ASSUME RepairProjection PROVE Quiet
  BY <1>7 DEF RepairProjection, external, At, Return, NoRunner, BestEffortNode,
    NodeRecord, RunnerRecord, AttemptRecord, OpenPCs, PreFencePCs, PostFencePCs,
    GivingUp, Quiet
<1>8. ASSUME Resume PROVE Quiet
  BY <1>8 DEF Resume, external, At, Goto, AfterReady, SetNodeStatus, NodeRecord,
    RunnerRecord, AttemptRecord, OpenPCs, PreFencePCs, PostFencePCs, GivingUp, Quiet
<1>9. ASSUME BuildBindings PROVE Quiet
  BY <1>9 DEF BuildBindings, external, At, Goto, SetNodeStatus, NodeRecord,
    RunnerRecord, AttemptRecord, OpenPCs, PreFencePCs, PostFencePCs, GivingUp, Quiet
<1>10. ASSUME ResolveInputs PROVE Quiet
  BY <1>10 DEF ResolveInputs, external, At, Goto, SetNodeStatus, NodeRecord,
    RunnerRecord, AttemptRecord, OpenPCs, PreFencePCs, PostFencePCs, GivingUp, Quiet
<1>11. ASSUME SetStarting PROVE Quiet
  BY <1>11 DEF SetStarting, external, Goto, SetNodeStatus, NodeRecord, RunnerRecord,
    AttemptRecord, OpenPCs, PreFencePCs, PostFencePCs, GivingUp, Quiet
<1>12. ASSUME SetReleasing PROVE Quiet
  BY <1>12 DEF SetReleasing, external, At, Goto, SetNodeStatus, NodeRecord,
    RunnerRecord, AttemptRecord, OpenPCs, PreFencePCs, PostFencePCs, GivingUp, Quiet
<1>13. ASSUME StartNode PROVE Quiet
  BY <1>13 DEF StartNode, durable, At, Goto, NodeRecord, RunnerRecord, AttemptRecord,
    OpenPCs, PreFencePCs, PostFencePCs, GivingUp, Quiet
<1>14. ASSUME StartNodeFails PROVE Quiet
  BY <1>14 DEF StartNodeFails, durable, external, Goto, NodeRecord, RunnerRecord,
    AttemptRecord, OpenPCs, PreFencePCs, PostFencePCs, GivingUp, Quiet
<1>15. ASSUME RegisterHandle PROVE Quiet
  BY <1>15 DEF RegisterHandle, durable, external, At, Goto, NodeRecord, RunnerRecord,
    AttemptRecord, OpenPCs, PreFencePCs, PostFencePCs, GivingUp, Quiet
<1>16. ASSUME PersistHandle PROVE Quiet
  BY <1>16 DEF PersistHandle, external, At, Goto, HandleAttempts, HandleNode,
    NodeRecord, RunnerRecord, AttemptRecord, OpenPCs, PreFencePCs, PostFencePCs,
    GivingUp, Quiet
<1>17. ASSUME MarkRunning PROVE Quiet
  BY <1>17 DEF MarkRunning, external, At, Goto, SetNodeStatus, NodeRecord, RunnerRecord,
    AttemptRecord, OpenPCs, PreFencePCs, PostFencePCs, GivingUp, Quiet
<1>18. ASSUME Reattach PROVE Quiet
  BY <1>18 DEF Reattach, durable, At, Goto, NodeRecord, RunnerRecord, AttemptRecord,
    OpenPCs, PreFencePCs, PostFencePCs, GivingUp, Quiet
<1>19. ASSUME IdentityFound PROVE Quiet
  BY <1>19 DEF IdentityFound, durable, external, At, Goto, NodeRecord, RunnerRecord,
    AttemptRecord, OpenPCs, PreFencePCs, PostFencePCs, GivingUp, Quiet
<1>20. ASSUME IdentityUnresolved PROVE Quiet
  BY <1>20 DEF IdentityUnresolved, durable, external, At, Goto, NodeRecord,
    RunnerRecord, AttemptRecord, OpenPCs, PreFencePCs, PostFencePCs, GivingUp, Quiet
<1>21. ASSUME AttachPersist PROVE Quiet
  BY <1>21 DEF AttachPersist, external, At, Goto, HandleAttempts, HandleNode,
    NodeRecord, RunnerRecord, AttemptRecord, OpenPCs, PreFencePCs, PostFencePCs,
    GivingUp, Quiet
<1>22. ASSUME AttachWait PROVE Quiet
  BY <1>22 DEF AttachWait, durable, At, Goto, NodeRecord, RunnerRecord, AttemptRecord,
    OpenPCs, PreFencePCs, PostFencePCs, GivingUp, Quiet
<1>23. ASSUME WaitSucceeded PROVE Quiet
  BY <1>23 DEF WaitSucceeded, durable, external, At, Goto, NodeRecord, RunnerRecord,
    AttemptRecord, OpenPCs, PreFencePCs, PostFencePCs, GivingUp, Quiet
<1>24. ASSUME WaitError PROVE Quiet
  BY <1>24 DEF WaitError, durable, external, At, Goto, NodeRecord, RunnerRecord,
    AttemptRecord, OpenPCs, PreFencePCs, PostFencePCs, GivingUp, Quiet
<1>25. ASSUME RegisterOutputs PROVE Quiet
  BY <1>25 DEF RegisterOutputs, durable, At, Goto, NodeRecord, RunnerRecord,
    AttemptRecord, OpenPCs, PreFencePCs, PostFencePCs, GivingUp, Quiet
<1>26. ASSUME NotifySucceeded PROVE Quiet
  BY <1>26 DEF NotifySucceeded, durable, At, Goto, NodeRecord, RunnerRecord,
    AttemptRecord, OpenPCs, PreFencePCs, PostFencePCs, GivingUp, Quiet
<1>27. ASSUME SucceedNode PROVE Quiet
  BY <1>27 DEF SucceedNode, external, At, Return, NoRunner, NodeRecord, RunnerRecord,
    AttemptRecord, OpenPCs, PreFencePCs, PostFencePCs, GivingUp, Quiet
<1>28. ASSUME DeferFinalization PROVE Quiet
  BY <1>28 DEF DeferFinalization, external, At, Goto, BestEffortAttempts,
    ProcessCompletedAttempts, NodeRecord, RunnerRecord, AttemptRecord, OpenPCs,
    PreFencePCs, PostFencePCs, GivingUp, Quiet
<1>29. ASSUME Unresolved PROVE Quiet
  BY <1>29 DEF Unresolved, durable, external, At, NoRunner, NodeRecord, RunnerRecord,
    AttemptRecord, OpenPCs, PreFencePCs, PostFencePCs, GivingUp, Quiet
<1>30. ASSUME FailNode PROVE Quiet
  BY <1>30 DEF FailNode, durable, external, At, Goto, FailNext, NodeRecord,
    RunnerRecord, AttemptRecord, OpenPCs, PreFencePCs, PostFencePCs, GivingUp, Quiet
<1>31. ASSUME FailUncounted PROVE Quiet
  BY <1>31 DEF FailUncounted, durable, external, At, Goto, NodeRecord, RunnerRecord,
    AttemptRecord, OpenPCs, PreFencePCs, PostFencePCs, GivingUp, Quiet
<1>32. ASSUME TerminalizeFailed PROVE Quiet
  BY <1>32 DEF TerminalizeFailed, external, At, Goto, BestEffortNode, NodeRecord,
    RunnerRecord, AttemptRecord, OpenPCs, PreFencePCs, PostFencePCs, GivingUp, Quiet
<1>33. ASSUME NotifyFailed PROVE Quiet
  BY <1>33 DEF NotifyFailed, durable, At, Return, NoRunner, NodeRecord, RunnerRecord,
    AttemptRecord, OpenPCs, PreFencePCs, PostFencePCs, GivingUp, Quiet
<1>34. ASSUME CancelNodeRecord PROVE Quiet
  BY <1>34 DEF CancelNodeRecord, external, At, Goto, NodeRecord, RunnerRecord,
    AttemptRecord, OpenPCs, PreFencePCs, PostFencePCs, GivingUp, Quiet
<1>35. ASSUME NotifyCanceled PROVE Quiet
  BY <1>35 DEF NotifyCanceled, durable, At, Return, NoRunner, NodeRecord, RunnerRecord,
    AttemptRecord, OpenPCs, PreFencePCs, PostFencePCs, GivingUp, Quiet
<1>36. ASSUME CancelBareNode PROVE Quiet
  BY <1>36 DEF CancelBareNode, external, At, Return, NoRunner, BestEffortNode,
    NodeRecord, RunnerRecord, AttemptRecord, OpenPCs, PreFencePCs, PostFencePCs,
    GivingUp, Quiet
<1>37. ASSUME StoreErrorAborts PROVE Quiet
  BY <1>37 DEF StoreErrorAborts, durable, external, Return, NoRunner, AbortPCs,
    NodeRecord, RunnerRecord, AttemptRecord, OpenPCs, PreFencePCs, PostFencePCs,
    GivingUp, Quiet
<1>38. ASSUME Timeout PROVE Quiet
  BY <1>38 DEF Timeout, durable, external, NodeRecord, RunnerRecord, AttemptRecord,
    OpenPCs, PreFencePCs, PostFencePCs, GivingUp, Quiet
<1>39. ASSUME Crash PROVE Quiet
  BY <1>39 DEF Crash, durable, external, NoRunner, Goroutine, NodeRecord, RunnerRecord,
    AttemptRecord, OpenPCs, PreFencePCs, PostFencePCs, GivingUp, Quiet
<1> QED
  BY <1>2, <1>3, <1>4, <1>5, <1>6, <1>7, <1>8, <1>9, <1>10, <1>11, <1>12, <1>13, <1>14,
    <1>15, <1>16, <1>17, <1>18, <1>19, <1>20, <1>21, <1>22, <1>23, <1>24, <1>25, <1>26,
    <1>27, <1>28, <1>29, <1>30, <1>31, <1>32, <1>33, <1>34, <1>35, <1>36, <1>37, <1>38,
    <1>39

\* What an UpsertAttempt of the runner's attempt does to the records.
LEMMA UpsertFacts ==
  ASSUME SafetyInv, NEW k \in Attempts, NEW status, NEW cause,
         attempts' = Upserted(attempts, k, NewAttempt(status, cause))
  PROVE  /\ attempts'[k].status = status /\ ~attempts'[k].reatt
         /\ \A j \in Attempts \ {k} : attempts'[j] = attempts[j]
BY DEF SafetyInv, TypeOK, Upserted, NewAttempt

\* A status that is written over an attempt that is open, or over one that did not
\* complete, keeps RecordInv, if the runner goes where its attempt may be so; and no
\* outcome is lost.
LEMMA UpsertKeeps ==
  ASSUME SafetyInv, RecordInv, runner.pc \in OpenPCs \cup GivingUp,
         NEW status \in {"Started", "Completed", "Errored"}, NEW cause,
         attempts' = Upserted(attempts, runner.att, NewAttempt(status, cause)),
         node'.cur = node.cur, node'.realized = node.realized,
         runner'.att = runner.att,
         runner'.pc \in OpenPCs => status = "Started",
         runner'.pc \in GivingUp => status = "Errored",
         runner.pc \in GivingUp => status = "Errored"
  PROVE  /\ RecordInv'
         /\ \A k \in Attempts : AttemptTerminal(attempts[k].status)
              => attempts'[k].status = attempts[k].status
<1> DEFINE a == runner.att
<1>1. a \in Attempts /\ a = node.cur
  BY OpenHasAttempt
<1>2. /\ attempts'[a].status = status /\ ~attempts'[a].reatt
      /\ \A j \in Attempts \ {a} : attempts'[j] = attempts[j]
  BY <1>1, UpsertFacts
<1>3. /\ runner.pc \in OpenPCs => ~AttemptTerminal(attempts[a].status)
      /\ runner.pc \in GivingUp => attempts[a].status # "Completed"
  BY DEF RecordInv, GivingUp
<1>4. attempts \in [Attempts -> AttemptRecord] /\ node.realized \in Nat /\ node.cur \in Nat
  BY CeilingAssumption DEF SafetyInv, TypeOK, NodeRecord, Attempts, NoId
<1>5. node.cur <= node.realized /\ Attempts \subseteq Nat
  BY DEF RecordInv, Attempts
<1> HIDE DEF a
<1>6. \A k \in Attempts : AttemptTerminal(attempts[k].status)
        => attempts'[k].status = attempts[k].status
  BY <1>2, <1>3 DEF AttemptTerminal
<1>7. (\A k \in Attempts : k > node.realized => attempts[k].status = "None")'
  <2> SUFFICES ASSUME NEW k \in Attempts, k > node.realized
               PROVE  attempts'[k].status = "None"
    OBVIOUS
  <2>1. k # a
    BY <1>1, <1>4, <1>5
  <2> QED BY <1>2, <2>1 DEF RecordInv
<1>8. (\A k \in Attempts : attempts[k].reatt => attempts[k].status # "Completed")'
  BY <1>2 DEF RecordInv
<1>9. /\ (runner.pc \in OpenPCs => ~AttemptTerminal(attempts[runner.att].status))'
      /\ (runner.pc \in GivingUp => attempts[runner.att].status # "Completed")'
  <2>1. attempts'[runner'.att].status = status
    BY <1>2 DEF a
  <2> QED BY <2>1 DEF AttemptTerminal
<1> QED BY <1>5, <1>6, <1>7, <1>8, <1>9 DEF RecordInv, GivingUp

\* No step of any goroutine, with any registry write lost, changes the outcome of an
\* attempt, and the runner keeps to open attempts.
AttemptsKeepOutcome ==
  \A k \in Attempts : AttemptTerminal(attempts[k].status)
                        => attempts'[k].status = attempts[k].status

\* The classification sends the runner to work only on an attempt that is open.
LEMMA ClassifyOpens ==
  ASSUME SafetyInv, RecordInv, Classify
  PROVE  RecordInv' /\ AttemptsKeepOutcome
<1>1. UNCHANGED <<node, attempts>>
  BY DEF Classify, durable
<1> DEFINE d == ClassifyReconcile(node, attempts)
           pc == IF runner.drive THEN DriveNext(d) ELSE RunNext(d)
           a == attempts[node.cur]
<1>2. runner'.pc = pc /\ runner'.att = node.cur
  BY DEF Classify, SafetyInv, TypeOK, RunnerRecord
<1>3. d \in Decisions
  BY DEF ClassifyReconcile, Decisions
<1>4. node.cur # NoId <=> HasAttempt(node, attempts)
  BY DEF SafetyInv, RunnerInv, HasAttempt
<1>5. d \in {"Reattach", "ResolveByIdentity", "ResumePreFence"} => ~AttemptTerminal(a.status)
  BY <1>4 DEF ClassifyReconcile, SafetyInv, RunnerInv
<1>6. d = "Fresh" /\ node.cur # NoId => a.status # "Completed"
  <2> SUFFICES ASSUME d = "Fresh", node.cur # NoId PROVE a.status # "Completed"
    OBVIOUS
  <2>1. Reattemptable(a)
    BY <1>4 DEF ClassifyReconcile
  <2>2. node.cur \in Attempts
    BY DEF SafetyInv, TypeOK, NodeRecord
  <2> QED BY <2>1, <2>2 DEF Reattemptable, RecordInv
<1> HIDE DEF d
<1>7. pc \in OpenPCs => ~AttemptTerminal(a.status)
  <2>1. pc \in OpenPCs => d \in {"Reattach", "ResolveByIdentity", "ResumePreFence"}
    BY <1>3 DEF RunNext, DriveNext, Decisions, OpenPCs, PreFencePCs, PostFencePCs
  <2> QED BY <1>5, <2>1
<1>8. pc \in GivingUp => a.status # "Completed"
  <2>1. pc \in GivingUp => node.cur # NoId /\ d \in {"Fresh", "ResumePreFence"}
    BY <1>3 DEF RunNext, DriveNext, Decisions, GivingUp
  <2> QED BY <1>5, <1>6, <2>1 DEF AttemptTerminal
<1> HIDE DEF pc
<1> QED BY <1>1, <1>2, <1>7, <1>8 DEF RecordInv, GivingUp, AttemptsKeepOutcome

\* A new attempt takes a number that was never used.
LEMMA AllocateOpens ==
  ASSUME SafetyInv, RecordInv, Allocate
  PROVE  RecordInv' /\ AttemptsKeepOutcome
<1> DEFINE k == node.realized + 1
<1>1. CASE ~MayAllocate(node, attempts)
  <2>1. Quiet
    BY <1>1 DEF Allocate, Return, NoRunner, Quiet, OpenPCs, PreFencePCs, PostFencePCs,
                GivingUp
  <2> QED BY <2>1, QuietKeeps DEF Quiet, AttemptsKeepOutcome
<1>2. CASE MayAllocate(node, attempts)
  <2>0. node.realized \in Nat /\ node.realized < Ceiling /\ node \in NodeRecord
    BY DEF Allocate, At, SafetyInv, TypeOK, NodeRecord, RealizationInv
  <2>1. k \in Attempts /\ k > node.realized /\ k # NoId
    BY <2>0, CeilingAssumption DEF Attempts, NoId
  <2>2. node'.cur = k /\ node'.realized = k
    BY <1>2, <2>0 DEF Allocate, AllocatedNode, NextAttempt, NodeRecord
  <2>3. attempts' = Upserted(attempts, k, NewAttempt("Prepared", "none"))
    BY <1>2 DEF Allocate, NextAttempt
  <2>4. runner'.att = k /\ runner'.pc \in {"bindings", "starting"}
    BY <1>2 DEF Allocate, NextAttempt, AfterReady, SafetyInv, TypeOK, RunnerRecord
  <2>5. /\ attempts'[k].status = "Prepared" /\ ~attempts'[k].reatt
        /\ \A j \in Attempts \ {k} : attempts'[j] = attempts[j]
    BY <2>1, <2>3, UpsertFacts
  <2>6. attempts[k].status = "None"
    BY <2>1 DEF RecordInv
  <2>7. AttemptsKeepOutcome
    BY <2>5, <2>6 DEF AttemptsKeepOutcome, AttemptTerminal
  <2>8. (\A j \in Attempts : j > node.realized => attempts[j].status = "None")'
    <3> SUFFICES ASSUME NEW j \in Attempts, j > k PROVE attempts'[j].status = "None"
      BY <2>2
    <3>1. j # k /\ j > node.realized
      BY <2>0 DEF Attempts
    <3> QED BY <2>5, <3>1 DEF RecordInv
  <2>9. (\A j \in Attempts : attempts[j].reatt => attempts[j].status # "Completed")'
    BY <2>5 DEF RecordInv
  <2>10. node'.cur <= node'.realized
    BY <2>0, <2>2
  <2> QED BY <2>4, <2>5, <2>7, <2>8, <2>9, <2>10 DEF RecordInv, AttemptTerminal
<1> QED BY <1>1, <1>2

\* Every step keeps RecordInv and the outcomes.
LEMMA RecordStep ==
  ASSUME SafetyInv, RecordInv, [Next]_vars
  PROVE  RecordInv' /\ AttemptsKeepOutcome
<1>1. ASSUME Quiet PROVE RecordInv' /\ AttemptsKeepOutcome
  BY <1>1, QuietKeeps DEF Quiet, AttemptsKeepOutcome
<1> USE DEF SafetyInv, TypeOK
<1>2. ASSUME EnvKeysCollide PROVE RecordInv' /\ AttemptsKeepOutcome
  <2>1. /\ runner.pc \in OpenPCs \cup GivingUp /\ runner'.att = runner.att
        /\ node'.cur = node.cur /\ node'.realized = node.realized
        /\ runner'.pc \in OpenPCs => "Errored" = "Started"
        /\ runner'.pc \in GivingUp => "Errored" = "Errored"
        /\ runner.pc \in GivingUp => "Errored" = "Errored"
    BY <1>2 DEF EnvKeysCollide, At, AttemptErrs, external, BestEffortAttempts,
      NodeRecord, RunnerRecord, OpenPCs, PreFencePCs, PostFencePCs, GivingUp
  <2>2. CASE attempts' = Upserted(attempts, runner.att, NewAttempt("Errored", "failed"))
    BY <2>1, <2>2, UpsertKeeps DEF AttemptsKeepOutcome
  <2>3. CASE attempts' = attempts
    <3>1. Quiet
      BY <1>2, <2>1, <2>3 DEF EnvKeysCollide, At, AttemptErrs, external,
        BestEffortAttempts, NodeRecord, RunnerRecord, OpenPCs, PreFencePCs,
        PostFencePCs, GivingUp, Quiet
    <3> QED BY <1>1, <3>1
  <2> QED BY <1>2, <2>2, <2>3 DEF EnvKeysCollide, AttemptErrs, BestEffortAttempts
<1>3. ASSUME InputsFail PROVE RecordInv' /\ AttemptsKeepOutcome
  <2>1. /\ runner.pc \in OpenPCs \cup GivingUp /\ runner'.att = runner.att
        /\ node'.cur = node.cur /\ node'.realized = node.realized
        /\ runner'.pc \in OpenPCs => "Errored" = "Started"
        /\ runner'.pc \in GivingUp => "Errored" = "Errored"
        /\ runner.pc \in GivingUp => "Errored" = "Errored"
    BY <1>3 DEF InputsFail, At, AttemptErrs, external, BestEffortAttempts, NodeRecord,
      RunnerRecord, OpenPCs, PreFencePCs, PostFencePCs, GivingUp
  <2>2. CASE attempts' = Upserted(attempts, runner.att, NewAttempt("Errored", "failed"))
    BY <2>1, <2>2, UpsertKeeps DEF AttemptsKeepOutcome
  <2>3. CASE attempts' = attempts
    <3>1. Quiet
      BY <1>3, <2>1, <2>3 DEF InputsFail, At, AttemptErrs, external, BestEffortAttempts,
        NodeRecord, RunnerRecord, OpenPCs, PreFencePCs, PostFencePCs, GivingUp, Quiet
    <3> QED BY <1>1, <3>1
  <2> QED BY <1>3, <2>2, <2>3 DEF InputsFail, AttemptErrs, BestEffortAttempts
<1>4. ASSUME PrepareFails PROVE RecordInv' /\ AttemptsKeepOutcome
  <2>1. /\ runner.pc \in OpenPCs \cup GivingUp /\ runner'.att = runner.att
        /\ node'.cur = node.cur /\ node'.realized = node.realized
        /\ runner'.pc \in OpenPCs => "Errored" = "Started"
        /\ runner'.pc \in GivingUp => "Errored" = "Errored"
        /\ runner.pc \in GivingUp => "Errored" = "Errored"
    BY <1>4 DEF PrepareFails, At, AttemptErrs, external, BestEffortAttempts, NodeRecord,
      RunnerRecord, OpenPCs, PreFencePCs, PostFencePCs, GivingUp
  <2>2. CASE attempts' = Upserted(attempts, runner.att, NewAttempt("Errored", "failed"))
    BY <2>1, <2>2, UpsertKeeps DEF AttemptsKeepOutcome
  <2>3. CASE attempts' = attempts
    <3>1. Quiet
      BY <1>4, <2>1, <2>3 DEF PrepareFails, At, AttemptErrs, external,
        BestEffortAttempts, NodeRecord, RunnerRecord, OpenPCs, PreFencePCs,
        PostFencePCs, GivingUp, Quiet
    <3> QED BY <1>1, <3>1
  <2> QED BY <1>4, <2>2, <2>3 DEF PrepareFails, AttemptErrs, BestEffortAttempts
<1>5. ASSUME WaitFailed PROVE RecordInv' /\ AttemptsKeepOutcome
  <2>1. /\ runner.pc \in OpenPCs \cup GivingUp /\ runner'.att = runner.att
        /\ node'.cur = node.cur /\ node'.realized = node.realized
        /\ runner'.pc \in OpenPCs => "Errored" = "Started"
        /\ runner'.pc \in GivingUp => "Errored" = "Errored"
        /\ runner.pc \in GivingUp => "Errored" = "Errored"
    BY <1>5 DEF WaitFailed, At, AttemptErrs, external, BestEffortAttempts, NodeRecord,
      RunnerRecord, OpenPCs, PreFencePCs, PostFencePCs, GivingUp
  <2>2. CASE attempts' = Upserted(attempts, runner.att, NewAttempt("Errored", "failed"))
    BY <2>1, <2>2, UpsertKeeps DEF AttemptsKeepOutcome
  <2>3. CASE attempts' = attempts
    <3>1. Quiet
      BY <1>5, <2>1, <2>3 DEF WaitFailed, At, AttemptErrs, external, BestEffortAttempts,
        NodeRecord, RunnerRecord, OpenPCs, PreFencePCs, PostFencePCs, GivingUp, Quiet
    <3> QED BY <1>1, <3>1
  <2> QED BY <1>5, <2>2, <2>3 DEF WaitFailed, AttemptErrs, BestEffortAttempts
<1>6. ASSUME OpenFails PROVE RecordInv' /\ AttemptsKeepOutcome
  <2>1. /\ runner.pc \in OpenPCs \cup GivingUp /\ runner'.att = runner.att
        /\ node'.cur = node.cur /\ node'.realized = node.realized
        /\ runner'.pc \in OpenPCs => "Errored" = "Started"
        /\ runner'.pc \in GivingUp => "Errored" = "Errored"
        /\ runner.pc \in GivingUp => "Errored" = "Errored"
    BY <1>6 DEF OpenFails, external, At, NodeRecord, RunnerRecord, OpenPCs, PreFencePCs,
      PostFencePCs, GivingUp
  <2>2. CASE attempts' = Upserted(attempts, runner.att, NewAttempt("Errored", "failed"))
    BY <2>1, <2>2, UpsertKeeps DEF AttemptsKeepOutcome
  <2>3. CASE attempts' = attempts
    <3>1. Quiet
      BY <1>6, <2>1, <2>3 DEF OpenFails, external, At, NodeRecord, RunnerRecord,
        OpenPCs, PreFencePCs, PostFencePCs, GivingUp, Quiet
    <3> QED BY <1>1, <3>1
  <2> QED BY <1>6, <2>2, <2>3 DEF OpenFails
<1>7. ASSUME UpsertStarted PROVE RecordInv' /\ AttemptsKeepOutcome
  <2>1. /\ runner.pc \in OpenPCs \cup GivingUp /\ runner'.att = runner.att
        /\ node'.cur = node.cur /\ node'.realized = node.realized
        /\ runner'.pc \in OpenPCs => "Started" = "Started"
        /\ runner'.pc \in GivingUp => "Started" = "Errored"
        /\ runner.pc \in GivingUp => "Started" = "Errored"
    BY <1>7 DEF UpsertStarted, external, At, Goto, BestEffortAttempts, NodeRecord,
      RunnerRecord, OpenPCs, PreFencePCs, PostFencePCs, GivingUp
  <2>2. CASE attempts' = Upserted(attempts, runner.att, NewAttempt("Started", "none"))
    BY <2>1, <2>2, UpsertKeeps DEF AttemptsKeepOutcome
  <2>3. CASE attempts' = attempts
    <3>1. Quiet
      BY <1>7, <2>1, <2>3 DEF UpsertStarted, external, At, Goto, BestEffortAttempts,
        NodeRecord, RunnerRecord, OpenPCs, PreFencePCs, PostFencePCs, GivingUp, Quiet
    <3> QED BY <1>1, <3>1
  <2> QED BY <1>7, <2>2, <2>3 DEF UpsertStarted, BestEffortAttempts
<1>8. ASSUME CompleteAttempt PROVE RecordInv' /\ AttemptsKeepOutcome
  <2>1. /\ runner.pc \in OpenPCs \cup GivingUp /\ runner'.att = runner.att
        /\ node'.cur = node.cur /\ node'.realized = node.realized
        /\ runner'.pc \in OpenPCs => "Completed" = "Started"
        /\ runner'.pc \in GivingUp => "Completed" = "Errored"
        /\ runner.pc \in GivingUp => "Completed" = "Errored"
    BY <1>8 DEF CompleteAttempt, external, At, Goto, BestEffortAttempts, NodeRecord,
      RunnerRecord, OpenPCs, PreFencePCs, PostFencePCs, GivingUp
  <2>2. CASE attempts' = Upserted(attempts, runner.att, NewAttempt("Completed", "finished"))
    BY <2>1, <2>2, UpsertKeeps DEF AttemptsKeepOutcome
  <2>3. CASE attempts' = attempts
    <3>1. Quiet
      BY <1>8, <2>1, <2>3 DEF CompleteAttempt, external, At, Goto, BestEffortAttempts,
        NodeRecord, RunnerRecord, OpenPCs, PreFencePCs, PostFencePCs, GivingUp, Quiet
    <3> QED BY <1>1, <3>1
  <2> QED BY <1>8, <2>2, <2>3 DEF CompleteAttempt, BestEffortAttempts
<1>9. ASSUME CancelAttempt PROVE RecordInv' /\ AttemptsKeepOutcome
  <2>1. /\ runner.pc \in OpenPCs \cup GivingUp /\ runner'.att = runner.att
        /\ node'.cur = node.cur /\ node'.realized = node.realized
        /\ runner'.pc \in OpenPCs => "Errored" = "Started"
        /\ runner'.pc \in GivingUp => "Errored" = "Errored"
        /\ runner.pc \in GivingUp => "Errored" = "Errored"
    BY <1>9 DEF CancelAttempt, external, At, Goto, BestEffortAttempts, NodeRecord,
      RunnerRecord, OpenPCs, PreFencePCs, PostFencePCs, GivingUp
  <2>2. CASE attempts' = Upserted(attempts, runner.att, NewAttempt("Errored", "canceled"))
    BY <2>1, <2>2, UpsertKeeps DEF AttemptsKeepOutcome
  <2>3. CASE attempts' = attempts
    <3>1. Quiet
      BY <1>9, <2>1, <2>3 DEF CancelAttempt, external, At, Goto, BestEffortAttempts,
        NodeRecord, RunnerRecord, OpenPCs, PreFencePCs, PostFencePCs, GivingUp, Quiet
    <3> QED BY <1>1, <3>1
  <2> QED BY <1>9, <2>2, <2>3 DEF CancelAttempt, BestEffortAttempts
<1>10. ASSUME OpenAttempt PROVE RecordInv' /\ AttemptsKeepOutcome
  <2>0. runner.pc = "gate" /\ runner'.att = runner.att /\ runner'.pc \in {"failed", "submit"}
        /\ node'.cur = node.cur /\ node'.realized = node.realized
    BY <1>10 DEF OpenAttempt, At, Goto, OpenedNode, RunnerRecord, NodeRecord
  <2>1. /\ runner.pc \in OpenPCs /\ runner'.pc \notin GivingUp /\ runner.pc \notin GivingUp
        /\ runner'.pc = "failed" => runner'.pc \notin OpenPCs
    BY <2>0 DEF OpenPCs, PreFencePCs, PostFencePCs, GivingUp
  <2>2. CASE runner'.pc = "failed"
            /\ attempts' = Upserted(attempts, runner.att, NewAttempt("Errored", "failed"))
    BY <2>0, <2>1, <2>2, UpsertKeeps DEF AttemptsKeepOutcome
  <2>3. CASE attempts' = attempts
    <3>1. Quiet
      BY <2>0, <2>1, <2>3 DEF Quiet
    <3> QED BY <1>1, <3>1
  <2>4. CASE attempts' = OpenedAttempts(attempts, runner.att)
    <3>0. \A k \in Attempts : /\ attempts'[k].status = attempts[k].status
                              /\ attempts'[k].reatt = attempts[k].reatt
      BY <2>4 DEF OpenedAttempts, AttemptRecord
    <3>1. Quiet
      BY <2>0, <2>1, <3>0 DEF Quiet
    <3> QED BY <1>1, <3>1
  <2>5. \/ /\ runner'.pc = "failed"
           /\ \/ attempts' = Upserted(attempts, runner.att, NewAttempt("Errored", "failed"))
              \/ attempts' = attempts
        \/ attempts' = OpenedAttempts(attempts, runner.att)
    BY <1>10 DEF OpenAttempt, BestEffortAttempts, Goto, RunnerRecord
  <2> QED BY <2>2, <2>3, <2>4, <2>5
<1>11. ASSUME MarkReattemptable PROVE RecordInv' /\ AttemptsKeepOutcome
  <2>0. /\ runner.pc = "reattempt" /\ runner'.pc = "reset" /\ node' = node
        /\ attempts' \in {attempts, ReattemptableAttempts(attempts, runner.att)}
    BY <1>11 DEF MarkReattemptable, At, Goto, BestEffortAttempts, RunnerRecord
  <2>1. attempts[runner.att].status # "Completed"
    BY <2>0 DEF RecordInv
  <2>2. \A k \in Attempts : /\ attempts'[k].status = attempts[k].status
                            /\ k # runner.att => attempts'[k].reatt = attempts[k].reatt
    BY <2>0 DEF ReattemptableAttempts, AttemptRecord
  <2>3. (\A k \in Attempts : attempts[k].reatt => attempts[k].status # "Completed")'
    BY <2>1, <2>2 DEF RecordInv
  <2>4. runner'.pc \notin OpenPCs \cup GivingUp
    BY <2>0 DEF OpenPCs, PreFencePCs, PostFencePCs, GivingUp
  <2> QED BY <2>0, <2>2, <2>3, <2>4 DEF RecordInv, AttemptsKeepOutcome, GivingUp
<1>12. ASSUME ResetNode PROVE RecordInv' /\ AttemptsKeepOutcome
  <2>0. /\ runner'.pc = "classify" /\ attempts' = attempts
        /\ node'.cur \in {node.cur, NoId} /\ node'.realized = node.realized
    BY <1>12 DEF ResetNode, Goto, BestEffortNode, RunnerRecord, NodeRecord
  <2>1. runner'.pc \notin OpenPCs \cup GivingUp
    BY <2>0 DEF OpenPCs, PreFencePCs, PostFencePCs, GivingUp
  <2>2. node'.cur <= node'.realized
    BY <2>0, CeilingAssumption DEF RecordInv, NodeRecord, NoId
  <2> QED BY <2>0, <2>1, <2>2 DEF RecordInv, AttemptsKeepOutcome, GivingUp
<1>13. ASSUME ~EnvKeysCollide, ~InputsFail, ~PrepareFails, ~WaitFailed, ~OpenFails,
             ~UpsertStarted, ~CompleteAttempt, ~CancelAttempt, ~OpenAttempt,
             ~MarkReattemptable, ~ResetNode, ~Classify, ~Allocate
      PROVE  Quiet
  BY <1>13, QuietSteps
  DEF Next, RunStep, CancelStep, RunnerStep, RealizeStep, SubmitStep, OutcomeStep
<1> QED
  BY <1>1, <1>2, <1>3, <1>4, <1>5, <1>6, <1>7, <1>8, <1>9, <1>10, <1>11, <1>12, <1>13,
    ClassifyOpens, AllocateOpens

\* RecordInv holds throughout.
LEMMA RecordInvariant == Spec => []RecordInv
<1>1. Init => RecordInv
  BY CeilingAssumption DEF Init, RecordInv, NewAttempt, NewNode, NoRunner, NoId, OpenPCs,
     PreFencePCs, PostFencePCs, Attempts
<1>2. SafetyInv /\ RecordInv /\ [Next]_vars => RecordInv'
  BY RecordStep
<1> QED BY <1>1, <1>2, SafetyInvariant, PTL DEF Spec

\* A Completed attempt stays Completed and an Errored one Errored, whatever
\* UpsertAttempt a cancellation, a recovery or a lost write leads to.
THEOREM AttemptOutcomesAreFinal == Spec => AttemptOutcomeIsFinal
<1>1. SafetyInv /\ RecordInv /\ [Next]_vars =>
        [\A k \in Attempts : AttemptTerminal(attempts[k].status)
            => attempts'[k].status = attempts[k].status]_vars
  BY RecordStep DEF AttemptsKeepOutcome
<1> QED BY <1>1, SafetyInvariant, RecordInvariant, PTL DEF Spec, AttemptOutcomeIsFinal

-----------------------------------------------------------------------------
(* The end of the run goroutine                                            *)

\* A step of another goroutine leaves the run goroutine where it is.
Elsewhere ==
  /\ run' = run /\ active'.pc = active.pc /\ active'.outcome = active.outcome
  /\ active.unresolved => active'.unresolved

\* The steps that are taken elsewhere: at most a handle, the context or the mark
\* is set.
LEMMA ElsewhereSteps ==
  ASSUME TypeOK,
         FastFail \/ CancelSignal \/ CancelJobs \/ CancelUpdateNode \/
         CancelPersistIntent \/ CancelAbandoned \/ RunnerStart \/ Classify \/
         RepairProjection \/ Allocate \/ Resume \/ EnvKeysCollide \/ BuildBindings
         \/ ResolveInputs \/ InputsFail \/ SetStarting \/ PrepareFails \/
         SetReleasing \/ OpenAttempt \/ OpenFails \/ StartNode \/ StartNodeFails \/
         RegisterHandle \/ PersistHandle \/ UpsertStarted \/ MarkRunning \/ Reattach
         \/ IdentityFound \/ IdentityUnresolved \/ AttachPersist \/ AttachWait \/
         WaitSucceeded \/ WaitFailed \/ WaitError \/ RegisterOutputs \/
         NotifySucceeded \/ CompleteAttempt \/ SucceedNode \/ DeferFinalization \/
         Unresolved \/ FailNode \/ FailUncounted \/ MarkReattemptable \/ ResetNode
         \/ TerminalizeFailed \/ NotifyFailed \/ CancelAttempt \/ CancelNodeRecord
         \/ NotifyCanceled \/ CancelBareNode \/ StoreErrorAborts \/ Timeout \/
         UNCHANGED vars \/ (\E k \in Attempts : JobFinishes(k) \/ JobExpires(k))
  PROVE  Elsewhere
<1>1. ASSUME UNCHANGED <<run, active>> PROVE Elsewhere
  BY <1>1 DEF Elsewhere
<1>2. ASSUME CancelJobs \/ CancelUpdateNode \/ CancelPersistIntent \/ CancelAbandoned
             \/ RunnerStart \/ Classify \/ Resume \/ EnvKeysCollide \/
             BuildBindings \/ ResolveInputs \/ InputsFail \/ SetStarting
             \/ PrepareFails \/ SetReleasing \/ OpenAttempt \/ OpenFails
             \/ StartNode \/ StartNodeFails \/ PersistHandle \/
             UpsertStarted \/ MarkRunning \/ IdentityFound \/
             IdentityUnresolved \/ AttachPersist \/ WaitSucceeded \/
             WaitFailed \/ WaitError \/ RegisterOutputs \/ NotifySucceeded
             \/ CompleteAttempt \/ DeferFinalization \/ FailNode \/
             FailUncounted \/ MarkReattemptable \/ ResetNode \/
             TerminalizeFailed \/ CancelAttempt \/ CancelNodeRecord \/
             Timeout \/ UNCHANGED vars \/
             (\E k \in Attempts : JobFinishes(k) \/ JobExpires(k))
      PROVE  Elsewhere
  BY <1>1, <1>2 DEF CancelJobs, CancelUpdateNode, CancelPersistIntent, CancelAbandoned,
    RunnerStart, Classify, Resume, EnvKeysCollide, BuildBindings, ResolveInputs,
    InputsFail, SetStarting, PrepareFails, SetReleasing, OpenAttempt, OpenFails,
    StartNode, StartNodeFails, PersistHandle, UpsertStarted, MarkRunning, IdentityFound,
    IdentityUnresolved, AttachPersist, WaitSucceeded, WaitFailed, WaitError,
    RegisterOutputs, NotifySucceeded, CompleteAttempt, DeferFinalization, FailNode,
    FailUncounted, MarkReattemptable, ResetNode, TerminalizeFailed, CancelAttempt,
    CancelNodeRecord, Timeout, AttemptErrs, JobFinishes, JobExpires, vars, durable
<1>3. ASSUME FastFail PROVE Elsewhere
  BY <1>3 DEF FastFail, durable, TypeOK, ActiveRecord, Elsewhere
<1>4. ASSUME CancelSignal PROVE Elsewhere
  BY <1>4 DEF CancelSignal, durable, TypeOK, ActiveRecord, Elsewhere
<1>5. ASSUME RepairProjection PROVE Elsewhere
  BY <1>5 DEF RepairProjection, Return, TypeOK, ActiveRecord, Elsewhere
<1>6. ASSUME Allocate PROVE Elsewhere
  BY <1>6 DEF Allocate, Return, TypeOK, ActiveRecord, Elsewhere
<1>7. ASSUME RegisterHandle PROVE Elsewhere
  BY <1>7 DEF RegisterHandle, durable, TypeOK, ActiveRecord, Elsewhere
<1>8. ASSUME Reattach PROVE Elsewhere
  BY <1>8 DEF Reattach, durable, TypeOK, ActiveRecord, Elsewhere
<1>9. ASSUME AttachWait PROVE Elsewhere
  BY <1>9 DEF AttachWait, durable, TypeOK, ActiveRecord, Elsewhere
<1>10. ASSUME SucceedNode PROVE Elsewhere
  BY <1>10 DEF SucceedNode, Return, TypeOK, ActiveRecord, Elsewhere
<1>11. ASSUME Unresolved PROVE Elsewhere
  BY <1>11 DEF Unresolved, durable, TypeOK, ActiveRecord, Elsewhere
<1>12. ASSUME NotifyFailed PROVE Elsewhere
  BY <1>12 DEF NotifyFailed, durable, Return, TypeOK, ActiveRecord, Elsewhere
<1>13. ASSUME NotifyCanceled PROVE Elsewhere
  BY <1>13 DEF NotifyCanceled, durable, Return, TypeOK, ActiveRecord, Elsewhere
<1>14. ASSUME CancelBareNode PROVE Elsewhere
  BY <1>14 DEF CancelBareNode, Return, TypeOK, ActiveRecord, Elsewhere
<1>15. ASSUME StoreErrorAborts PROVE Elsewhere
  BY <1>15 DEF StoreErrorAborts, durable, Return, TypeOK, ActiveRecord, Elsewhere
<1> QED
  BY <1>2, <1>3, <1>4, <1>5, <1>6, <1>7, <1>8, <1>9, <1>10, <1>11, <1>12, <1>13, <1>14,
    <1>15

\* With no registry fault, every step keeps AccountInv.
LEMMA AccountStep ==
  ASSUME MaxFaults = 0, TypeOK, AccountInv, [Next]_vars
  PROVE  AccountInv'
<1>f. ~StoreFault
  BY DEF StoreFault, TypeOK, Bounds
<1> USE DEF TypeOK, ActiveRecord
<1>1. ASSUME Elsewhere PROVE AccountInv'
  BY <1>1 DEF Elsewhere, AccountInv, StoppedIsAccounted
<1>2. ASSUME Admit PROVE AccountInv'
  BY <1>2, <1>f DEF Admit, AccountInv, StoppedIsAccounted, RunTerminal, RunStatuses
<1>3. ASSUME AdmitFails PROVE AccountInv'
  BY <1>3, <1>f DEF AdmitFails, durable, AccountInv, StoppedIsAccounted, RunTerminal,
    RunStatuses
<1>4. ASSUME CancelRequest PROVE AccountInv'
  BY <1>4, <1>f DEF CancelRequest, AccountInv, StoppedIsAccounted, RunTerminal,
    RunStatuses
<1>5. ASSUME BeginRun PROVE AccountInv'
  BY <1>5, <1>f DEF BeginRun, durable, AccountInv, StoppedIsAccounted, RunTerminal,
    RunStatuses
<1>6. ASSUME SetRunRunning PROVE AccountInv'
  BY <1>6, <1>f DEF SetRunRunning, AccountInv, StoppedIsAccounted, RunTerminal,
    RunStatuses
<1>7. ASSUME GraphNotStarted PROVE AccountInv'
  BY <1>7, <1>f DEF GraphNotStarted, durable, AccountInv, StoppedIsAccounted,
    RunTerminal, RunStatuses
<1>8. ASSUME GraphSucceeds PROVE AccountInv'
  BY <1>8, <1>f DEF GraphSucceeds, durable, AccountInv, StoppedIsAccounted, RunTerminal,
    RunStatuses
<1>9. ASSUME GraphFails PROVE AccountInv'
  BY <1>9, <1>f DEF GraphFails, durable, AccountInv, StoppedIsAccounted, RunTerminal,
    RunStatuses
<1>10. ASSUME SkipPending PROVE AccountInv'
  BY <1>10, <1>f DEF SkipPending, AccountInv, StoppedIsAccounted, RunTerminal,
    RunStatuses
<1>11. ASSUME FinalizeRead PROVE AccountInv'
  BY <1>11, <1>f DEF FinalizeRead, FinalStatus, durable, AccountInv, StoppedIsAccounted,
    RunTerminal, RunStatuses
<1>12. ASSUME FinalizeWrite PROVE AccountInv'
  BY <1>12, <1>f DEF FinalizeWrite, AccountInv, StoppedIsAccounted, RunTerminal,
    RunStatuses
<1>13. ASSUME FinalizeError PROVE AccountInv'
  BY <1>13, <1>f DEF FinalizeError, AccountInv, StoppedIsAccounted, RunTerminal,
    RunStatuses
<1>14. ASSUME HandoffFinalize PROVE AccountInv'
  BY <1>14, <1>f DEF HandoffFinalize, AccountInv, StoppedIsAccounted, RunTerminal,
    RunStatuses
<1>15. ASSUME DriveEnds PROVE AccountInv'
  BY <1>15, <1>f DEF DriveEnds, durable, AccountInv, StoppedIsAccounted, RunTerminal,
    RunStatuses
<1>16. ASSUME Crash PROVE AccountInv'
  BY <1>16, <1>f DEF Crash, Goroutine, durable, AccountInv, StoppedIsAccounted,
    RunTerminal, RunStatuses
<1>17. ASSUME Recover PROVE AccountInv'
  BY <1>17, <1>f DEF Recover, Goroutine, durable, AccountInv, StoppedIsAccounted,
    RunTerminal, RunStatuses
<1>18. ASSUME ~Admit, ~AdmitFails, ~CancelRequest, ~BeginRun, ~SetRunRunning,
             ~GraphNotStarted, ~GraphSucceeds, ~GraphFails, ~SkipPending,
             ~FinalizeRead, ~FinalizeWrite, ~FinalizeError,
             ~HandoffFinalize, ~DriveEnds, ~Crash, ~Recover
      PROVE  Elsewhere
  BY <1>18, ElsewhereSteps
  DEF Next, RunStep, CancelStep, RunnerStep, RealizeStep, SubmitStep, OutcomeStep
<1> QED
  BY <1>1, <1>2, <1>3, <1>4, <1>5, <1>6, <1>7, <1>8, <1>9, <1>10, <1>11, <1>12, <1>13,
    <1>14, <1>15, <1>16, <1>17, <1>18

\* Whatever ends executeRun, recoverCanceledRun or SubmitRun, the run is settled, or
\* marked for the startup sweep, or still Accepted, as long as no write is lost.
THEOREM StoppedRunsAccounted == ASSUME MaxFaults = 0 PROVE Spec => []StoppedIsAccounted
<1>1. Init => AccountInv
  BY DEF Init, Goroutine, AccountInv, StoppedIsAccounted
<1>2. TypeOK /\ AccountInv /\ [Next]_vars => AccountInv'
  BY AccountStep
<1>3. AccountInv => StoppedIsAccounted
  BY DEF AccountInv
<1> QED BY <1>1, <1>2, <1>3, TypeCorrectness, PTL DEF Spec

-----------------------------------------------------------------------------
(* What the artifact-handoff service is told                               *)

Watched == {"register", "notify", "complete", "succeed", "fail", "failed", "notifyFailed"}

\* A step that tells nothing, completes nothing, undoes no success of a Job, and
\* takes the runner to none of the places ToldInv speaks of.
Aside ==
  /\ told' = told
  /\ \A k \in Attempts : Successful(k) => Successful(k)'
  /\ \A k \in Attempts : attempts'[k].status = "Completed" => attempts[k].status = "Completed"
  /\ \/ runner'.pc = runner.pc /\ runner'.att = runner.att
     \/ runner'.pc \notin Watched

\* StartNode is reached with no Job there, so it replaces none.
LEMMA StartIsAside ==
  ASSUME SafetyInv, SubmissionInv, StartNode
  PROVE  Aside
<1>1. /\ told' = told /\ attempts' = attempts
      /\ \A k \in Attempts : k # runner.att => jobs'[k] = jobs[k]
      /\ runner'.pc = "submitted" /\ runner.pc = "submit"
  BY DEF StartNode, At, Goto, durable, SafetyInv, TypeOK, RunnerRecord
<1>2. \A k \in Attempts : jobs[k] = "none"
  <2>1. execs \in Nat /\ ~(execs > 0)
    BY <1>1 DEF SubmissionInv, SafetyInv, TypeOK
  <2> QED BY <2>1 DEF SubmissionInv
<1> QED BY <1>1, <1>2 DEF Aside, Watched, Successful

\* Deleting a Job does not undo its success.
LEMMA CancelIsAside ==
  ASSUME TypeOK, NEW j, CancelNodeSucceeds(j) \/ CancelNodeFails \/ UNCHANGED jobs
  PROVE  \A k \in Attempts : Successful(k) => Successful(k)'
BY DEF TypeOK, CancelNodeSucceeds, CancelNodeFails, Successful

\* Which steps are aside.
LEMMA AsideSteps ==
  ASSUME SafetyInv, SubmissionInv, ~StoreFault,
         Admit \/ AdmitFails \/ CancelRequest \/ BeginRun \/ SetRunRunning \/
         GraphNotStarted \/ GraphSucceeds \/ GraphFails \/ FastFail \/ SkipPending
         \/ FinalizeRead \/ FinalizeWrite \/ HandoffFinalize \/ DriveEnds \/
         CancelSignal \/ CancelJobs \/ CancelUpdateNode \/ CancelPersistIntent \/
         CancelAbandoned \/ RunnerStart \/ Classify \/ RepairProjection \/ Allocate
         \/ Resume \/ BuildBindings \/ ResolveInputs \/ SetStarting \/ SetReleasing
         \/ StartNode \/ StartNodeFails \/ RegisterHandle \/ PersistHandle \/
         UpsertStarted \/ MarkRunning \/ Reattach \/ IdentityFound \/
         IdentityUnresolved \/ AttachPersist \/ AttachWait \/ WaitError \/
         SucceedNode \/ DeferFinalization \/ Unresolved \/ MarkReattemptable \/
         ResetNode \/ CancelAttempt \/ CancelNodeRecord \/ CancelBareNode \/ Timeout
         \/ Crash \/ Recover \/ UNCHANGED vars \/
         (\E k \in Attempts : JobFinishes(k) \/ JobExpires(k))
  PROVE  Aside
<1> USE DEF SafetyInv, TypeOK
<1>1. ASSUME UNCHANGED <<attempts, runner, jobs, told>> PROVE Aside
  BY <1>1 DEF Aside, Successful
<1>2. ASSUME Admit \/ AdmitFails \/ CancelRequest \/ BeginRun \/ SetRunRunning \/
             GraphNotStarted \/ GraphSucceeds \/ GraphFails \/ SkipPending \/
             FinalizeRead \/ FinalizeWrite \/ HandoffFinalize \/ DriveEnds \/
             CancelSignal \/ CancelUpdateNode \/ CancelAbandoned \/ Recover \/
             UNCHANGED vars
      PROVE  Aside
  BY <1>1, <1>2 DEF Admit, AdmitFails, CancelRequest, BeginRun, SetRunRunning,
    GraphNotStarted, GraphSucceeds, GraphFails, SkipPending, FinalizeRead,
    FinalizeWrite, HandoffFinalize, DriveEnds, CancelSignal, CancelUpdateNode,
    CancelAbandoned, Recover, vars, durable, external
<1>3. ASSUME FastFail PROVE Aside
  <2>1. \E j : CancelNodeSucceeds(j) \/ CancelNodeFails \/ UNCHANGED jobs
    BY <1>3 DEF FastFail, durable, NoId
  <2>2. /\ told' = told /\ attempts' = attempts
        /\ runner' = runner \/ runner'.pc \in {"unresolved", "wait"}
    BY <1>3 DEF FastFail, durable, RunnerRecord
  <2> QED BY <2>1, <2>2, CancelIsAside DEF Aside, Watched
<1>4. ASSUME CancelJobs PROVE Aside
  <2>1. \E j : CancelNodeSucceeds(j) \/ CancelNodeFails \/ UNCHANGED jobs
    BY <1>4 DEF CancelJobs, durable, NoId
  <2>2. /\ told' = told /\ attempts' = attempts
        /\ runner' = runner \/ runner'.pc \in {"unresolved", "wait"}
    BY <1>4 DEF CancelJobs, durable, RunnerRecord
  <2> QED BY <2>1, <2>2, CancelIsAside DEF Aside, Watched
<1>5. ASSUME CancelPersistIntent PROVE Aside
  BY <1>5 DEF CancelPersistIntent, external, IntentAttempts, RunnerRecord,
    AttemptRecord, Watched, Successful, Aside
<1>6. ASSUME RunnerStart PROVE Aside
  BY <1>6 DEF RunnerStart, durable, external, At, RunnerRecord, AttemptRecord, Watched,
    Successful, Aside
<1>7. ASSUME RepairProjection PROVE Aside
  BY <1>7 DEF RepairProjection, external, At, Return, NoRunner, RunnerRecord,
    AttemptRecord, Watched, Successful, Aside
<1>8. ASSUME Allocate PROVE Aside
  <2>1. UNCHANGED <<jobs, told>> /\ runner'.pc \in {"bindings", "starting", "done"}
    BY <1>8 DEF Allocate, external, Return, NoRunner, AfterReady, RunnerRecord
  <2>2. \A k \in Attempts : attempts'[k].status = "Completed" => attempts[k].status = "Completed"
    <3>1. CASE MayAllocate(node, attempts)
      BY <1>8, <3>1 DEF Allocate, Upserted, NewAttempt
    <3>2. CASE ~MayAllocate(node, attempts)
      BY <1>8, <3>2 DEF Allocate
    <3> QED BY <3>1, <3>2
  <2> QED BY <2>1, <2>2 DEF Aside, Watched, Successful
<1>9. ASSUME Resume PROVE Aside
  BY <1>9 DEF Resume, external, At, Goto, AfterReady, RunnerRecord, AttemptRecord,
    Watched, Successful, Aside
<1>10. ASSUME BuildBindings PROVE Aside
  BY <1>10 DEF BuildBindings, external, At, Goto, RunnerRecord, AttemptRecord, Watched,
    Successful, Aside
<1>11. ASSUME ResolveInputs PROVE Aside
  BY <1>11 DEF ResolveInputs, external, At, Goto, RunnerRecord, AttemptRecord, Watched,
    Successful, Aside
<1>12. ASSUME SetStarting PROVE Aside
  BY <1>12 DEF SetStarting, external, Goto, RunnerRecord, AttemptRecord, Watched,
    Successful, Aside
<1>13. ASSUME SetReleasing PROVE Aside
  BY <1>13 DEF SetReleasing, external, At, Goto, RunnerRecord, AttemptRecord, Watched,
    Successful, Aside
<1>14. ASSUME StartNodeFails PROVE Aside
  BY <1>14 DEF StartNodeFails, durable, external, Goto, RunnerRecord, AttemptRecord,
    Watched, Successful, Aside
<1>15. ASSUME RegisterHandle PROVE Aside
  BY <1>15 DEF RegisterHandle, durable, external, At, Goto, RunnerRecord, AttemptRecord,
    Watched, Successful, Aside
<1>16. ASSUME PersistHandle PROVE Aside
  BY <1>16 DEF PersistHandle, external, At, Goto, HandleAttempts, RunnerRecord,
    AttemptRecord, Watched, Successful, Aside
<1>17. ASSUME UpsertStarted PROVE Aside
  BY <1>17 DEF UpsertStarted, external, At, Goto, BestEffortAttempts, Upserted,
    NewAttempt, RunnerRecord, AttemptRecord, Watched, Successful, Aside
<1>18. ASSUME MarkRunning PROVE Aside
  BY <1>18 DEF MarkRunning, external, At, Goto, RunnerRecord, AttemptRecord, Watched,
    Successful, Aside
<1>19. ASSUME Reattach PROVE Aside
  <2>1. \E j : CancelNodeSucceeds(j) \/ CancelNodeFails \/ UNCHANGED jobs
    BY <1>19 DEF Reattach, durable, At, Goto, NoId
  <2>2. /\ told' = told /\ attempts' = attempts
        /\ runner' = runner \/ runner'.pc \in {"unresolved", "wait"}
    BY <1>19 DEF Reattach, durable, At, Goto, RunnerRecord
  <2> QED BY <2>1, <2>2, CancelIsAside DEF Aside, Watched
<1>20. ASSUME IdentityFound PROVE Aside
  BY <1>20 DEF IdentityFound, durable, external, At, Goto, RunnerRecord, AttemptRecord,
    Watched, Successful, Aside
<1>21. ASSUME IdentityUnresolved PROVE Aside
  BY <1>21 DEF IdentityUnresolved, durable, external, At, Goto, RunnerRecord,
    AttemptRecord, Watched, Successful, Aside
<1>22. ASSUME AttachPersist PROVE Aside
  BY <1>22 DEF AttachPersist, external, At, Goto, HandleAttempts, RunnerRecord,
    AttemptRecord, Watched, Successful, Aside
<1>23. ASSUME AttachWait PROVE Aside
  <2>1. \E j : CancelNodeSucceeds(j) \/ CancelNodeFails \/ UNCHANGED jobs
    BY <1>23 DEF AttachWait, durable, At, Goto, NoId
  <2>2. /\ told' = told /\ attempts' = attempts
        /\ runner' = runner \/ runner'.pc \in {"unresolved", "wait"}
    BY <1>23 DEF AttachWait, durable, At, Goto, RunnerRecord
  <2> QED BY <2>1, <2>2, CancelIsAside DEF Aside, Watched
<1>24. ASSUME WaitError PROVE Aside
  BY <1>24 DEF WaitError, durable, external, At, Goto, RunnerRecord, AttemptRecord,
    Watched, Successful, Aside
<1>25. ASSUME SucceedNode PROVE Aside
  BY <1>25 DEF SucceedNode, external, At, Return, NoRunner, RunnerRecord, AttemptRecord,
    Watched, Successful, Aside
<1>26. ASSUME DeferFinalization PROVE Aside
  BY <1>26 DEF DeferFinalization, external, At, Goto, BestEffortAttempts,
    ProcessCompletedAttempts, RunnerRecord, AttemptRecord, Watched, Successful, Aside
<1>27. ASSUME Unresolved PROVE Aside
  BY <1>27 DEF Unresolved, durable, external, At, NoRunner, RunnerRecord, AttemptRecord,
    Watched, Successful, Aside
<1>28. ASSUME MarkReattemptable PROVE Aside
  BY <1>28 DEF MarkReattemptable, external, At, Goto, BestEffortAttempts,
    ReattemptableAttempts, RunnerRecord, AttemptRecord, Watched, Successful, Aside
<1>29. ASSUME ResetNode PROVE Aside
  BY <1>29 DEF ResetNode, external, At, Goto, RunnerRecord, AttemptRecord, Watched,
    Successful, Aside
<1>30. ASSUME CancelAttempt PROVE Aside
  BY <1>30 DEF CancelAttempt, external, At, Goto, BestEffortAttempts, Upserted,
    NewAttempt, RunnerRecord, AttemptRecord, Watched, Successful, Aside
<1>31. ASSUME CancelNodeRecord PROVE Aside
  BY <1>31 DEF CancelNodeRecord, external, At, Goto, RunnerRecord, AttemptRecord,
    Watched, Successful, Aside
<1>32. ASSUME CancelBareNode PROVE Aside
  BY <1>32 DEF CancelBareNode, external, At, Return, NoRunner, RunnerRecord,
    AttemptRecord, Watched, Successful, Aside
<1>33. ASSUME Timeout PROVE Aside
  BY <1>33 DEF Timeout, durable, external, RunnerRecord, AttemptRecord, Watched,
    Successful, Aside
<1>34. ASSUME Crash PROVE Aside
  BY <1>34 DEF Crash, durable, external, NoRunner, Goroutine, RunnerRecord,
    AttemptRecord, Watched, Successful, Aside
<1>35. ASSUME Classify PROVE Aside
  <2> DEFINE d == ClassifyReconcile(node, attempts)
             pc == IF runner.drive THEN DriveNext(d) ELSE RunNext(d)
  <2>1. d \in Decisions
    BY DEF ClassifyReconcile, Decisions
  <2>2. runner'.pc = pc /\ UNCHANGED <<attempts, jobs, told>>
    BY <1>35 DEF Classify, RunnerRecord, durable, external
  <2> HIDE DEF d
  <2>3. pc \notin Watched
    BY <2>1 DEF DriveNext, RunNext, Decisions, Watched
  <2> QED BY <2>2, <2>3 DEF Aside, Successful
<1>36. ASSUME NEW j \in Attempts, JobFinishes(j) \/ JobExpires(j) PROVE Aside
  BY <1>36 DEF JobFinishes, JobExpires, durable, Aside, Successful
<1> QED
  BY <1>2, <1>3, <1>4, <1>5, <1>6, <1>7, <1>8, <1>9, <1>10, <1>11, <1>12, <1>13, <1>14,
    <1>15, <1>16, <1>17, <1>18, <1>19, <1>20, <1>21, <1>22, <1>23, <1>24, <1>25, <1>26,
    <1>27, <1>28, <1>29, <1>30, <1>31, <1>32, <1>33, <1>34, <1>35, <1>36, StartIsAside

\* A settled node keeps its status and its attempt.
LEMMA SettledStays ==
  ASSUME SafetyInv, [Next]_vars, node.status \in {"Succeeded", "Failed"}
  PROVE  node'.status = node.status /\ node'.cur = node.cur
<1>1. node'.status = node.status
  BY FinalStep
<1>2. CASE Quiet
  BY <1>1, <1>2 DEF Quiet
<1>3. CASE EnvKeysCollide \/ InputsFail \/ PrepareFails \/ WaitFailed \/ OpenFails
           \/ UpsertStarted \/ CompleteAttempt \/ CancelAttempt \/ MarkReattemptable \/ Classify
  BY <1>1, <1>3 DEF EnvKeysCollide, InputsFail, PrepareFails, WaitFailed, OpenFails,
     UpsertStarted, CompleteAttempt, CancelAttempt, MarkReattemptable, Classify, AttemptErrs,
     durable
<1>4. CASE OpenAttempt \/ Allocate \/ ResetNode
  BY <1>4 DEF OpenAttempt, Allocate, ResetNode, At, SafetyInv, OutcomeInv
<1>5. ASSUME ~EnvKeysCollide, ~InputsFail, ~PrepareFails, ~WaitFailed, ~OpenFails,
             ~UpsertStarted, ~CompleteAttempt, ~CancelAttempt, ~OpenAttempt,
             ~MarkReattemptable, ~ResetNode, ~Classify, ~Allocate
      PROVE  Quiet
  BY <1>5, QuietSteps
  DEF Next, RunStep, CancelStep, RunnerStep, RealizeStep, SubmitStep, OutcomeStep
<1> QED BY <1>2, <1>3, <1>4, <1>5

\* A node becomes Succeeded only through the runner that completed its attempt, or
\* through the repair of the projection of a Completed one.
LEMMA SucceededStep ==
  ASSUME SafetyInv, SubmissionInv, RecordInv, ToldInv, [Next]_vars
  PROVE  (node.status = "Succeeded" =>
            node.cur # NoId /\ attempts[node.cur].status = "Completed")'
<1> SUFFICES ASSUME node'.status = "Succeeded"
             PROVE  node'.cur # NoId /\ attempts'[node'.cur].status = "Completed"
  OBVIOUS
<1>0. AttemptsKeepOutcome /\ node.cur \in {NoId} \cup Attempts
  BY RecordStep DEF SafetyInv, TypeOK, NodeRecord
<1>1. CASE node.status = "Succeeded"
  <2>1. node.cur # NoId /\ attempts[node.cur].status = "Completed" /\ node'.cur = node.cur
    BY <1>1, SettledStays DEF ToldInv
  <2> QED BY <1>0, <2>1 DEF AttemptsKeepOutcome, AttemptTerminal
<1>2. CASE SucceedNode
  <2>1. At("succeed") /\ node'.cur = node.cur /\ attempts' = attempts
    BY <1>2 DEF SucceedNode, SafetyInv, TypeOK, NodeRecord
  <2>2. runner.att = node.cur /\ node.cur # NoId
    BY <2>1 DEF At, SafetyInv, RunnerInv
  <2> QED BY <2>1, <2>2 DEF ToldInv
<1>3. CASE RepairProjection /\ node.status # "Succeeded"
  <2>1. /\ At("repair") /\ node'.cur = node.cur /\ attempts' = attempts
        /\ ~NodeTerminal(node.status)
        /\ NodeStatusFromAttempt(attempts[runner.att]) = "Succeeded"
    BY <1>3 DEF RepairProjection, BestEffortNode, SafetyInv, TypeOK, NodeRecord
  <2>2. runner.att = node.cur /\ runner.att # NoId
    BY <2>1 DEF At, SafetyInv, RunnerInv, SubmissionInv
  <2> QED BY <2>1, <2>2 DEF NodeStatusFromAttempt
<1>4. CASE TerminalizeFailed /\ node.status # "Succeeded"
  BY <1>4 DEF TerminalizeFailed, BestEffortNode, SafetyInv, TypeOK, NodeRecord
<1> QED BY <1>1, <1>2, <1>3, <1>4, SettleStep

\* What was told of a failed node stays true of it.
LEMMA FailedStays ==
  ASSUME SafetyInv, ToldInv, [Next]_vars, NEW k \in Attempts, <<k, "Failed">> \in told
  PROVE  node'.status = "Failed" /\ node'.cur = k
BY SettledStays DEF ToldInv

\* Before the fence, and where a Job failed, no success was told.
LEMMA NoSuccessTold ==
  ASSUME SafetyInv, SubmissionInv, ToldInv,
         \/ runner.pc \in {"bindings", "resolving", "prepare", "gate"}
         \/ At("wait") /\ jobs[runner.att] = "failed"
  PROVE  <<runner.att, "Succeeded">> \notin told
<1>1. runner.att \in Attempts
  <2>1. runner.pc \in OpenPCs
    BY DEF At, OpenPCs, PreFencePCs, PostFencePCs
  <2> QED BY <2>1, OpenHasAttempt
<1>2. ~Successful(runner.att)
  <2>1. CASE At("wait") /\ jobs[runner.att] = "failed"
    BY <2>1 DEF Successful
  <2>2. CASE runner.pc \in {"bindings", "resolving", "prepare", "gate"}
    <3>1. ~(execs > 0)
      BY <2>2 DEF SubmissionInv, PreFencePCs
    <3>2. jobs[runner.att] = "none"
      BY <1>1, <3>1 DEF SubmissionInv
    <3> QED BY <3>2 DEF Successful
  <2> QED BY <2>1, <2>2
<1> QED BY <1>1, <1>2 DEF ToldInv

\* A step aside keeps ToldInv.
LEMMA AsideKeeps ==
  ASSUME SafetyInv, SubmissionInv, RecordInv, ToldInv, [Next]_vars, Aside
  PROVE  ToldInv'
<1>1. (\A k \in Attempts : <<k, "Succeeded">> \in told => Successful(k))'
  BY DEF Aside, ToldInv
<1>2. (\A k \in Attempts : <<k, "Failed">> \in told => node.status = "Failed" /\ node.cur = k)'
  BY FailedStays DEF Aside
<1>3. (\A k \in Attempts : attempts[k].status = "Completed" =>
         {<<k, "outputs">>, <<k, "Succeeded">>} \subseteq told)'
  BY DEF Aside, ToldInv
<1>4. (node.status = "Succeeded" =>
         node.cur # NoId /\ attempts[node.cur].status = "Completed")'
  BY SucceededStep
<1>5. CASE runner'.pc \notin Watched
  <2>1. runner'.pc \notin {"register", "notify", "complete", "succeed", "fail", "failed",
                           "notifyFailed"}
    BY <1>5 DEF Watched
  <2> QED BY <1>1, <1>2, <1>3, <1>4, <2>1 DEF ToldInv, At
<1>6. CASE runner'.pc \in Watched
  <2>1. /\ runner'.pc = runner.pc /\ runner'.att = runner.att /\ told' = told
        /\ runner.att \in Attempts
    <3>1. runner'.pc = runner.pc /\ runner'.att = runner.att /\ told' = told
      BY <1>6 DEF Aside
    <3>2. runner.att = node.cur /\ node.cur # NoId
      BY <1>6, <3>1 DEF SafetyInv, RunnerInv, Watched
    <3> QED BY <3>1, <3>2 DEF SafetyInv, TypeOK, NodeRecord
  <2>2. (runner.pc \in {"register", "notify", "complete"} => Successful(runner.att))'
    <3>1. Successful(runner.att) => Successful(runner.att)'
      <4>1. \A k \in Attempts : jobs[k] \in {"succeeded", "gone"} => jobs'[k] \in {"succeeded", "gone"}
        BY DEF Aside, Successful
      <4> QED BY <2>1, <4>1 DEF Successful
    <3> QED BY <2>1, <3>1 DEF ToldInv
  <2>3. (At("succeed") => attempts[runner.att].status = "Completed")'
    <3>1. AttemptsKeepOutcome
      BY RecordStep
    <3> QED BY <2>1, <3>1 DEF ToldInv, AttemptsKeepOutcome, AttemptTerminal, At
  <2>4. (At("notifyFailed") => node.status = "Failed")'
    BY <2>1, SettledStays DEF ToldInv, At
  <2>5. /\ (runner.pc \in {"notify", "complete"} => <<runner.att, "outputs">> \in told)'
        /\ (At("complete") => <<runner.att, "Succeeded">> \in told)'
        /\ (runner.pc \in {"fail", "failed", "notifyFailed"} =>
              <<runner.att, "Succeeded">> \notin told)'
    BY <2>1 DEF ToldInv, At
  <2> QED BY <1>1, <1>2, <1>3, <1>4, <2>2, <2>3, <2>4, <2>5 DEF ToldInv
<1> QED BY <1>5, <1>6

\* The part of ToldInv that is about where the runner is.
RunnerTold ==
  /\ runner.pc \in {"register", "notify", "complete"} => Successful(runner.att)
  /\ runner.pc \in {"notify", "complete"} => <<runner.att, "outputs">> \in told
  /\ At("complete") => <<runner.att, "Succeeded">> \in told
  /\ At("succeed") => attempts[runner.att].status = "Completed"
  /\ runner.pc \in {"fail", "failed", "notifyFailed"} =>
       <<runner.att, "Succeeded">> \notin told
  /\ At("notifyFailed") => node.status = "Failed"

\* A step that may tell something keeps ToldInv, if what it tells is so and the runner
\* knows enough where it goes.
LEMMA TellKeeps ==
  ASSUME SafetyInv, SubmissionInv, RecordInv, ToldInv, [Next]_vars,
         jobs' = jobs, told \subseteq told',
         \A k \in Attempts : <<k, "Succeeded">> \in told' \ told => Successful(k),
         \A k \in Attempts : <<k, "Failed">> \in told' \ told =>
                               node'.status = "Failed" /\ node'.cur = k,
         \A k \in Attempts : attempts'[k].status = "Completed" =>
                               \/ attempts[k].status = "Completed"
                               \/ {<<k, "outputs">>, <<k, "Succeeded">>} \subseteq told,
         RunnerTold'
  PROVE  ToldInv'
<1>1. (\A k \in Attempts : <<k, "Succeeded">> \in told => Successful(k))'
  BY DEF ToldInv, Successful
<1>2. (\A k \in Attempts : <<k, "Failed">> \in told => node.status = "Failed" /\ node.cur = k)'
  BY FailedStays
<1>3. (\A k \in Attempts : attempts[k].status = "Completed" =>
         {<<k, "outputs">>, <<k, "Succeeded">>} \subseteq told)'
  BY DEF ToldInv
<1>4. (node.status = "Succeeded" =>
         node.cur # NoId /\ attempts[node.cur].status = "Completed")'
  BY SucceededStep
<1> QED BY <1>1, <1>2, <1>3, <1>4 DEF ToldInv, RunnerTold

\* A realization that fails, and a workload that WaitNode reports as failed.
LEMMA ErrsKeep ==
  ASSUME SafetyInv, SubmissionInv, RecordInv, ToldInv, [Next]_vars, ~StoreFault,
         NEW r, AttemptErrs(r),
         \/ runner.pc \in {"bindings", "resolving", "prepare", "gate"}
         \/ At("wait") /\ jobs[runner.att] = "failed"
  PROVE  ToldInv'
<1>1. /\ jobs' = jobs /\ told' = told /\ runner'.pc = "fail" /\ runner'.att = runner.att
      /\ attempts' = Upserted(attempts, runner.att, NewAttempt("Errored", "failed"))
  BY DEF AttemptErrs, BestEffortAttempts, external, SafetyInv, TypeOK, RunnerRecord
<1>2. \A k \in Attempts : attempts'[k].status = "Completed" => attempts[k].status = "Completed"
  BY <1>1 DEF Upserted, NewAttempt, SafetyInv, TypeOK
<1>3. <<runner.att, "Succeeded">> \notin told
  BY NoSuccessTold
<1>4. RunnerTold'
  BY <1>1, <1>3 DEF RunnerTold, At
<1> QED BY <1>1, <1>2, <1>4, TellKeeps

\* With no registry fault, every step keeps ToldInv.
LEMMA ToldStep ==
  ASSUME MaxFaults = 0, SafetyInv, SubmissionInv, RecordInv, ToldInv, [Next]_vars
  PROVE  ToldInv'
<1>f. ~StoreFault
  BY DEF StoreFault, SafetyInv, TypeOK, Bounds
<1>a. ASSUME Aside PROVE ToldInv'
  BY <1>a, AsideKeeps
<1>t. TypeOK /\ runner \in RunnerRecord
  BY DEF SafetyInv, TypeOK
<1>w. ASSUME runner.pc \in Watched \cup {"wait"} PROVE runner.att \in Attempts /\ runner.att = node.cur
  BY <1>t, <1>w DEF Watched, SafetyInv, RunnerInv, TypeOK, NodeRecord
<1>1. CASE EnvKeysCollide
  BY <1>1, <1>f, ErrsKeep DEF EnvKeysCollide, At
<1>2. CASE InputsFail
  BY <1>2, <1>f, ErrsKeep DEF InputsFail, At
<1>3. CASE PrepareFails
  BY <1>3, <1>f, ErrsKeep DEF PrepareFails, At
<1>4. CASE WaitFailed
  BY <1>4, <1>f, ErrsKeep DEF WaitFailed, At
<1>5. CASE WaitSucceeded
  <2>1. /\ UNCHANGED <<jobs, told, attempts, node>> /\ runner'.pc = "register"
        /\ runner'.att = runner.att /\ jobs[runner.att] = "succeeded"
    BY <1>5, <1>t DEF WaitSucceeded, durable, external, Goto, RunnerRecord
  <2>2. RunnerTold'
    BY <2>1 DEF RunnerTold, Successful, At
  <2> QED BY <2>1, <2>2, TellKeeps
<1>6. CASE RegisterOutputs
  <2>1. /\ UNCHANGED <<jobs, attempts, node>> /\ At("register") /\ runner'.att = runner.att
        /\ told' \in {told, told \cup {<<runner.att, "outputs">>}}
        /\ \/ runner'.pc = "notify" /\ <<runner.att, "outputs">> \in told'
           \/ runner'.pc = "defer"
    BY <1>6, <1>t DEF RegisterOutputs, NotifyErrs, durable, Goto, RunnerRecord
  <2>2. Successful(runner.att)
    BY <2>1 DEF ToldInv, At
  <2>3. RunnerTold'
    BY <2>1, <2>2 DEF RunnerTold, Successful, At
  <2>4. told \subseteq told' /\ \A k, f : <<k, f>> \in told' \ told => f = "outputs"
    BY <2>1
  <2> QED BY <2>1, <2>3, <2>4, TellKeeps
<1>7. CASE NotifySucceeded
  <2>1. /\ UNCHANGED <<jobs, attempts, node>> /\ At("notify") /\ runner'.att = runner.att
        /\ told' \in {told, told \cup {<<runner.att, "Succeeded">>}}
        /\ \/ runner'.pc = "complete" /\ <<runner.att, "Succeeded">> \in told'
           \/ runner'.pc = "defer"
    BY <1>7, <1>t DEF NotifySucceeded, NotifyErrs, durable, Goto, RunnerRecord
  <2>2. Successful(runner.att) /\ <<runner.att, "outputs">> \in told
    BY <2>1 DEF ToldInv, At
  <2>3. RunnerTold'
    BY <2>1, <2>2 DEF RunnerTold, Successful, At
  <2>4. told \subseteq told'
        /\ \A k, f : <<k, f>> \in told' \ told => k = runner.att /\ f = "Succeeded"
    BY <2>1
  <2> QED BY <2>1, <2>2, <2>3, <2>4, TellKeeps
<1>8. CASE CompleteAttempt
  <2>1. /\ UNCHANGED <<jobs, told, node>> /\ At("complete") /\ runner'.att = runner.att
        /\ runner'.pc = "succeed"
        /\ attempts' = Upserted(attempts, runner.att, NewAttempt("Completed", "finished"))
    BY <1>8, <1>f, <1>t DEF CompleteAttempt, BestEffortAttempts, external, Goto, RunnerRecord
  <2>2. runner.att \in Attempts
    BY <1>w, <2>1 DEF At, Watched
  <2>3. /\ attempts'[runner.att].status = "Completed"
        /\ \A j \in Attempts \ {runner.att} : attempts'[j] = attempts[j]
    BY <2>1, <2>2, UpsertFacts
  <2>4. {<<runner.att, "outputs">>, <<runner.att, "Succeeded">>} \subseteq told
    BY <2>1 DEF ToldInv, At
  <2>5. RunnerTold'
    BY <2>1, <2>3 DEF RunnerTold, At
  <2> QED BY <2>1, <2>3, <2>4, <2>5, TellKeeps
<1>9. CASE OpenAttempt
  <2>1. /\ UNCHANGED <<jobs, told>> /\ runner.pc = "gate" /\ runner'.att = runner.att
        /\ runner'.pc \in {"failed", "submit"}
        /\ \/ attempts' = Upserted(attempts, runner.att, NewAttempt("Errored", "failed"))
           \/ attempts' = OpenedAttempts(attempts, runner.att)
    BY <1>9, <1>f, <1>t
    DEF OpenAttempt, At, BestEffortAttempts, external, Goto, RunnerRecord
  <2>2. \A k \in Attempts : attempts'[k].status = "Completed" => attempts[k].status = "Completed"
    <3>1. CASE attempts' = Upserted(attempts, runner.att, NewAttempt("Errored", "failed"))
      BY <1>t, <3>1 DEF Upserted, NewAttempt, TypeOK
    <3>2. CASE attempts' = OpenedAttempts(attempts, runner.att)
      BY <1>t, <3>2 DEF OpenedAttempts, AttemptRecord, TypeOK
    <3> QED BY <2>1, <3>1, <3>2
  <2>3. <<runner.att, "Succeeded">> \notin told
    BY <2>1, NoSuccessTold
  <2>4. RunnerTold'
    BY <2>1, <2>3 DEF RunnerTold, At
  <2> QED BY <2>1, <2>2, <2>4, TellKeeps
<1>10. CASE FailNode
  <2>1. /\ UNCHANGED <<jobs, told, attempts, node>> /\ At("fail") /\ runner'.att = runner.att
        /\ runner'.pc \in {"cancelAttempt", "reattempt", "failed"}
    BY <1>10, <1>t DEF FailNode, FailNext, durable, external, Goto, RunnerRecord
  <2>2. RunnerTold'
    BY <2>1 DEF RunnerTold, ToldInv, At
  <2> QED BY <2>1, <2>2, TellKeeps
<1>11. CASE TerminalizeFailed
  <2>1. /\ UNCHANGED <<jobs, told, attempts>> /\ At("failed") /\ runner'.att = runner.att
        /\ runner'.pc = "notifyFailed" /\ node'.status = "Failed"
    BY <1>11, <1>f, <1>t
    DEF TerminalizeFailed, BestEffortNode, external, Goto, RunnerRecord, TypeOK, NodeRecord
  <2>2. RunnerTold'
    BY <2>1 DEF RunnerTold, ToldInv, At
  <2> QED BY <2>1, <2>2, TellKeeps
<1>12. CASE NotifyFailed
  <2>1. /\ UNCHANGED <<jobs, attempts, node>> /\ At("notifyFailed") /\ runner'.pc = "done"
        /\ told' \in {told, told \cup {<<runner.att, "Failed">>}}
    BY <1>12 DEF NotifyFailed, Notify, Return, NoRunner, durable
  <2>2. runner.att = node.cur /\ node.status = "Failed"
    BY <1>w, <2>1 DEF At, Watched, ToldInv
  <2>3. told \subseteq told'
        /\ \A k, f : <<k, f>> \in told' \ told => k = runner.att /\ f = "Failed"
    BY <2>1
  <2>4. RunnerTold'
    BY <2>1 DEF RunnerTold, At
  <2> QED BY <2>1, <2>2, <2>3, <2>4, TellKeeps
<1>13. CASE NotifyCanceled
  <2>1. /\ UNCHANGED <<jobs, attempts, node>> /\ runner'.pc = "done"
        /\ told' \in {told, told \cup {<<runner.att, "Canceled">>}}
    BY <1>13 DEF NotifyCanceled, Notify, Return, NoRunner, durable
  <2>3. told \subseteq told' /\ \A k, f : <<k, f>> \in told' \ told => f = "Canceled"
    BY <2>1
  <2>4. RunnerTold'
    BY <2>1 DEF RunnerTold, At
  <2> QED BY <2>1, <2>3, <2>4, TellKeeps
<1>14. CASE OpenFails \/ FailUncounted \/ StoreErrorAborts \/ FinalizeError
  BY <1>14, <1>f DEF OpenFails, FailUncounted, StoreErrorAborts, FinalizeError
<1>15. ASSUME ~EnvKeysCollide, ~InputsFail, ~PrepareFails, ~WaitFailed, ~WaitSucceeded,
              ~RegisterOutputs, ~NotifySucceeded, ~CompleteAttempt, ~OpenAttempt, ~FailNode,
              ~TerminalizeFailed, ~NotifyFailed, ~NotifyCanceled, ~OpenFails,
              ~FailUncounted, ~StoreErrorAborts, ~FinalizeError
       PROVE  Aside
  BY <1>15, <1>f, AsideSteps
  DEF Next, RunStep, CancelStep, RunnerStep, RealizeStep, SubmitStep, OutcomeStep
<1> QED
  BY <1>a, <1>1, <1>2, <1>3, <1>4, <1>5, <1>6, <1>7, <1>8, <1>9, <1>10, <1>11, <1>12,
     <1>13, <1>14, <1>15

\* ToldInv holds throughout, as long as no registry write is lost.
LEMMA ToldInvariant == ASSUME MaxFaults = 0 PROVE Spec => []ToldInv
<1>1. Init => ToldInv
  BY DEF Init, ToldInv, NewAttempt, NewNode, NoRunner, At
<1>2. SafetyInv /\ SubmissionInv /\ RecordInv /\ ToldInv /\ [Next]_vars => ToldInv'
  BY ToldStep
<1> QED BY <1>1, <1>2, SafetyInvariant, SubmissionInvariant, RecordInvariant, PTL DEF Spec

\* A node is Succeeded only when its Job succeeded, its attempt is Completed and AH
\* knows of the outputs and of the success: across a crash after any of these steps
\* and whichever of SucceedNode and repairTerminalProjection wrote the status.
THEOREM SuccessIsEarned == ASSUME MaxFaults = 0 PROVE Spec => []SucceededIsEarned
<1>1. SafetyInv /\ ToldInv => SucceededIsEarned
  <2> SUFFICES ASSUME SafetyInv, ToldInv, node.status = "Succeeded"
               PROVE  /\ node.cur # NoId
                      /\ attempts[node.cur].status = "Completed"
                      /\ jobs[node.cur] \in {"succeeded", "gone"}
                      /\ {<<node.cur, "outputs">>, <<node.cur, "Succeeded">>} \subseteq told
    BY DEF SucceededIsEarned
  <2>1. node.cur \in Attempts /\ attempts[node.cur].status = "Completed"
    BY DEF ToldInv, SafetyInv, TypeOK, NodeRecord
  <2>2. {<<node.cur, "outputs">>, <<node.cur, "Succeeded">>} \subseteq told
    BY <2>1 DEF ToldInv
  <2>3. Successful(node.cur)
    BY <2>1, <2>2 DEF ToldInv
  <2> QED BY <2>1, <2>2, <2>3 DEF Successful, ToldInv
<1> QED BY <1>1, SafetyInvariant, ToldInvariant, PTL

\* AH is told something by four steps only.
LEMMA TellingSteps ==
  [Next]_vars => \/ RegisterOutputs \/ NotifySucceeded \/ NotifyFailed \/ NotifyCanceled
                 \/ told' = told
BY DEF Next, RunStep, CancelStep, RunnerStep, RealizeStep, SubmitStep,
   OutcomeStep, vars, durable, external, AttemptErrs,
   BeginRun, SetRunRunning, GraphNotStarted, GraphSucceeds, GraphFails,
   FastFail, SkipPending, FinalizeRead, FinalizeWrite, FinalizeError,
   HandoffFinalize, DriveEnds, CancelSignal, CancelJobs, CancelUpdateNode,
   CancelPersistIntent, CancelAbandoned, RunnerStart, Classify,
   RepairProjection, Allocate, Resume, EnvKeysCollide, BuildBindings,
   ResolveInputs, InputsFail, SetStarting, PrepareFails, SetReleasing,
   OpenAttempt, OpenFails, StartNode, StartNodeFails, RegisterHandle, PersistHandle,
   UpsertStarted, MarkRunning, Reattach, IdentityFound, IdentityUnresolved,
   AttachPersist, AttachWait, WaitSucceeded, WaitFailed, WaitError,
   CompleteAttempt, SucceedNode, DeferFinalization, Unresolved, FailNode,
   FailUncounted, MarkReattemptable, ResetNode, TerminalizeFailed, CancelAttempt,
   CancelNodeRecord, CancelBareNode, StoreErrorAborts, Admit, AdmitFails,
   CancelRequest, Timeout, Crash, Recover, JobFinishes, JobExpires

\* NotifyNodeTerminal never tells AH of one attempt that it Succeeded and that it
\* Failed, whatever crashes, retries and recoveries lie between the calls.
THEOREM NothingContradicted == ASSUME MaxFaults = 0 PROVE Spec => []NoContradiction
<1>1. Init => NoContradiction
  BY DEF Init, NoContradiction
<1>2. SafetyInv /\ ToldInv /\ NoContradiction /\ [Next]_vars => NoContradiction'
  <2> SUFFICES ASSUME SafetyInv, ToldInv, NoContradiction, [Next]_vars
               PROVE  NoContradiction'
    OBVIOUS
  <2>0. \A k \in Attempts : ~(<<k, "Succeeded">> \in told /\ <<k, "Failed">> \in told)
    BY DEF NoContradiction
  <2>1. CASE told' = told
    BY <2>1 DEF NoContradiction
  <2>2. CASE RegisterOutputs
    <3>1. told' \in {told, told \cup {<<runner.att, "outputs">>}}
      BY <2>2 DEF RegisterOutputs, NotifyErrs
    <3>2. \A k, f : <<k, f>> \in told' \ told => f = "outputs"
      BY <3>1
    <3>3. \A k \in Attempts : /\ <<k, "Succeeded">> \in told' => <<k, "Succeeded">> \in told
                              /\ <<k, "Failed">> \in told' => <<k, "Failed">> \in told
      BY <3>2
    <3>4. \A k \in Attempts : ~(<<k, "Succeeded">> \in told' /\ <<k, "Failed">> \in told')
      BY <2>0, <3>3, Zenon
    <3> QED BY <3>4 DEF NoContradiction
  <2>3. CASE NotifyCanceled
    <3>1. told' \in {told, told \cup {<<runner.att, "Canceled">>}}
      BY <2>3 DEF NotifyCanceled, Notify
    <3>2. \A k, f : <<k, f>> \in told' \ told => f = "Canceled"
      BY <3>1
    <3>3. \A k \in Attempts : /\ <<k, "Succeeded">> \in told' => <<k, "Succeeded">> \in told
                              /\ <<k, "Failed">> \in told' => <<k, "Failed">> \in told
      BY <3>2
    <3>4. \A k \in Attempts : ~(<<k, "Succeeded">> \in told' /\ <<k, "Failed">> \in told')
      BY <2>0, <3>3, Zenon
    <3> QED BY <3>4 DEF NoContradiction
  <2>4. CASE NotifySucceeded
    <3>1. /\ At("notify")
          /\ \A k, f : <<k, f>> \in told' \ told => k = runner.att /\ f = "Succeeded"
      BY <2>4 DEF NotifySucceeded, NotifyErrs
    <3>2. node.status # "Failed"
      BY <3>1 DEF At, SafetyInv, OutcomeInv
    <3>3. \A k \in Attempts : <<k, "Failed">> \notin told
      BY <3>2 DEF ToldInv
    <3> QED BY <3>1, <3>3 DEF NoContradiction
  <2>5. CASE NotifyFailed
    <3>1. /\ At("notifyFailed")
          /\ \A k, f : <<k, f>> \in told' \ told => k = runner.att /\ f = "Failed"
      BY <2>5 DEF NotifyFailed, Notify
    <3>2. <<runner.att, "Succeeded">> \notin told
      BY <3>1 DEF ToldInv, At
    <3> QED BY <3>1, <3>2 DEF NoContradiction
  <2> QED BY <2>1, <2>2, <2>3, <2>4, <2>5, TellingSteps
<1> QED BY <1>1, <1>2, SafetyInvariant, ToldInvariant, PTL DEF Spec
=============================================================================
