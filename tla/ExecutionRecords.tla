-------------------------- MODULE ExecutionRecords --------------------------
(***************************************************************************)
(* The durable records of one node of a run: the NodeRecord and its        *)
(* AttemptRecords (pkg/spec/types.go), the registry operations that change *)
(* them (pkg/registry), and the classification the executor derives from   *)
(* them on every entry and after every restart (pkg/executor/reconcile.go).*)
(*                                                                         *)
(* Each registry operation is one transaction, so it is one operator from  *)
(* the records before to the records after.  Timestamps are abstracted to  *)
(* whether they are set; an attempt's deterministic identity is abstracted *)
(* to its number; a handle to the number of the attempt it belongs to.     *)
(***************************************************************************)
EXTENDS Naturals, FiniteSets

CONSTANT Ceiling    \* realizationAttemptCeiling: realization cycles per node

ASSUME CeilingAssumption == Ceiling \in Nat \ {0}

\* Attempt numbers; 0 stands for the empty CurrentAttemptID and the empty
\* handle.  One number beyond the ceiling is representable, so that exceeding
\* the ceiling is a state of the model and not an error of it.
Attempts == 1 .. Ceiling + 1
NoId == 0

RunStatuses ==
  {"Accepted", "Admitted", "Running", "Succeeded", "Failed", "Canceled"}
NodeStatuses ==
  {"Pending", "Ready", "BuildingBindings", "ResolvingInputs", "Starting",
   "Releasing", "Running", "Succeeded", "Failed", "Canceled", "Skipped"}
AttemptStatuses == {"None", "Prepared", "Started", "Completed", "Errored"}
StopCauses == {"none", "finished", "failed", "canceled"}

RunTerminal(s) == s \in {"Succeeded", "Failed", "Canceled"}
NodeTerminal(s) == s \in {"Succeeded", "Failed", "Canceled", "Skipped"}
AttemptTerminal(s) == s \in {"Completed", "Errored"}

(***************************************************************************)
(* AttemptRecord: fence is SubmissionWindowOpenedAt, handle is             *)
(* BackendHandleJSON, intent is CancellationRequestedAt, reatt is          *)
(* RealizationReattemptableAt, done is ProcessCompletedAt.                 *)
(***************************************************************************)
AttemptRecord ==
  [status : AttemptStatuses, cause : StopCauses, fence : BOOLEAN,
   handle : BOOLEAN, intent : BOOLEAN, reatt : BOOLEAN, done : BOOLEAN]

\* The record literal the executor passes to UpsertAttempt: the fields it does
\* not name are the zero value.
NewAttempt(status, cause) ==
  [status |-> status, cause |-> cause, fence |-> FALSE, handle |-> FALSE,
   intent |-> FALSE, reatt |-> FALSE, done |-> FALSE]

(***************************************************************************)
(* NodeRecord: cur is CurrentAttemptID, handle the attempt whose handle is *)
(* mirrored in CurrentAttemptHandleJSON, opened is AttemptCount, realized  *)
(* is RealizationAttemptCount.                                             *)
(***************************************************************************)
NodeRecord ==
  [status : NodeStatuses, cur : {NoId} \cup Attempts,
   handle : {NoId} \cup Attempts, opened : Nat, realized : 0 .. Ceiling + 1]

NewNode ==
  [status |-> "Pending", cur |-> NoId, handle |-> NoId, opened |-> 0,
   realized |-> 0]

-----------------------------------------------------------------------------
(* Registry operations                                                     *)

\* GetCurrentAttempt's second result.
HasAttempt(node, attempts) ==
  /\ node.cur # NoId
  /\ attempts[node.cur].status # "None"

\* AllocateCurrentAttempt refuses while the current Attempt is non-terminal.
MayAllocate(node, attempts) ==
  HasAttempt(node, attempts) => AttemptTerminal(attempts[node.cur].status)

NextAttempt(node) == node.realized + 1

AllocatedNode(node) ==
  [node EXCEPT !.realized = NextAttempt(node), !.cur = NextAttempt(node),
               !.status = "Ready"]

\* UpsertAttempt stores the given record in place of the stored one: what the
\* stored one held and the given one does not is gone.
Upserted(attempts, k, record) == [attempts EXCEPT ![k] = record]

\* OpenSemanticAttempt: the fence on the attempt and AttemptCount + 1 on the
\* node, in one transaction.
OpenedNode(node) == [node EXCEPT !.opened = @ + 1]
OpenedUnfenced(attempts, k) == attempts                \* mutant: no fence
OpenedAttempts(attempts, k) == [attempts EXCEPT ![k].fence = TRUE]

\* openedOpportunityCount: how many of the node's attempts carry the fence.
OpenedOpportunities(attempts) ==
  Cardinality({k \in Attempts : attempts[k].fence})

\* A node always gets one opportunity (effectiveMaxAttempts).
EffectiveMaxAttempts(m) == IF m < 1 THEN 1 ELSE m

\* PersistBackendHandle: the attempt's handle, mirrored on the node when the
\* attempt is the current one.
HandleAttempts(attempts, k) == [attempts EXCEPT ![k].handle = TRUE]
HandleNode(node, k) == IF node.cur = k THEN [node EXCEPT !.handle = k] ELSE node

\* PersistCancellationIntent and PersistProcessCompleted keep what they find,
\* and so does the UpsertAttempt with which failNode records the basis for
\* another realization cycle: it starts from the record it has read.
IntentAttempts(attempts, k) == [attempts EXCEPT ![k].intent = TRUE]
ProcessCompletedAttempts(attempts, k) == [attempts EXCEPT ![k].done = TRUE]
ReattemptableAttempts(attempts, k) == [attempts EXCEPT ![k].reatt = TRUE]

-----------------------------------------------------------------------------
(* Reconcile classification                                                *)

Decisions ==
  {"Fresh", "ResumePreFence", "Reattach", "ResolveByIdentity",
   "TerminalRepair"}

\* A terminal Attempt that is not the end: a pre-fence realization failure
\* with a durable basis for another cycle.
Reattemptable(attempt) ==
  AttemptTerminal(attempt.status) /\ attempt.reatt /\ ~attempt.fence

ClassifyByHandle(node, attempts) ==  \* mutant: the handle before the attempt
  LET has == HasAttempt(node, attempts)
      a   == attempts[node.cur]
  IN  IF NodeTerminal(node.status) THEN "TerminalRepair"
      ELSE IF node.handle # NoId \/ (has /\ a.handle) THEN "Reattach"
      ELSE IF has /\ Reattemptable(a) THEN "Fresh"
      ELSE IF has /\ AttemptTerminal(a.status) THEN "TerminalRepair"
      ELSE IF ~has THEN "Fresh"
      ELSE IF a.fence THEN "ResolveByIdentity"
      ELSE "ResumePreFence"

\* The checks in the order the code makes them: the first that applies
\* decides.
ClassifyReconcile(node, attempts) ==
  LET has == HasAttempt(node, attempts)
      a   == attempts[node.cur]
  IN  IF NodeTerminal(node.status) THEN "TerminalRepair"
      ELSE IF has /\ Reattemptable(a) THEN "Fresh"
      ELSE IF has /\ AttemptTerminal(a.status) THEN "TerminalRepair"
      ELSE IF node.handle # NoId \/ (has /\ a.handle) THEN "Reattach"
      ELSE IF ~has THEN "Fresh"
      ELSE IF a.fence THEN "ResolveByIdentity"
      ELSE "ResumePreFence"

\* nodeStatusFromAttempt: the projection of a terminal Attempt on its Node.
NodeStatusFromAttempt(a) ==
  IF a.cause = "canceled" THEN "Canceled"
  ELSE IF a.status = "Completed" THEN "Succeeded"
  ELSE "Failed"
=============================================================================
