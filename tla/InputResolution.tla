--------------------------- MODULE InputResolution ---------------------------
(***************************************************************************)
(* How a node runner resolves its input bindings and places its Job: the   *)
(* part of runAttemptBody between the allocation of an attempt and         *)
(* PrepareNode, and the resolution repeated once the Pod is scheduled.     *)
(*                                                                         *)
(* Two retry loops are nested around ResolveBinding, one for transport     *)
(* errors (resolveBindingWithRetry) and one for answers that say "not yet" *)
(* (resolveBindingForExecution).  A failed PrepareNode starts another      *)
(* realization cycle on the same nodeRunner, whose fields survive; a crash *)
(* before the submission starts one on a new nodeRunner.  What happens to  *)
(* the records meanwhile, registry errors included, is in NodeExecution.   *)
(***************************************************************************)
EXTENDS Naturals, Sequences, FiniteSets

CONSTANTS
  Bindings,      \* ArtifactBindings: [required, key], key being the name after
                 \* sanitizeEnvSegment
  Answers,       \* what the handoff service may answer to ResolveBinding
  Nodes,         \* Kubernetes node names
  NoNode,        \* the empty node name
  SpecPlacement, \* Placement of the node in the run's specification
  HasQueue,      \* whether the node has a Kueue queue
  Tries,         \* resolveBindingMaxAttempts
  Polls,         \* resolveBindingPendingMaxAttempts
  MaxCycles,     \* bound: realization cycles
  MaxRestarts    \* bound: process crashes

\* ResolutionStatus.  "refused" stands for the statuses that are always final:
\* PRODUCER_FAILED, POLICY_BLOCKED, DIGEST_MISMATCH, GC_EXPIRED and unknown ones.
Statuses == {"", "RESOLVED", "PENDING", "UNAVAILABLE", "MISSING", "refused"}
PlacementModes == {"", "preferred_node", "required_node", "other"}
PlanModes == {"", "none", "local_reuse", "remote_fetch", "other"}

\* ResolveBindingResponse.  source: the plan names the source its mode needs;
\* safePath: localPath is empty or below inputs/.
Answer ==
  [status : Statuses, retryable : BOOLEAN, mode : PlacementModes,
   node : Nodes \cup {NoNode}, plan : PlanModes, source : BOOLEAN,
   safePath : BOOLEAN]
Placement ==
  [selector : Nodes \cup {NoNode}, required : Nodes \cup {NoNode},
   preferred : SUBSET Nodes]

ASSUME InputAssumption ==
  /\ Bindings \in Seq([required : BOOLEAN, key : STRING])
  /\ NoNode \notin Nodes
  /\ Answers \subseteq Answer
  /\ SpecPlacement \in Placement
  /\ HasQueue \in BOOLEAN
  /\ Tries \in Nat \ {0} /\ Polls \in Nat \ {0}
  /\ MaxCycles \in Nat \ {0} /\ MaxRestarts \in Nat

VARIABLES
  pc,         \* where the runner is
  phase,      \* "resolve" before the submission, "post" after scheduling
  idx,        \* the binding being resolved
  tries,      \* calls for the current answer
  polls,      \* answers asked for so far
  hints,      \* r.localityHints
  post,       \* r.postSchedulingResolves: bindings, in order
  env,        \* executionNode.Env: the answer injected for each binding
  placement,  \* executionNode.Placement
  reason,     \* TerminalFailureReason, or "none"
  canceled,   \* whether the run is stored as Canceled
  ended,      \* whether the context of the runner ended
  cycle, restarts,
  calls       \* ResolveBinding calls for each binding in this cycle

loop == <<phase, idx, tries, polls>>
rest == <<canceled, ended, cycle, restarts>>
vars == <<pc, phase, idx, tries, polls, hints, post, env, placement, reason,
          canceled, ended, cycle, restarts, calls>>

B == 1 .. Len(Bindings)
NoAnswer == [status |-> "none"]
Hints == [node : Nodes, mode : PlacementModes]
PCs == {"begin", "ask", "tryPause", "pollPause", "place", "prepare", "submitted",
        "failed", "done"}

\* "pending" and "refused" are the reasons input_resolution_...: the two for an
\* answer that may be asked for again, and all others.
Reasons == {"none", "input_env_key_collision", "pending", "refused",
            "resolve_handoff_error", "placement_conflict",
            "backend_prepare_error", "cancellation_requested"}

\* Counters stay within the loops' limits and every field is of its type.
TypeOK ==
  /\ pc \in PCs /\ phase \in {"resolve", "post"}
  /\ idx \in 1 .. Len(Bindings) + 1
  /\ tries \in 1 .. Tries /\ polls \in 1 .. Polls
  /\ hints \subseteq Hints
  /\ post \in Seq(B)
  /\ env \in [B -> Answer \cup {NoAnswer}]
  /\ placement \in Placement
  /\ reason \in Reasons
  /\ canceled \in BOOLEAN /\ ended \in BOOLEAN
  /\ cycle \in 1 .. MaxCycles /\ restarts \in 0 .. MaxRestarts
  /\ calls \in [B -> Nat]

-----------------------------------------------------------------------------
(* The pure parts                                                          *)

\* cloneNode copies NodeSelector and nothing else of Placement.
CloneNode == [selector |-> SpecPlacement.selector, required |-> NoNode,
              preferred |-> {}]

\* validateResolvedBindingEnvKeys.
EnvKeysCollide ==
  \E i, j \in B : i # j /\ Bindings[i].key = Bindings[j].key

ClassifyLenient(b, a) ==        \* mutant: a missing artifact is always optional
  IF a.status \in {"", "RESOLVED"} THEN "proceed"
  ELSE IF a.status \in {"PENDING", "UNAVAILABLE"} /\ a.retryable THEN "retry"
  ELSE IF a.status = "MISSING" THEN "skip"
  ELSE "fail"

\* classifyResolvedBinding.
Classify(b, a) ==
  IF a.status \in {"", "RESOLVED"} THEN "proceed"
  ELSE IF a.status \in {"PENDING", "UNAVAILABLE"} /\ a.retryable THEN "retry"
  ELSE IF a.status = "MISSING" /\ ~b.required THEN "skip"
  ELSE "fail"

\* The failure reason classifyResolvedBinding gives with it.
FailureReason(b, a) == IF Classify(b, a) = "retry" THEN "pending" ELSE "refused"

\* validateResolvedBindingContract.
ContractValid(a) ==
  /\ a.mode # "" => a.mode \in {"preferred_node", "required_node"} /\ a.node # NoNode
  /\ \/ a.plan \in {"", "none"}
     \/ a.plan \in {"local_reuse", "remote_fetch"} /\ a.source /\ a.safePath

\* applyPlacementHints: the nodes hinted at with a mode, and what follows.
Hinted(mode) == {h.node : h \in {g \in hints : g.mode = mode}}
Required  == Hinted("required_node")
Preferred == Hinted("preferred_node")

PlacementLastWins(pl) ==                    \* mutant: no conflict, one is taken
  FALSE
PlacementConflicts(pl) ==
  \/ Cardinality(Required) > 1
  \/ Required # {} /\ (pl.preferred # {} \/ pl.selector \notin Required \cup {NoNode})
  \/ Required = {} /\ Preferred # {} /\ pl.required # NoNode
ApplyPlacementHints(pl) ==
  IF Required # {}
  THEN LET n == CHOOSE n \in Required : TRUE
       IN  [pl EXCEPT !.selector = n, !.required = n]
  ELSE IF Preferred # {} THEN [pl EXCEPT !.preferred = Preferred] ELSE pl

-----------------------------------------------------------------------------
(* Steps                                                                   *)

Init ==
  /\ pc = "begin" /\ phase = "resolve"
  /\ idx = 1 /\ tries = 1 /\ polls = 1
  /\ hints = {} /\ post = <<>>
  /\ env = [i \in B |-> NoAnswer]
  /\ placement = CloneNode
  /\ reason = "none"
  /\ canceled = FALSE /\ ended = FALSE /\ cycle = 1 /\ restarts = 0
  /\ calls = [i \in B |-> 0]

\* failNode without another cycle: a run stored as Canceled cancels the node.
Fail(r) ==
  /\ pc' = "failed"
  /\ reason' = IF canceled THEN "cancellation_requested" ELSE r
  /\ UNCHANGED <<loop, hints, post, env, placement>>

\* The loop over the bindings (or over post) goes on with item k, or ends.
Proceed(k, last, next) ==
  /\ idx' = k /\ tries' = 1 /\ polls' = 1
  /\ pc' = IF k <= last THEN "ask" ELSE next

BeginCycle ==
  /\ pc = "begin"
  /\ phase' = "resolve" /\ post' = <<>>
  /\ env' = [i \in B |-> NoAnswer] /\ calls' = [i \in B |-> 0]
  /\ placement' = CloneNode
  /\ IF EnvKeysCollide
     THEN /\ pc' = "failed"
          /\ reason' = IF canceled THEN "cancellation_requested"
                       ELSE "input_env_key_collision"
          /\ UNCHANGED <<idx, tries, polls>>
     ELSE Proceed(1, Len(Bindings), "place") /\ UNCHANGED reason
  /\ UNCHANGED <<hints, rest>>

\* The binding an answer is about: in the second phase idx counts in post.
Current == IF phase = "resolve" THEN idx ELSE post[idx]
Called == calls' = [calls EXCEPT ![Current] = @ + 1]

\* The answer is taken: recordPostSchedulingResolve, recordLocalityHint and
\* injectResolvedBindingEnv.
Accept(a) ==
  /\ pc = "ask" /\ phase = "resolve"
  /\ \/ Classify(Bindings[idx], a) = "proceed" /\ ContractValid(a)
     \/ Classify(Bindings[idx], a) = "skip"
  /\ Called
  /\ env' = [env EXCEPT ![idx] = a]
  /\ post' = Append(post, idx)
  /\ hints' = IF a.node = NoNode THEN hints
              ELSE hints \cup {[node |-> a.node, mode |-> a.mode]}
  /\ Proceed(idx + 1, Len(Bindings), "place")
  /\ UNCHANGED <<phase, placement, reason, rest>>

\* A contract violation is not an error with the prefix input_resolution_, so
\* resolveFailureReason reports it as a handoff error.
RejectContract(a) ==
  /\ pc = "ask" /\ phase = "resolve"
  /\ Classify(Bindings[idx], a) = "proceed" /\ ~ContractValid(a)
  /\ Called
  /\ Fail("resolve_handoff_error")
  /\ UNCHANGED rest

RefuseEarly(a) ==                         \* mutant: one poll short of the limit
  /\ pc = "ask" /\ phase = "resolve"
  /\ \/ Classify(Bindings[idx], a) = "fail"
     \/ Classify(Bindings[idx], a) = "retry" /\ polls + 1 >= Polls
  /\ Called
  /\ Fail(FailureReason(Bindings[idx], a))
  /\ UNCHANGED rest
Refuse(a) ==
  /\ pc = "ask" /\ phase = "resolve"
  /\ \/ Classify(Bindings[idx], a) = "fail"
     \/ Classify(Bindings[idx], a) = "retry" /\ polls = Polls
  /\ Called
  /\ Fail(FailureReason(Bindings[idx], a))
  /\ UNCHANGED rest

Postpone(a) ==
  /\ pc = "ask" /\ phase = "resolve"
  /\ Classify(Bindings[idx], a) = "retry" /\ polls < Polls
  /\ Called
  /\ pc' = "pollPause"
  /\ UNCHANGED <<loop, hints, post, env, placement, reason, rest>>

\* After scheduling the answer is only reported.
ObserveAnswer ==
  /\ pc = "ask" /\ phase = "post"
  /\ Called
  /\ Proceed(idx + 1, Len(post), "done")
  /\ UNCHANGED <<phase, hints, post, env, placement, reason, rest>>

\* resolveBindingWithRetry returns an error.
GiveUp ==
  IF phase = "resolve" THEN Fail("resolve_handoff_error")
  ELSE /\ Proceed(idx + 1, Len(post), "done")
       /\ UNCHANGED <<phase, hints, post, env, placement, reason>>

TransientErrorOnceMore ==                 \* mutant: one call over the limit
  /\ pc = "ask"
  /\ Called
  /\ IF tries > Tries THEN GiveUp
     ELSE pc' = "tryPause"
          /\ UNCHANGED <<loop, hints, post, env, placement, reason>>
  /\ UNCHANGED rest
TransientError ==
  /\ pc = "ask"
  /\ Called
  /\ IF tries = Tries THEN GiveUp
     ELSE pc' = "tryPause"
          /\ UNCHANGED <<loop, hints, post, env, placement, reason>>
  /\ UNCHANGED rest

PermanentError ==
  /\ pc = "ask"
  /\ Called
  /\ GiveUp
  /\ UNCHANGED rest

TryAgain ==
  /\ pc = "tryPause"
  /\ tries' = tries + 1
  /\ pc' = "ask"
  /\ UNCHANGED <<phase, idx, polls, hints, post, env, placement, reason, rest, calls>>

PollAgain ==
  /\ pc = "pollPause"
  /\ polls' = polls + 1 /\ tries' = 1
  /\ pc' = "ask"
  /\ UNCHANGED <<phase, idx, hints, post, env, placement, reason, rest, calls>>

PauseInterrupted ==
  /\ pc \in {"tryPause", "pollPause"} /\ ended
  /\ GiveUp
  /\ UNCHANGED <<rest, calls>>

Place ==
  /\ pc = "place"
  /\ IF PlacementConflicts(placement) THEN Fail("placement_conflict")
     ELSE /\ placement' = ApplyPlacementHints(placement)
          /\ pc' = "prepare"
          /\ UNCHANGED <<loop, hints, post, env, reason>>
  /\ UNCHANGED <<rest, calls>>

\* PrepareNode, the submission fence and StartNode.
Submit ==
  /\ pc = "prepare"
  /\ pc' = "submitted"
  /\ UNCHANGED <<loop, hints, post, env, placement, reason, rest, calls>>

PrepareFailsUncounted ==           \* mutant: the cycle is not counted
  /\ pc = "prepare"
  /\ IF cycle < MaxCycles /\ ~canceled
     THEN /\ pc' = "begin"
          /\ UNCHANGED <<loop, hints, post, env, placement, reason>>
     ELSE Fail("backend_prepare_error")
  /\ UNCHANGED <<rest, calls>>
\* PrepareNode or the fence fails: failNode asks for another cycle while the
\* ceiling allows it, and RunE loops on the same nodeRunner.
PrepareFails ==
  /\ pc = "prepare"
  /\ IF cycle < MaxCycles /\ ~canceled
     THEN /\ cycle' = cycle + 1 /\ pc' = "begin"
          /\ UNCHANGED <<loop, hints, post, env, placement, reason>>
     ELSE Fail("backend_prepare_error") /\ UNCHANGED cycle
  /\ UNCHANGED <<canceled, ended, restarts, calls>>

\* StartNode failed, or ObserveNode has nothing to observe or no scheduled Pod.
NotScheduled ==
  /\ pc = "submitted"
  /\ pc' = "done"
  /\ UNCHANGED <<loop, hints, post, env, placement, reason, rest, calls>>

\* shouldObserveScheduling, and ObserveNode finds the Pod on its node: the bindings
\* are resolved for it.
Scheduled ==
  /\ pc = "submitted"
  /\ HasQueue \/ hints # {}
  /\ phase' = "post"
  /\ Proceed(1, Len(post), "done")
  /\ UNCHANGED <<hints, post, env, placement, reason, rest, calls>>

\* Cancel stores the run as Canceled.
RunCanceled ==
  /\ ~canceled /\ pc \notin {"failed", "done"}
  /\ canceled' = TRUE
  /\ UNCHANGED <<pc, loop, hints, post, env, placement, reason, ended, cycle,
                 restarts, calls>>

\* Cancel, the fast-fail watcher or the node's timeout ends the context.
ContextEnds ==
  /\ ~ended /\ pc \notin {"failed", "done"}
  /\ ended' = TRUE
  /\ UNCHANGED <<pc, loop, hints, post, env, placement, reason, canceled, cycle,
                 restarts, calls>>

\* The process crashes before the submission.  The startup sweep resumes the same
\* attempt on a new nodeRunner, or drives the cancellation to its end.
Restart ==
  /\ pc \in {"begin", "ask", "tryPause", "pollPause", "place", "prepare"}
  /\ phase = "resolve" /\ restarts < MaxRestarts
  /\ restarts' = restarts + 1
  /\ hints' = {} /\ post' = <<>> /\ ended' = FALSE
  /\ pc' = IF canceled THEN "failed" ELSE "begin"
  /\ reason' = IF canceled THEN "cancellation_requested" ELSE reason
  /\ UNCHANGED <<loop, env, placement, canceled, cycle, calls>>

Answered(a) ==
  Accept(a) \/ RejectContract(a) \/ Refuse(a) \/ Postpone(a)

Step ==
  \/ BeginCycle \/ ObserveAnswer \/ TransientError \/ PermanentError \/ TryAgain
  \/ PollAgain \/ PauseInterrupted \/ Place \/ Submit \/ PrepareFails
  \/ NotScheduled \/ Scheduled
  \/ \E a \in Answers : Answered(a)

Next == Step \/ RunCanceled \/ ContextEnds \/ Restart

Spec == Init /\ [][Next]_vars

\* Every call has a timeout (handoff client), every pause a timer.
FairSpec == Spec /\ WF_vars(Step)

-----------------------------------------------------------------------------
(* Properties                                                              *)

InputOk(i) ==
  /\ env[i] # NoAnswer
  /\ \/ env[i].status \in {"", "RESOLVED"} /\ ContractValid(env[i])
     \/ env[i].status = "MISSING" /\ ~Bindings[i].required

\* A Job is submitted only when every binding has an executable answer of this
\* cycle, whatever was retried, postponed or answered in an earlier one.
SubmittedIsResolved ==
  pc \in {"prepare", "submitted"} => \A i \in B : InputOk(i)

\* An artifact that cannot be consumed elsewhere pins the Job: the submitted
\* placement names the node of every required_node answer, also when answers and
\* the node's own selector disagree.  (recordLocalityHint passes over an answer
\* without a node name; the contract lets only a missing optional one be so.)
RequiredIsHonoured ==
  pc \in {"prepare", "submitted"} =>
    \A i \in B :
      env[i] # NoAnswer /\ env[i].mode = "required_node" /\ env[i].node # NoNode
        => placement.selector = env[i].node

\* The nested loops together stay within their budgets, the resolution after
\* scheduling included.
CallsBounded ==
  \A i \in B : calls[i] <= Tries * Polls + (IF phase = "post" THEN Tries ELSE 0)

\* A node fails for want of an answer that was worth waiting for only after it
\* was asked for as often as the policy says.
RetryableIsRetried ==
  reason = "pending" => calls[idx] >= Polls

\* Resolution comes to an end.
Terminates == <>(pc \in {"failed", "done"})
=============================================================================
