----------------------- MODULE InputResolutionProofs -----------------------
(***************************************************************************)
(* Proofs about InputResolution, for any bindings, answers and placement,  *)
(* any limits of the two loops and any number of cycles and crashes.       *)
(***************************************************************************)
EXTENDS InputResolution, FiniteSetTheorems, TLAPS

N == Len(Bindings)
Asking == pc \in {"ask", "tryPause", "pollPause"}
Resolving == phase = "resolve" /\ Asking
Resolved == pc \in {"place", "prepare", "submitted"}

\* The bindings recorded for the resolution after scheduling are the first k, in
\* order.
Recorded(k) == Len(post) = k /\ \A i \in 1 .. k : post[i] = i

\* Where the loops are: in either phase the index is that of a binding and of its
\* record, and a pause is only made when another round is allowed.
LoopInv ==
  /\ phase = "post" => pc \in {"ask", "tryPause", "done"} /\ Recorded(N)
  /\ Asking => idx \in B
  /\ Resolving => Recorded(idx - 1)
  /\ Resolved => Recorded(N)
  /\ pc = "tryPause" => tries < Tries
  /\ pc = "pollPause" => polls < Polls

\* The calls made: earlier bindings within the budget, later ones none (or, after
\* scheduling, within the budget of the first phase), the current one as many as
\* the two counters say.
Budget == Tries * Polls
Allowance == (polls - 1) * Tries + tries
CountInv ==
  /\ phase = "resolve" => \A i \in B : calls[i] <= Budget
  /\ phase = "post" => \A i \in B : calls[i] <= Budget + Tries
  /\ Resolving =>
       /\ calls[idx] <= Allowance
       /\ pc = "ask" => calls[idx] < Allowance
       /\ \A i \in B : i > idx => calls[i] = 0
  /\ phase = "post" /\ Asking =>
       /\ calls[idx] <= Budget + tries
       /\ pc = "ask" => calls[idx] < Budget + tries
       /\ \A i \in B : i > idx => calls[i] <= Budget

\* Each poll was a call, and a node that failed for want of an answer has made all
\* of them.
RetryInv ==
  /\ Resolving => calls[idx] + 1 >= polls
  /\ pc = "pollPause" => calls[idx] >= polls
  /\ reason = "pending" => pc = "failed" /\ calls[idx] >= Polls

\* The answers taken in this cycle are executable, and what they say about the
\* node is among the hints.
HintKept(i) ==
  env[i].node # NoNode => [node |-> env[i].node, mode |-> env[i].mode] \in hints
EnvInv ==
  /\ IsFiniteSet(hints)
  /\ Resolving => \A i \in 1 .. idx - 1 : InputOk(i) /\ HintKept(i)
  /\ Resolved => \A i \in B : InputOk(i) /\ HintKept(i)

\* The placement of the Job is the only required node there is.
PlaceInv ==
  pc \in {"prepare", "submitted"} => \A n \in Required : placement.selector = n

ResolutionInv == TypeOK /\ LoopInv /\ CountInv /\ RetryInv /\ EnvInv /\ PlaceInv

-----------------------------------------------------------------------------
(* Facts the steps share                                                   *)

\* The constants: the bindings are numbered 1 to N, both loops run at least once.
LEMMA ConstantFacts ==
  /\ N \in Nat /\ B = 1 .. N
  /\ Bindings \in [B -> [required : BOOLEAN, key : STRING]]
  /\ Tries \in Nat /\ Tries >= 1 /\ Polls \in Nat /\ Polls >= 1
  /\ Budget \in Nat
<1> DEFINE R == [required : BOOLEAN, key : STRING]
<1>0. Bindings \in Seq(R)
  BY InputAssumption
<1>1. N \in Nat /\ B = 1 .. N /\ Bindings \in [B -> R]
  <2> HIDE DEF R
  <2> QED BY <1>0 DEF N, B
<1>2. Tries \in Nat /\ Tries >= 1 /\ Polls \in Nat /\ Polls >= 1
  BY InputAssumption
<1>3. Budget \in Nat
  BY <1>2 DEF Budget
<1> QED BY <1>1, <1>2, <1>3

\* What the two counters allow so far is within the budget, and no product is left
\* for the steps to reason about: another try allows one more call, another poll at
\* least one more, the next binding starts with one.
LEMMA AllowanceFacts ==
  ASSUME TypeOK
  PROVE  /\ Allowance \in Nat /\ Allowance <= Budget
         /\ UNCHANGED <<tries, polls>> => Allowance' = Allowance
         /\ tries' = tries + 1 /\ polls' = polls => Allowance' = Allowance + 1
         /\ tries' = 1 /\ polls' = polls + 1
              => Allowance' \in Nat /\ Allowance' >= Allowance + 1
         /\ tries' = 1 /\ polls' = 1 => Allowance' = 1
<1>1. /\ polls \in Nat /\ polls >= 1 /\ polls <= Polls /\ Polls \in Nat
      /\ tries \in Nat /\ tries >= 1 /\ tries <= Tries /\ Tries \in Nat
  BY ConstantFacts DEF TypeOK
<1> DEFINE W == (polls - 1) * Tries
<1>2. polls * Tries = W + Tries /\ W \in Nat
  BY <1>1
<1>3. polls * Tries <= Polls * Tries
  BY <1>1
<1>4. Polls * Tries = Budget
  BY <1>1 DEF Budget
<1>5. Allowance = W + tries
  BY DEF Allowance
<1>6. Allowance \in Nat /\ Allowance <= Budget
  <2> HIDE DEF W
  <2> QED BY <1>1, <1>2, <1>3, <1>4, <1>5
<1>7. UNCHANGED <<tries, polls>> => Allowance' = Allowance
  BY DEF Allowance
<1>8. ASSUME tries' = tries + 1, polls' = polls PROVE Allowance' = Allowance + 1
  <2>1. Allowance' = W + (tries + 1)
    BY <1>8 DEF Allowance
  <2> HIDE DEF W
  <2> QED BY <1>1, <1>2, <1>5, <2>1
<1>9. ASSUME tries' = 1, polls' = polls + 1
      PROVE  Allowance' \in Nat /\ Allowance' >= Allowance + 1
  <2>1. Allowance' = polls * Tries + 1
    BY <1>1, <1>9 DEF Allowance
  <2> HIDE DEF W
  <2> QED BY <1>1, <1>2, <1>5, <2>1
<1>10. ASSUME tries' = 1, polls' = 1 PROVE Allowance' = 1
  BY <1>1, <1>10 DEF Allowance
<1> QED BY <1>6, <1>7, <1>8, <1>9, <1>10

\* In both phases the binding asked for is the one idx names: after scheduling the
\* bindings are asked for in the order they were recorded in.
LEMMA CurrentIsIdx ==
  ASSUME TypeOK, LoopInv, Asking
  PROVE  idx \in B /\ Current = idx
BY ConstantFacts DEF TypeOK, LoopInv, Recorded, Current, N

\* A call is counted for that binding and for no other.
LEMMA CalledFacts ==
  ASSUME TypeOK, LoopInv, Asking, Called
  PROVE  /\ calls' \in [B -> Nat]
         /\ calls'[idx] = calls[idx] + 1
         /\ \A i \in B : i # idx => calls'[i] = calls[i]
BY CurrentIsIdx DEF TypeOK, Called

\* applyPlacementHints yields a placement, and a required node if it has one.
LEMMA PlacementFacts ==
  ASSUME TypeOK
  PROVE  /\ Required \subseteq Nodes /\ Preferred \subseteq Nodes
         /\ ApplyPlacementHints(placement) \in Placement
         /\ Required # {} => ApplyPlacementHints(placement).selector \in Required
<1>1. Required \subseteq Nodes /\ Preferred \subseteq Nodes
  BY DEF TypeOK, Hints, Required, Preferred, Hinted
<1>2. placement \in Placement
  BY DEF TypeOK
<1>3. CASE Required # {}
  <2> DEFINE n == CHOOSE n \in Required : TRUE
  <2>1. n \in Required
    BY <1>3
  <2>2. ApplyPlacementHints(placement)
          = [placement EXCEPT !.selector = n, !.required = n]
    BY <1>3 DEF ApplyPlacementHints
  <2> HIDE DEF n
  <2>3. [placement EXCEPT !.selector = n, !.required = n]
          = [selector |-> n, required |-> n, preferred |-> placement.preferred]
    <3> DEFINE q == [placement EXCEPT !.selector = n, !.required = n]
    <3>1. DOMAIN placement = {"selector", "required", "preferred"}
      BY <1>2 DEF Placement
    <3>2. DOMAIN q = {"selector", "required", "preferred"}
      BY <3>1
    <3>3. q.selector = n /\ q.required = n /\ q.preferred = placement.preferred
      BY <3>1
    <3>4. q = [x \in {"selector", "required", "preferred"} |-> q[x]]
      BY <3>2
    <3> HIDE DEF q
    <3>5. q = [selector |-> n, required |-> n, preferred |-> placement.preferred]
      BY <3>3, <3>4
    <3> QED BY <3>5 DEF q
  <2> QED BY <1>1, <1>2, <1>3, <2>1, <2>2, <2>3 DEF Placement
<1>4. CASE Required = {}
  BY <1>1, <1>2, <1>4 DEF ApplyPlacementHints, Placement
<1> QED BY <1>1, <1>3, <1>4


\* Giving up fails the node before the submission, and after the scheduling goes on
\* with the next binding.
LEMMA GiveUpFacts ==
  ASSUME TypeOK, LoopInv, Asking, GiveUp
  PROVE  /\ UNCHANGED <<phase, hints, post, env, placement>>
         /\ \/ /\ phase = "resolve" /\ pc' = "failed" /\ UNCHANGED <<idx, tries, polls>>
               /\ reason' \in {"resolve_handoff_error", "cancellation_requested"}
            \/ /\ phase = "post" /\ reason' = reason
               /\ idx' = idx + 1 /\ tries' = 1 /\ polls' = 1
               /\ pc' = IF idx + 1 <= N THEN "ask" ELSE "done"
BY DEF GiveUp, Fail, Proceed, loop, TypeOK, LoopInv, Recorded

\* What a runner that has not ended leaves alone of its bounds and of the stored
\* cancellation.
LEMMA RestTyped ==
  ASSUME TypeOK, UNCHANGED rest
  PROVE  canceled' \in BOOLEAN /\ ended' \in BOOLEAN
         /\ cycle' \in 1 .. MaxCycles /\ restarts' \in 0 .. MaxRestarts
BY DEF TypeOK, rest

-----------------------------------------------------------------------------
(* The types and the loops                                                 *)

\* Every step keeps the types.
LEMMA TypeStep == TypeOK /\ LoopInv /\ [Next]_vars => TypeOK'
<1> SUFFICES ASSUME TypeOK, LoopInv, [Next]_vars PROVE TypeOK'
  OBVIOUS
<1> USE ConstantFacts DEF N
<1>1. CASE BeginCycle
  BY <1>1, RestTyped, InputAssumption
     DEF BeginCycle, Proceed, TypeOK, CloneNode, Placement, PCs, Reasons
<1>2. CASE ObserveAnswer
  <2>1. idx \in B /\ calls' \in [B -> Nat]
    BY <1>2, CurrentIsIdx, CalledFacts DEF ObserveAnswer, Asking
  <2>2. idx + 1 \in 1 .. N + 1 /\ 1 \in 1 .. Tries /\ 1 \in 1 .. Polls
    BY <2>1
  <2> QED BY <1>2, <2>1, <2>2, RestTyped DEF ObserveAnswer, Proceed, TypeOK, PCs
<1>3. ASSUME Asking, GiveUp, UNCHANGED rest, calls' \in [B -> Nat] PROVE TypeOK'
  <2>1. idx \in B
    BY <1>3, CurrentIsIdx
  <2>2. idx + 1 \in 1 .. N + 1 /\ 1 \in 1 .. Tries /\ 1 \in 1 .. Polls
    BY <2>1
  <2> QED BY <1>3, <2>2, RestTyped, GiveUpFacts DEF TypeOK, PCs, Reasons
<1>4. CASE TransientError
  <2>1. Asking /\ calls' \in [B -> Nat]
    BY <1>4, CalledFacts DEF TransientError, Asking
  <2>2. CASE tries # Tries
    BY <1>4, <2>1, <2>2, RestTyped DEF TransientError, TypeOK, PCs, loop
  <2> QED BY <1>3, <1>4, <2>1, <2>2 DEF TransientError
<1>5. CASE PermanentError
  BY <1>3, <1>5, CalledFacts DEF PermanentError, Asking
<1>6. CASE PauseInterrupted
  BY <1>3, <1>6 DEF PauseInterrupted, Asking, TypeOK
<1>7. CASE TryAgain
  BY <1>7, RestTyped DEF TryAgain, TypeOK, LoopInv, PCs
<1>8. CASE PollAgain
  BY <1>8, RestTyped DEF PollAgain, TypeOK, LoopInv, PCs
<1>9. CASE Place
  BY <1>9, RestTyped, PlacementFacts DEF Place, Fail, TypeOK, PCs, Reasons, loop
<1>10. CASE Submit \/ NotScheduled
  BY <1>10, RestTyped DEF Submit, NotScheduled, TypeOK, PCs, loop
<1>11. CASE PrepareFails
  BY <1>11, InputAssumption DEF PrepareFails, Fail, TypeOK, PCs, Reasons, loop
<1>12. CASE Scheduled
  BY <1>12, RestTyped DEF Scheduled, Proceed, TypeOK, PCs
<1>13. ASSUME NEW a \in Answers, Answered(a) PROVE TypeOK'
  <2>1. pc = "ask" /\ phase = "resolve" /\ Called /\ UNCHANGED rest
    BY <1>13 DEF Answered, Accept, RejectContract, Refuse, Postpone
  <2>2. idx \in B /\ calls' \in [B -> Nat]
    BY <2>1, CurrentIsIdx, CalledFacts DEF Asking
  <2>3. CASE Accept(a)
    <3>1. a \in Answer
      BY InputAssumption
    <3>2. hints' \subseteq Hints
      BY <2>3, <3>1 DEF Accept, TypeOK, Hints, Answer
    <3>3. env' \in [B -> Answer \cup {NoAnswer}] /\ post' \in Seq(B)
      BY <2>2, <2>3, <3>1 DEF Accept, TypeOK
    <3>4. idx + 1 \in 1 .. N + 1 /\ 1 \in 1 .. Tries /\ 1 \in 1 .. Polls
      BY <2>2
    <3> QED BY <2>1, <2>2, <2>3, <3>2, <3>3, <3>4, RestTyped DEF Accept, Proceed, TypeOK, PCs
  <2>4. CASE RejectContract(a) \/ Refuse(a)
    BY <2>1, <2>2, <2>4, RestTyped
       DEF RejectContract, Refuse, Fail, FailureReason, TypeOK, PCs, Reasons, loop
  <2>5. CASE Postpone(a)
    BY <2>1, <2>2, <2>5, RestTyped DEF Postpone, TypeOK, PCs, loop
  <2> QED BY <1>13, <2>3, <2>4, <2>5 DEF Answered
<1>14. CASE RunCanceled \/ ContextEnds
  BY <1>14 DEF RunCanceled, ContextEnds, TypeOK, loop
<1>15. CASE Restart
  <2>1. restarts' \in 0 .. MaxRestarts
    BY <1>15, InputAssumption DEF Restart, TypeOK
  <2>2. hints' = {} /\ post' = <<>> /\ ended' = FALSE
    BY <1>15 DEF Restart
  <2>3. hints' \subseteq Hints
    BY <2>2
  <2>4. post' \in Seq(B)
    BY <2>2
  <2>5. ended' \in BOOLEAN
    BY <2>2
  <2> QED BY <1>15, <2>1, <2>3, <2>4, <2>5 DEF Restart, TypeOK, PCs, Reasons, loop
<1>16. CASE UNCHANGED vars
  BY <1>16 DEF vars, TypeOK
<1> QED
  BY <1>1, <1>2, <1>4, <1>5, <1>6, <1>7, <1>8, <1>9, <1>10, <1>11, <1>12, <1>13,
     <1>14, <1>15, <1>16 DEF Next, Step


\* Every step keeps the loops' invariant.
LEMMA LoopStep == TypeOK /\ LoopInv /\ [Next]_vars => LoopInv'
<1> SUFFICES ASSUME TypeOK, LoopInv, [Next]_vars PROVE LoopInv'
  OBVIOUS
<1> USE ConstantFacts
<1>0. ASSUME UNCHANGED <<pc, phase, idx, tries, polls, post>> PROVE LoopInv'
  BY <1>0 DEF LoopInv, Asking, Resolving, Resolved, Recorded
<1>f. ASSUME pc' = "failed", phase' = "resolve" PROVE LoopInv'
  BY <1>f DEF LoopInv, Asking, Resolving, Resolved
<1>e. ASSUME post' = <<>> PROVE Recorded(0)'
  BY <1>e DEF Recorded
<1>1. CASE BeginCycle
  <2>1. phase' = "resolve" /\ Recorded(0)'
    BY <1>1, <1>e DEF BeginCycle
  <2>2. CASE EnvKeysCollide
    BY <1>1, <1>f, <2>1, <2>2 DEF BeginCycle
  <2>3. CASE ~EnvKeysCollide
    <3>1. idx' = 1 /\ tries' = 1 /\ polls' = 1 /\ pc' = IF 1 <= N THEN "ask" ELSE "place"
      BY <1>1, <2>3 DEF BeginCycle, Proceed, N
    <3>2. CASE N = 0
      BY <2>1, <3>1, <3>2 DEF LoopInv, Asking, Resolving, Resolved
    <3>3. CASE N # 0
      BY <2>1, <3>1, <3>3 DEF LoopInv, Asking, Resolving, Resolved
    <3> QED BY <3>2, <3>3
  <2> QED BY <2>2, <2>3
<1>2. ASSUME phase = "post", UNCHANGED <<phase, post>>, idx \in B, idx' = idx + 1,
             pc' = IF idx + 1 <= N THEN "ask" ELSE "done"
      PROVE  LoopInv'
  <2>1. Recorded(N) /\ Recorded(N)'
    BY <1>2 DEF LoopInv, Recorded
  <2> QED BY <1>2, <2>1 DEF LoopInv, Asking, Resolving, Resolved
<1>3. CASE ObserveAnswer
  BY <1>2, <1>3, CurrentIsIdx DEF ObserveAnswer, Proceed, Asking, LoopInv, Recorded
<1>4. ASSUME Asking, GiveUp PROVE LoopInv'
  BY <1>2, <1>4, <1>f, CurrentIsIdx, GiveUpFacts
<1>5. CASE TransientError
  <2>1. CASE tries # Tries
    BY <1>5, <2>1 DEF TransientError, LoopInv, Asking, Resolving, Resolved, Recorded, TypeOK, loop
  <2> QED BY <1>4, <1>5, <2>1 DEF TransientError, Asking
<1>6. CASE PermanentError \/ PauseInterrupted
  BY <1>4, <1>6 DEF PermanentError, PauseInterrupted, Asking
<1>7. CASE TryAgain \/ PollAgain
  BY <1>7 DEF TryAgain, PollAgain, LoopInv, Asking, Resolving, Resolved, Recorded
<1>8. CASE Place \/ PrepareFails \/ Submit
  BY <1>8 DEF Place, PrepareFails, Submit, Fail, loop, LoopInv, Asking, Resolving, Resolved,
     Recorded, TypeOK
<1>9. CASE NotScheduled
  BY <1>9 DEF NotScheduled, loop, LoopInv, Asking, Resolving, Resolved, Recorded
<1>10. CASE Scheduled
  <2>1. Recorded(N) /\ Recorded(N)' /\ Len(post) = N
    BY <1>10 DEF Scheduled, LoopInv, Resolved, Recorded
  <2>2. phase' = "post" /\ idx' = 1 /\ pc' = IF 1 <= N THEN "ask" ELSE "done"
    BY <1>10, <2>1 DEF Scheduled, Proceed
  <2> QED BY <2>1, <2>2 DEF LoopInv, Asking, Resolving, Resolved
<1>11. ASSUME NEW a \in Answers, Answered(a) PROVE LoopInv'
  <2>1. CASE Accept(a)
    <3>1. /\ pc = "ask" /\ phase = "resolve" /\ phase' = "resolve"
          /\ post' = Append(post, idx) /\ idx' = idx + 1
          /\ pc' = IF idx + 1 <= N THEN "ask" ELSE "place"
      BY <2>1 DEF Accept, Proceed, N
    <3>2. idx \in B /\ Recorded(idx - 1) /\ post \in Seq(B)
      BY <3>1 DEF LoopInv, Asking, Resolving, TypeOK
    <3>3. Recorded(idx - 1)' /\ (idx = N => Recorded(N)')
      <4>1. Len(post') = idx
        BY <3>1, <3>2 DEF Recorded
      <4>2. ASSUME NEW i \in 1 .. idx PROVE post'[i] = i
        BY <3>1, <3>2 DEF Recorded
      <4>3. Len(post') = idx' - 1 /\ \A i \in 1 .. idx' - 1 : post'[i] = i
        BY <3>1, <3>2, <4>1, <4>2
      <4> QED BY <3>1, <3>2, <4>1, <4>2, <4>3 DEF Recorded
    <3>4. CASE idx = N
      BY <3>1, <3>2, <3>3, <3>4 DEF LoopInv, Asking, Resolving, Resolved
    <3>5. CASE idx # N
      BY <3>1, <3>2, <3>3, <3>5 DEF LoopInv, Asking, Resolving, Resolved
    <3> QED BY <3>4, <3>5
  <2>2. CASE RejectContract(a) \/ Refuse(a)
    BY <1>f, <2>2 DEF RejectContract, Refuse, Fail, loop
  <2>3. CASE Postpone(a)
    BY <2>3 DEF Postpone, loop, LoopInv, Asking, Resolving, Resolved, Recorded
  <2> QED BY <1>11, <2>1, <2>2, <2>3 DEF Answered
<1>12. CASE RunCanceled \/ ContextEnds \/ UNCHANGED vars
  BY <1>0, <1>12 DEF RunCanceled, ContextEnds, loop, vars
<1>13. CASE Restart
  BY <1>13 DEF Restart, loop, LoopInv, Asking, Resolving, Resolved
<1> QED
  BY <1>1, <1>3, <1>5, <1>6, <1>7, <1>8, <1>9, <1>10, <1>11, <1>12, <1>13 DEF Next, Step


-----------------------------------------------------------------------------
(* The calls that are made                                                 *)

\* A call stays within what the counters allow.
LEMMA CalledCount ==
  ASSUME TypeOK, LoopInv, CountInv, pc = "ask", Called
  PROVE  /\ phase = "resolve" => /\ \A i \in B : calls'[i] <= Budget
                                 /\ calls'[idx] <= Allowance
                                 /\ \A i \in B : i > idx => calls'[i] = 0
         /\ phase = "post" => /\ \A i \in B : calls'[i] <= Budget + Tries
                              /\ calls'[idx] <= Budget + tries
                              /\ \A i \in B : i > idx => calls'[i] <= Budget
<1>1. /\ idx \in B /\ calls'[idx] = calls[idx] + 1 /\ calls[idx] \in Nat
      /\ \A i \in B : i # idx => calls'[i] = calls[i]
      /\ \A i \in B : calls[i] \in Nat
  BY CurrentIsIdx, CalledFacts DEF Asking, TypeOK
<1>2. CASE phase = "resolve"
  <2>1. /\ calls[idx] < Allowance
        /\ \A i \in B : calls[i] <= Budget
        /\ \A i \in B : i > idx => calls[i] = 0
    BY <1>2 DEF CountInv, Asking, Resolving
  <2>2. Allowance \in Nat /\ Allowance <= Budget /\ Budget \in Nat
    BY ConstantFacts, AllowanceFacts
  <2>3. calls'[idx] <= Allowance
    BY <1>1, <2>1, <2>2
  <2>4. ASSUME NEW i \in B PROVE calls'[i] <= Budget
    BY <1>1, <2>1, <2>2, <2>3
  <2>5. ASSUME NEW i \in B, i > idx PROVE calls'[i] = 0
    <3>1. i # idx
      BY <1>1, <2>5, ConstantFacts
    <3> QED BY <1>1, <2>1, <2>5, <3>1
  <2> QED BY <1>2, <2>3, <2>4, <2>5
<1>3. CASE phase = "post"
  <2>1. /\ tries \in Nat /\ tries <= Tries /\ calls[idx] < Budget + tries
        /\ \A i \in B : calls[i] <= Budget + Tries
        /\ \A i \in B : i > idx => calls[i] <= Budget
    BY <1>3, ConstantFacts DEF CountInv, Asking, TypeOK
  <2>2. calls'[idx] <= Budget + tries
    BY <1>1, <2>1, ConstantFacts
  <2>3. ASSUME NEW i \in B PROVE calls'[i] <= Budget + Tries
    BY <1>1, <2>1, <2>2, ConstantFacts
  <2>4. ASSUME NEW i \in B, i > idx PROVE calls'[i] <= Budget
    BY <1>1, <2>1, <2>4, ConstantFacts
  <2> QED BY <1>3, <2>2, <2>3, <2>4
<1>4. phase \in {"resolve", "post"}
  BY DEF TypeOK
<1> QED BY <1>2, <1>3, <1>4

\* A step after which the runner no longer asks, or asks for the next binding.
LEMMA CountLeaves ==
  ASSUME TypeOK, UNCHANGED phase,
         phase = "resolve" => \A i \in B : calls'[i] <= Budget,
         phase = "post" => \A i \in B : calls'[i] <= Budget + Tries,
         ~Asking'
  PROVE  CountInv'
BY DEF CountInv, Resolving

\* Every step keeps the count.
LEMMA CountStep == TypeOK /\ LoopInv /\ CountInv /\ [Next]_vars => CountInv'
<1> SUFFICES ASSUME TypeOK, LoopInv, CountInv, [Next]_vars PROVE CountInv'
  OBVIOUS
<1> USE ConstantFacts, AllowanceFacts
<1>0. /\ calls \in [B -> Nat] /\ tries \in Nat /\ idx \in Nat /\ tries <= Tries
      /\ phase \in {"resolve", "post"}
      /\ Asking => idx \in B
  BY DEF TypeOK, LoopInv
<1>c. /\ phase = "resolve" => \A i \in B : calls[i] <= Budget
      /\ phase = "post" => \A i \in B : calls[i] <= Budget + Tries
  BY DEF CountInv
<1>s. ASSUME UNCHANGED <<phase, calls>>, ~Asking' PROVE CountInv'
  BY <1>c, <1>s, CountLeaves
<1>p. ASSUME phase = "post", UNCHANGED phase, idx \in B, idx' = idx + 1, tries' = 1,
             pc' = "ask" \/ pc' = "done", pc' = "ask" => idx + 1 \in B,
             \A i \in B : calls'[i] <= Budget + Tries,
             \A i \in B : i > idx => calls'[i] <= Budget,
             calls' \in [B -> Nat]
      PROVE  CountInv'
  <2>1. CASE pc' = "done"
    BY <1>p, <2>1, CountLeaves DEF Asking
  <2>2. CASE pc' = "ask"
    BY <1>p, <2>2 DEF CountInv, Asking, Resolving
  <2> QED BY <1>p, <2>1, <2>2
<1>1. CASE BeginCycle
  <2>1. calls' = [i \in B |-> 0] /\ phase' = "resolve"
    BY <1>1 DEF BeginCycle
  <2>2. CASE pc' \in {"failed", "place"}
    BY <2>1, <2>2 DEF CountInv, Resolving, Asking
  <2>3. CASE pc' = "ask"
    <3>1. idx' = 1 /\ tries' = 1 /\ polls' = 1 /\ 1 \in B
      BY <1>1, <2>3 DEF BeginCycle, Proceed, N
    <3> QED BY <2>1, <2>3, <3>1 DEF CountInv, Resolving, Asking
  <2> QED BY <1>1, <2>2, <2>3 DEF BeginCycle, Proceed
<1>2. CASE ObserveAnswer
  <2>1. idx \in B /\ calls' \in [B -> Nat] /\ Len(post) = N
    BY <1>2, CurrentIsIdx, CalledFacts DEF ObserveAnswer, Asking, LoopInv, Recorded
  <2>2. /\ phase = "post" /\ UNCHANGED phase /\ idx' = idx + 1 /\ tries' = 1
        /\ pc' = IF idx + 1 <= N THEN "ask" ELSE "done"
    BY <1>2, <2>1 DEF ObserveAnswer, Proceed
  <2>3. /\ \A i \in B : calls'[i] <= Budget + Tries
        /\ \A i \in B : i > idx => calls'[i] <= Budget
    BY <1>2, <2>2, CalledCount DEF ObserveAnswer
  <2> QED BY <1>p, <2>1, <2>2, <2>3
<1>3. ASSUME Asking, GiveUp, calls' \in [B -> Nat],
             phase = "resolve" => \A i \in B : calls'[i] <= Budget,
             phase = "post" => /\ \A i \in B : calls'[i] <= Budget + Tries
                               /\ \A i \in B : i > idx => calls'[i] <= Budget
      PROVE  CountInv'
  <2>1. CASE phase = "resolve"
    BY <1>3, <2>1, GiveUpFacts, CountLeaves DEF Asking
  <2>2. CASE phase = "post"
    BY <1>3, <1>p, <2>2, <1>0, GiveUpFacts
  <2> QED BY <1>0, <2>1, <2>2
<1>4. CASE TransientError \/ PermanentError
  <2>1. pc = "ask" /\ Called /\ Asking /\ calls' \in [B -> Nat]
    BY <1>4, CalledFacts DEF TransientError, PermanentError, Asking
  <2>2. CASE GiveUp
    BY <1>3, <2>1, <2>2, CalledCount
  <2>3. CASE ~GiveUp
    <3>1. pc' = "tryPause" /\ UNCHANGED <<phase, idx, tries, polls>>
      BY <1>4, <2>3 DEF TransientError, PermanentError, loop
    <3> QED BY <2>1, <3>1, CalledCount DEF CountInv, Resolving, Asking
  <2> QED BY <2>2, <2>3
<1>5. CASE PauseInterrupted
  BY <1>0, <1>3, <1>5, <1>c DEF PauseInterrupted, CountInv, Asking
<1>6. CASE TryAgain
  <2>1. /\ pc = "tryPause" /\ pc' = "ask" /\ tries' = tries + 1
        /\ UNCHANGED <<phase, idx, polls, calls>>
    BY <1>6 DEF TryAgain
  <2>2. CASE phase = "resolve"
    BY <1>0, <2>1, <2>2 DEF CountInv, Resolving, Asking
  <2>3. CASE phase = "post"
    BY <1>0, <2>1, <2>3 DEF CountInv, Resolving, Asking
  <2> QED BY <1>0, <2>2, <2>3
<1>7. CASE PollAgain
  <2>1. /\ pc = "pollPause" /\ pc' = "ask" /\ polls' = polls + 1 /\ tries' = 1
        /\ UNCHANGED <<phase, idx, calls>> /\ phase = "resolve"
    BY <1>0, <1>7 DEF PollAgain, LoopInv
  <2>2. /\ calls[idx] <= Allowance /\ calls[idx] \in Nat
        /\ Allowance' \in Nat /\ Allowance' >= Allowance + 1
    BY <1>0, <2>1 DEF CountInv, Resolving, Asking
  <2> QED BY <1>c, <2>1, <2>2 DEF CountInv, Resolving, Asking
<1>8. CASE Place \/ Submit \/ PrepareFails \/ NotScheduled
  BY <1>8, <1>s DEF Place, Submit, PrepareFails, NotScheduled, Fail, loop, Asking
<1>9. CASE Scheduled
  <2>1. /\ phase = "resolve" /\ phase' = "post" /\ UNCHANGED calls /\ idx' = 1 /\ tries' = 1
        /\ pc' = IF 1 <= Len(post) THEN "ask" ELSE "done"
    BY <1>0, <1>9 DEF Scheduled, Proceed, LoopInv
  <2>2. pc' = "ask" => 1 \in B
    BY <1>9, <2>1 DEF Scheduled, LoopInv, Resolved, Recorded
  <2> QED BY <1>0, <1>c, <2>1, <2>2 DEF CountInv, Resolving, Asking
<1>10. ASSUME NEW a \in Answers, Answered(a) PROVE CountInv'
  <2>1. pc = "ask" /\ phase = "resolve" /\ UNCHANGED phase /\ Called
    BY <1>10 DEF Answered, Accept, RejectContract, Refuse, Postpone, Fail, loop
  <2>2. /\ \A i \in B : calls'[i] <= Budget
        /\ calls'[idx] <= Allowance
        /\ \A i \in B : i > idx => calls'[i] = 0
    BY <2>1, CalledCount
  <2>3. CASE Accept(a)
    <3>1. /\ idx' = idx + 1 /\ tries' = 1 /\ polls' = 1
          /\ pc' = IF idx + 1 <= N THEN "ask" ELSE "place"
      BY <2>3 DEF Accept, Proceed, N
    <3>2. idx \in B
      BY <1>0, <2>1 DEF Asking
    <3>3. Allowance' = 1
      BY <3>1
    <3> QED BY <2>1, <2>2, <3>1, <3>2, <3>3 DEF CountInv, Resolving, Asking
  <2>4. CASE RejectContract(a) \/ Refuse(a)
    BY <2>1, <2>2, <2>4, CountLeaves DEF RejectContract, Refuse, Fail, Asking
  <2>5. CASE Postpone(a)
    BY <2>1, <2>2, <2>5 DEF Postpone, loop, CountInv, Resolving, Asking
  <2> QED BY <1>10, <2>3, <2>4, <2>5 DEF Answered
<1>11. CASE RunCanceled \/ ContextEnds \/ UNCHANGED vars
  <2>1. UNCHANGED <<pc, phase, idx, tries, polls, calls>>
    BY <1>11 DEF RunCanceled, ContextEnds, loop, vars
  <2> QED BY <2>1 DEF CountInv, Resolving, Asking
<1>12. CASE Restart
  BY <1>12, <1>s DEF Restart, loop, Asking
<1> QED
  BY <1>1, <1>2, <1>4, <1>5, <1>6, <1>7, <1>8, <1>9, <1>10, <1>11, <1>12 DEF Next, Step


\* Every step keeps the relation between the polls made and the calls.
LEMMA RetryStep == TypeOK /\ LoopInv /\ CountInv /\ RetryInv /\ [Next]_vars => RetryInv'
<1> SUFFICES ASSUME TypeOK, LoopInv, CountInv, RetryInv, [Next]_vars PROVE RetryInv'
  OBVIOUS
<1> USE ConstantFacts
<1>0. /\ calls \in [B -> Nat] /\ polls \in Nat /\ Polls \in Nat
      /\ phase \in {"resolve", "post"}
      /\ Asking => idx \in B
  BY DEF TypeOK, LoopInv
<1>1. \/ pc = "failed"
      \/ reason # "pending"
  BY DEF RetryInv
<1>e. ASSUME ~Asking', reason' # "pending" PROVE RetryInv'
  BY <1>e DEF RetryInv, Resolving, Asking
<1>p. ASSUME phase' = "post", pc' # "pollPause", reason' # "pending" PROVE RetryInv'
  BY <1>p DEF RetryInv, Resolving
<1>2. CASE BeginCycle
  <2>1. reason' # "pending" /\ pc' \in {"failed", "place", "ask"} /\ calls' = [i \in B |-> 0]
    BY <1>1, <1>2 DEF BeginCycle, Proceed
  <2>2. CASE pc' = "ask"
    <3>1. idx' = 1 /\ polls' = 1 /\ 1 \in B
      BY <1>2, <2>2 DEF BeginCycle, Proceed, N
    <3> QED BY <2>1, <2>2, <3>1 DEF RetryInv
  <2> QED BY <1>e, <2>1, <2>2 DEF Asking
<1>3. CASE ObserveAnswer
  BY <1>1, <1>3, <1>p DEF ObserveAnswer, Proceed
<1>4. ASSUME Asking, GiveUp PROVE RetryInv'
  BY <1>0, <1>1, <1>4, <1>e, <1>p, GiveUpFacts DEF Asking
<1>5. CASE TransientError
  <2>1. Asking /\ calls'[idx] = calls[idx] + 1 /\ calls[idx] \in Nat /\ reason # "pending"
    BY <1>0, <1>1, <1>5, CalledFacts DEF TransientError, Asking
  <2>2. CASE tries # Tries
    BY <1>0, <1>5, <2>1, <2>2 DEF TransientError, loop, RetryInv, Resolving
  <2> QED BY <1>4, <1>5, <2>1, <2>2 DEF TransientError
<1>6. CASE PermanentError \/ PauseInterrupted
  BY <1>4, <1>6 DEF PermanentError, PauseInterrupted, Asking
<1>7. CASE TryAgain
  BY <1>7 DEF TryAgain, RetryInv, Resolving, Asking
<1>8. CASE PollAgain
  <2>1. calls[idx] \in Nat /\ calls[idx] >= polls
    BY <1>0, <1>8 DEF PollAgain, RetryInv, Asking
  <2> QED BY <1>0, <1>8, <2>1 DEF PollAgain, RetryInv, Resolving
<1>9. CASE Place \/ Submit \/ PrepareFails \/ NotScheduled
  BY <1>1, <1>9, <1>e DEF Place, Submit, PrepareFails, NotScheduled, Fail, Asking
<1>10. CASE Scheduled
  BY <1>1, <1>10, <1>p DEF Scheduled, Proceed
<1>11. ASSUME NEW a \in Answers, Answered(a) PROVE RetryInv'
  <2>1. pc = "ask" /\ phase = "resolve" /\ UNCHANGED phase /\ Called /\ Asking
    BY <1>11 DEF Answered, Accept, RejectContract, Refuse, Postpone, Fail, loop, Asking
  <2>2. /\ idx \in B /\ calls[idx] \in Nat /\ calls'[idx] = calls[idx] + 1
        /\ calls[idx] + 1 >= polls /\ reason # "pending"
    BY <1>0, <1>1, <2>1, CalledFacts DEF RetryInv, Resolving
  <2>3. CASE Accept(a)
    <3>1. /\ idx' = idx + 1 /\ polls' = 1 /\ UNCHANGED reason
          /\ pc' = IF idx + 1 <= N THEN "ask" ELSE "place"
      BY <2>3 DEF Accept, Proceed, N
    <3>2. CASE idx + 1 \in B
      <4>1. calls'[idx + 1] \in Nat
        BY <2>1, <3>2, CalledFacts
      <4> QED BY <2>1, <2>2, <3>1, <3>2, <4>1 DEF RetryInv
    <3> QED BY <1>e, <2>2, <3>1, <3>2 DEF Asking
  <2>4. CASE RejectContract(a)
    BY <1>e, <2>4 DEF RejectContract, Fail, Asking
  <2>5. CASE Refuse(a)
    <3>1. /\ pc' = "failed" /\ UNCHANGED idx
          /\ reason' = "pending" => polls = Polls
      BY <2>5 DEF Refuse, Fail, FailureReason, loop
    <3> QED BY <2>2, <3>1 DEF RetryInv, Resolving, Asking
  <2>6. CASE Postpone(a)
    BY <1>0, <2>1, <2>2, <2>6 DEF Postpone, loop, RetryInv
  <2> QED BY <1>11, <2>3, <2>4, <2>5, <2>6 DEF Answered
<1>12. CASE RunCanceled \/ ContextEnds \/ UNCHANGED vars
  <2>1. UNCHANGED <<pc, phase, idx, polls, calls, reason>>
    BY <1>12 DEF RunCanceled, ContextEnds, loop, vars
  <2> QED BY <2>1 DEF RetryInv, Resolving, Asking
<1>13. CASE Restart
  BY <1>1, <1>13, <1>e DEF Restart, Asking
<1> QED
  BY <1>2, <1>3, <1>5, <1>6, <1>7, <1>8, <1>9, <1>10, <1>11, <1>12, <1>13 DEF Next, Step

-----------------------------------------------------------------------------
(* The answers taken and the placement                                     *)

\* Every step keeps what is known of the answers taken.
LEMMA EnvStep == TypeOK /\ LoopInv /\ EnvInv /\ [Next]_vars => EnvInv'
<1> SUFFICES ASSUME TypeOK, LoopInv, EnvInv, [Next]_vars PROVE EnvInv'
  OBVIOUS
<1> USE ConstantFacts
<1>0. UNCHANGED hints => IsFiniteSet(hints')
  BY DEF EnvInv
<1>e. ASSUME IsFiniteSet(hints'), ~Resolving', ~Resolved' PROVE EnvInv'
  BY <1>e DEF EnvInv
<1>s. ASSUME UNCHANGED <<env, hints>>,
             Resolving' => Resolving /\ UNCHANGED idx,
             Resolved' => Resolved
      PROVE  EnvInv'
  BY <1>0, <1>s DEF EnvInv, InputOk, HintKept
<1>1. CASE BeginCycle
  <2>1. CASE pc' = "failed"
    BY <1>0, <1>1, <1>e, <2>1 DEF BeginCycle, Resolving, Resolved, Asking
  <2>2. CASE pc' = "ask"
    <3>1. idx' = 1 /\ UNCHANGED hints
      BY <1>1, <2>2 DEF BeginCycle, Proceed
    <3>2. 1 .. idx' - 1 = {}
      BY <3>1
    <3> QED BY <1>0, <2>2, <3>1, <3>2 DEF EnvInv, Resolved
  <2>3. CASE pc' = "place"
    <3>1. B = {} /\ UNCHANGED hints
      BY <1>1, <2>3 DEF BeginCycle, Proceed, N
    <3> QED BY <1>0, <2>3, <3>1 DEF EnvInv, Resolving, Asking
  <2> QED BY <1>1, <2>1, <2>2, <2>3 DEF BeginCycle, Proceed
<1>2. CASE ObserveAnswer
  BY <1>0, <1>2, <1>e DEF ObserveAnswer, Proceed, Resolving, Resolved
<1>3. ASSUME Asking, GiveUp PROVE EnvInv'
  BY <1>0, <1>3, <1>e, GiveUpFacts DEF Resolving, Resolved, Asking
<1>4. CASE TransientError
  <2>1. CASE tries # Tries
    BY <1>4, <1>s, <2>1 DEF TransientError, loop, Resolving, Resolved, Asking
  <2> QED BY <1>3, <1>4, <2>1 DEF TransientError, Asking
<1>5. CASE PermanentError \/ PauseInterrupted
  BY <1>3, <1>5 DEF PermanentError, PauseInterrupted, Asking
<1>6. CASE TryAgain \/ PollAgain
  BY <1>6, <1>s DEF TryAgain, PollAgain, Resolving, Resolved, Asking
<1>7. CASE Place \/ Submit \/ PrepareFails \/ NotScheduled
  BY <1>7, <1>s DEF Place, Submit, PrepareFails, NotScheduled, Fail, loop, Resolving, Resolved,
     Asking
<1>8. CASE Scheduled
  BY <1>0, <1>8, <1>e DEF Scheduled, Proceed, Resolving, Resolved
<1>9. ASSUME NEW a \in Answers, Answered(a) PROVE EnvInv'
  <2>1. pc = "ask" /\ phase = "resolve" /\ idx \in B
    BY <1>9 DEF Answered, Accept, RejectContract, Refuse, Postpone, LoopInv, Asking
  <2>2. CASE Accept(a)
    <3>1. /\ env' = [env EXCEPT ![idx] = a]
          /\ hints' = IF a.node = NoNode THEN hints
                      ELSE hints \cup {[node |-> a.node, mode |-> a.mode]}
          /\ idx' = idx + 1
          /\ pc' = IF idx + 1 <= N THEN "ask" ELSE "place"
      BY <2>2 DEF Accept, Proceed, N
    <3>2. IsFiniteSet(hints')
      BY <3>1, FS_AddElement DEF EnvInv
    <3>3. a \in Answer /\ env \in [B -> Answer \cup {NoAnswer}]
      BY InputAssumption DEF TypeOK
    <3>4. a # NoAnswer
      <4>1. a.status # "none"
        BY <3>3 DEF Answer, Statuses
      <4> QED BY <4>1 DEF NoAnswer
    <3>5. env'[idx] = a
      BY <2>1, <3>1, <3>3
    <3>6. \/ a.status \in {"", "RESOLVED"} /\ ContractValid(a)
          \/ a.status = "MISSING" /\ ~Bindings[idx].required
      BY <2>2 DEF Accept, Classify
    <3>7. ASSUME NEW i \in 1 .. idx PROVE InputOk(i)' /\ HintKept(i)'
      <4>1. CASE i = idx
        <5>1. env'[i] = a
          BY <3>5, <4>1
        <5>2. InputOk(i)'
          BY <3>4, <3>6, <4>1, <5>1 DEF InputOk
        <5>3. HintKept(i)'
          BY <3>1, <5>1 DEF HintKept
        <5> QED BY <5>2, <5>3
      <4>2. CASE i # idx
        <5>1. i \in 1 .. idx - 1 /\ i \in B
          BY <2>1, <3>7, <4>2
        <5>2. env'[i] = env[i] /\ InputOk(i) /\ HintKept(i)
          BY <2>1, <3>1, <3>3, <4>2, <5>1 DEF EnvInv, Resolving, Asking
        <5>3. InputOk(i)'
          BY <5>2 DEF InputOk
        <5>4. HintKept(i)'
          BY <3>1, <5>2 DEF HintKept
        <5> QED BY <5>3, <5>4
      <4> QED BY <4>1, <4>2
    <3>8. CASE idx = N
      BY <2>1, <3>1, <3>2, <3>7, <3>8 DEF EnvInv, Resolving, Asking
    <3>9. CASE idx # N
      BY <2>1, <3>1, <3>2, <3>7, <3>9 DEF EnvInv, Resolved
    <3> QED BY <3>8, <3>9
  <2>3. CASE RejectContract(a) \/ Refuse(a)
    BY <1>s, <2>3 DEF RejectContract, Refuse, Fail, Resolving, Resolved, Asking
  <2>4. CASE Postpone(a)
    BY <1>s, <2>4 DEF Postpone, loop, Resolving, Resolved, Asking
  <2> QED BY <1>9, <2>2, <2>3, <2>4 DEF Answered
<1>10. CASE RunCanceled \/ ContextEnds \/ UNCHANGED vars
  BY <1>10, <1>s DEF RunCanceled, ContextEnds, loop, vars, Resolving, Resolved, Asking
<1>11. CASE Restart
  BY <1>11, <1>e, FS_EmptySet DEF Restart, Resolving, Resolved, Asking
<1> QED
  BY <1>1, <1>2, <1>4, <1>5, <1>6, <1>7, <1>8, <1>9, <1>10, <1>11 DEF Next, Step


\* The nodes that are required are finitely many, so a cardinality of at most one
\* means that there is only one.
LEMMA OneRequired ==
  ASSUME IsFiniteSet(hints), ~(Cardinality(Required) > 1), NEW m \in Required, NEW n \in Required
  PROVE  m = n
<1> DEFINE G == {g \in hints : g.mode = "required_node"}
           f == [g \in G |-> g.node]
<1>1. IsFiniteSet(G)
  BY FS_Subset
<1>2. Required = {g.node : g \in G}
  BY DEF Required, Hinted
<1> HIDE DEF G
<1>3. f \in Surjection(G, Required)
  BY <1>2 DEF Surjection
<1>4. IsFiniteSet(Required)
  <2> HIDE DEF f
  <2> QED BY <1>1, <1>3, FS_Surjection DEF ExistsSurjection
<1>5. {m, n} \in SUBSET Required
  OBVIOUS
<1>6. Cardinality({m, n}) <= Cardinality(Required) /\ IsFiniteSet({m, n})
  BY <1>4, <1>5, FS_Subset
<1>7. Cardinality({m} \cup {n}) = IF n \in {m} THEN 1 ELSE 2
  <2>1. IsFiniteSet({m}) /\ Cardinality({m}) = 1
    BY FS_Singleton
  <2>2. Cardinality({m} \cup {n}) = IF n \in {m} THEN Cardinality({m}) ELSE Cardinality({m}) + 1
    BY <2>1, FS_AddElement
  <2> QED BY <2>1, <2>2
<1>8. {m} \cup {n} = {m, n}
  OBVIOUS
<1>9. Cardinality(Required) \in Nat
  BY <1>4, FS_CardinalityType
<1> QED BY <1>6, <1>7, <1>8, <1>9

\* Every step keeps the placement that was decided on.
LEMMA PlaceStep == TypeOK /\ LoopInv /\ EnvInv /\ PlaceInv /\ [Next]_vars => PlaceInv'
<1> SUFFICES ASSUME TypeOK, LoopInv, EnvInv, PlaceInv, [Next]_vars PROVE PlaceInv'
  OBVIOUS
<1>e. ASSUME pc' \notin {"prepare", "submitted"} PROVE PlaceInv'
  BY <1>e DEF PlaceInv
<1>s. ASSUME UNCHANGED <<hints, placement>>,
             pc' \in {"prepare", "submitted"} => pc \in {"prepare", "submitted"}
      PROVE  PlaceInv'
  BY <1>s DEF PlaceInv, Required, Hinted
<1>1. CASE Place
  <2>1. CASE PlacementConflicts(placement)
    BY <1>1, <1>e, <2>1 DEF Place, Fail
  <2>2. CASE ~PlacementConflicts(placement)
    <3>1. placement' = ApplyPlacementHints(placement) /\ UNCHANGED hints
      BY <1>1, <2>2 DEF Place
    <3>2. Required' = Required
      BY <3>1 DEF Required, Hinted
    <3>3. ~(Cardinality(Required) > 1)
      BY <2>2 DEF PlacementConflicts
    <3>4. ASSUME NEW n \in Required' PROVE placement'.selector = n
      <4>1. n \in Required /\ placement'.selector \in Required
        BY <3>1, <3>2, <3>4, PlacementFacts
      <4> QED BY <3>3, <4>1, OneRequired DEF EnvInv
    <3> QED BY <3>4 DEF PlaceInv
  <2> QED BY <2>1, <2>2
<1>2. CASE Submit
  BY <1>2, <1>s DEF Submit
<1>3. CASE BeginCycle \/ PrepareFails \/ NotScheduled \/ Scheduled \/ ObserveAnswer
  BY <1>3, <1>e DEF BeginCycle, PrepareFails, NotScheduled, Scheduled, ObserveAnswer, Proceed, Fail
<1>4. CASE TransientError \/ PermanentError \/ PauseInterrupted \/ TryAgain \/ PollAgain
  BY <1>4, <1>e DEF TransientError, PermanentError, PauseInterrupted, TryAgain, PollAgain,
     GiveUp, Proceed, Fail
<1>5. ASSUME NEW a \in Answers, Answered(a) PROVE PlaceInv'
  BY <1>5, <1>e DEF Answered, Accept, RejectContract, Refuse, Postpone, Proceed, Fail
<1>6. CASE RunCanceled \/ ContextEnds \/ UNCHANGED vars
  BY <1>6, <1>s DEF RunCanceled, ContextEnds, vars
<1>7. CASE Restart
  BY <1>7, <1>e DEF Restart
<1> QED
  BY <1>1, <1>2, <1>3, <1>4, <1>5, <1>6, <1>7 DEF Next, Step

-----------------------------------------------------------------------------
(* Results                                                                 *)

\* The resolution starts in the invariant and stays in it.
LEMMA ResolutionInvariant == Spec => []ResolutionInv
<1>1. Init => ResolutionInv
  <2> SUFFICES ASSUME Init PROVE ResolutionInv
    OBVIOUS
  <2> USE ConstantFacts, InputAssumption
  <2>1. TypeOK
    <3>1. CloneNode \in Placement
      BY DEF CloneNode, Placement
    <3>2. 1 \in 1 .. Len(Bindings) + 1 /\ 1 \in 1 .. Tries /\ 1 \in 1 .. Polls
          /\ 1 \in 1 .. MaxCycles /\ 0 \in 0 .. MaxRestarts
      BY DEF N
    <3>3. /\ hints = {} /\ post = <<>> /\ env = [i \in B |-> NoAnswer]
          /\ calls = [i \in B |-> 0] /\ canceled = FALSE /\ ended = FALSE
      BY DEF Init
    <3>4. hints \subseteq Hints /\ post \in Seq(B)
      BY <3>3
    <3>5. env \in [B -> Answer \cup {NoAnswer}] /\ calls \in [B -> Nat]
      BY <3>3
    <3>6. canceled \in BOOLEAN /\ ended \in BOOLEAN
      BY <3>3
    <3> QED BY <3>1, <3>2, <3>4, <3>5, <3>6 DEF Init, TypeOK, PCs, Reasons
  <2>2. LoopInv /\ CountInv /\ RetryInv /\ PlaceInv
    BY DEF Init, LoopInv, CountInv, RetryInv, PlaceInv, Asking, Resolving, Resolved
  <2>3. EnvInv
    BY FS_EmptySet DEF Init, EnvInv, Asking, Resolving, Resolved
  <2> QED BY <2>1, <2>2, <2>3 DEF ResolutionInv
<1>2. ResolutionInv /\ [Next]_vars => ResolutionInv'
  BY TypeStep, LoopStep, CountStep, RetryStep, EnvStep, PlaceStep DEF ResolutionInv
<1> QED
  BY <1>1, <1>2, PTL DEF Spec

\* Every field stays of its type and the counters of the nested loops within their
\* limits, through cycles, interrupted pauses and crashes.
THEOREM ResolutionTyped == Spec => []TypeOK
<1>1. ResolutionInv => TypeOK
  BY DEF ResolutionInv
<1> QED
  BY <1>1, ResolutionInvariant, PTL

\* A Job is submitted only when every binding has an executable answer of this cycle
\* (runAttemptBody resolves all of them again in every cycle).
THEOREM SubmittedOnlyResolved == Spec => []SubmittedIsResolved
<1>1. ResolutionInv => SubmittedIsResolved
  BY DEF ResolutionInv, EnvInv, Resolved, SubmittedIsResolved
<1> QED
  BY <1>1, ResolutionInvariant, PTL

\* The submitted Job is pinned to the node of every required_node answer, however
\* many answers, cycles and earlier hints there are (applyPlacementHints).
THEOREM RequiredNodesHonoured == Spec => []RequiredIsHonoured
<1>1. ResolutionInv => RequiredIsHonoured
  <2> SUFFICES ASSUME ResolutionInv, pc \in {"prepare", "submitted"}, NEW i \in B,
                      env[i].mode = "required_node", env[i].node # NoNode
               PROVE  placement.selector = env[i].node
    BY DEF RequiredIsHonoured
  <2>1. [node |-> env[i].node, mode |-> env[i].mode] \in hints
    BY DEF ResolutionInv, EnvInv, Resolved, HintKept
  <2>2. env[i].node \in Required
    BY <2>1 DEF Required, Hinted
  <2> QED BY <2>2 DEF ResolutionInv, PlaceInv
<1> QED
  BY <1>1, ResolutionInvariant, PTL

\* No binding is asked for more often than the two retry policies together allow,
\* the resolution after scheduling included.
THEOREM CallsWithinBudget == Spec => []CallsBounded
<1>1. ResolutionInv => CallsBounded
  <2> SUFFICES ASSUME ResolutionInv, NEW i \in B
               PROVE  calls[i] <= Tries * Polls + (IF phase = "post" THEN Tries ELSE 0)
    BY DEF CallsBounded
  <2>1. /\ phase = "resolve" => calls[i] <= Budget
        /\ phase = "post" => calls[i] <= Budget + Tries
        /\ phase \in {"resolve", "post"} /\ calls[i] \in Nat
    BY DEF ResolutionInv, CountInv, TypeOK
  <2>2. Budget = Tries * Polls
    BY DEF Budget
  <2> HIDE DEF Budget
  <2>3. Budget + 0 = Budget
    BY ConstantFacts
  <2> QED BY <2>1, <2>2, <2>3
<1> QED
  BY <1>1, ResolutionInvariant, PTL

\* A node fails for want of an answer worth waiting for only after it was asked for
\* as often as resolveBindingPendingMaxAttempts says.
THEOREM PendingAskedEnough == Spec => []RetryableIsRetried
<1>1. ResolutionInv => RetryableIsRetried
  BY DEF ResolutionInv, RetryInv, RetryableIsRetried
<1> QED
  BY <1>1, ResolutionInvariant, PTL

=============================================================================
