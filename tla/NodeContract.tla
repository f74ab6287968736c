---------------------------- MODULE NodeContract ----------------------------
(***************************************************************************)
(* What the executor promises about one node, whatever the number of       *)
(* processes, attempts and restarts behind it: its user code is executed   *)
(* at most once, it succeeds only if it was executed, and a success or a   *)
(* failure is final.  A canceled or skipped node counts as open here,      *)
(* because a runner that a cancellation overtook may still settle it.      *)
(* This is the promise of the code and its F3-B2 tests; the retry document *)
(* (specs/001-retry-semantics/spec.md) promises maxAttempts executions.    *)
(***************************************************************************)
EXTENDS Naturals

VARIABLES
  executed,   \* how often user code was started
  outcome     \* "open", "Succeeded" or "Failed"

ContractInit == executed = 0 /\ outcome = "open"

Execute ==
  /\ outcome = "open" /\ executed = 0
  /\ executed' = 1
  /\ UNCHANGED outcome

Settle(result) ==
  /\ outcome = "open"
  /\ result = "Succeeded" => executed = 1
  /\ outcome' = result
  /\ UNCHANGED executed

ContractNext == Execute \/ Settle("Succeeded") \/ Settle("Failed")

ContractSpec == ContractInit /\ [][ContractNext]_<<executed, outcome>>
=============================================================================
