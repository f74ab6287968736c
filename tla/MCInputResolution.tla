-------------------------- MODULE MCInputResolution --------------------------
(* Instances of InputResolution for TLC.                                    *)
EXTENDS InputResolution

\* One required and one optional binding.
MCBindings == <<[required |-> TRUE, key |-> "LEFT"], [required |-> FALSE, key |-> "RIGHT"]>>

MCNodes == {"n1", "n2"}

Resolved(mode, node) ==
  [status |-> "RESOLVED", retryable |-> FALSE, mode |-> mode, node |-> node,
   plan |-> "remote_fetch", source |-> TRUE, safePath |-> TRUE]
Unresolved(status, retryable) ==
  [status |-> status, retryable |-> retryable, mode |-> "", node |-> "",
   plan |-> "none", source |-> FALSE, safePath |-> TRUE]

\* One answer of every kind the runner tells apart, two nodes for each
\* placement mode, the three ways a RESOLVED answer is not executable, and a
\* MISSING one that asks for a placement, with and without a node.
MCAnswers ==
  {Resolved("", ""), Resolved("preferred_node", "n1"), Resolved("preferred_node", "n2"),
   Resolved("required_node", "n1"), Resolved("required_node", "n2"),
   Resolved("required_node", ""), [Resolved("", "") EXCEPT !.source = FALSE],
   [Resolved("", "") EXCEPT !.safePath = FALSE]}
    \cup {Unresolved(s, TRUE) : s \in {"PENDING", "UNAVAILABLE", "MISSING"}}
    \cup {Unresolved(s, FALSE) : s \in {"PENDING", "refused"}}
    \cup {[Unresolved("MISSING", FALSE) EXCEPT !.mode = "required_node", !.node = n]
            : n \in {"", "n2"}}

MCSelector == [selector |-> "n1", required |-> "", preferred |-> {}]
=============================================================================
