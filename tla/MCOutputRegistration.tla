----------------------- MODULE MCOutputRegistration -----------------------
(***************************************************************************)
(* A node with two outputs and an empty name between them, and the         *)
(* termination messages that tell the checks of OutputRegistration apart.  *)
(***************************************************************************)
EXTENDS OutputRegistration

MCOutputs == <<"a", "", "b">>

Artifact(name, digest, uri, loc) ==
  [name |-> name, digest |-> digest, uri |-> uri, logical |-> "", loc |-> loc]
Own(artifacts) ==
  [json |-> TRUE, schema |-> "known", runId |-> "own", nodeId |-> "own",
   attemptId |-> "own", artifacts |-> artifacts]

Good  == Own(<<Artifact("a", "d1", "store", "none"), Artifact("b", "d1", "jumi", "unnamed")>>)
Other == Own(<<Artifact("b", "d2", "store", "named"), Artifact("a", "d2", "store", "none")>>)
Short == Own(<<Artifact("a", "d3", "store", "none")>>)
Twice == Own(<<Artifact("a", "d4", "store", "none"), Artifact("a", "d5", "store", "none"),
               Artifact("b", "d4", "store", "none")>>)
Logical   == Own(<<Artifact("a", "d6", "jumi", "none"), Artifact("b", "d6", "store", "none")>>)
Hollow    == Own(<<Artifact("a", "d7", "store", "empty"), Artifact("b", "d7", "", "empty")>>)
NoDigest  == Own(<<Artifact("a", "d8", "store", "none"), Artifact("b", "", "store", "none")>>)
Anonymous == [Good EXCEPT !.runId = "", !.nodeId = "", !.attemptId = ""]
Foreign   == [Good EXCEPT !.attemptId = "other"]
NewSchema == [Good EXCEPT !.schema = "other"]
Summary   == [Anonymous EXCEPT !.artifacts = <<>>]
Text      == [Summary EXCEPT !.json = FALSE]

MCManifests ==
  {Good, Other, Short, Twice, Logical, Hollow, NoDigest, Anonymous, Foreign,
   NewSchema, Summary, Text}
MCNoManifest == [json |-> FALSE]
=============================================================================
