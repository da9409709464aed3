------------------------ MODULE MCInitialEvaluation ------------------------
(* Small instances of InitialEvaluation for TLC. *)
EXTENDS InitialEvaluation, TLC

CONSTANTS r, p, q, c, g, i, m1, m2

(* Reports with a section and with a credential, one without text, one that *)
(* speaks to the engine, a code archive and a link.                         *)
SomeArtifacts ==
  {[id |-> r, kind |-> "report", text |-> {"section"}], [id |-> p, kind |-> "document", text |-> {"secret"}],
   [id |-> q, kind |-> "document", text |-> NoText], [id |-> i, kind |-> "report", text |-> {"injection"}],
   [id |-> c, kind |-> "code_archive", text |-> NoText], [id |-> g, kind |-> "git_link", text |-> {}]}

SomeSpecs ==
  {[required |-> {}, sections |-> {}, steps |-> {}, keywords |-> {}],
   [required |-> {"code_archive"}, sections |-> {}, steps |-> {"step"}, keywords |-> {}],
   [required |-> {"source_code"}, sections |-> {}, steps |-> {}, keywords |-> {}],
   [required |-> {"report", "code_archive"}, sections |-> {"section"}, steps |-> {}, keywords |-> {"keyword"}]}

SomeScores == {3, 4}

SomeEngines == SUBSET {"gateway", "llm"}

SomeRubric == (m1 :> [max |-> 3, about |-> {"documents"}]) @@ (m2 :> [max |-> 20, about |-> {"quality", "completeness"}])
=============================================================================
