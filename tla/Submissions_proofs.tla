------------------------- MODULE Submissions_proofs -------------------------
(***************************************************************************)
(* Proofs about Submissions for every number of handlers, submissions and   *)
(* artifacts and every limit.                                               *)
(***************************************************************************)
EXTENDS Submissions, FiniteSetTheorems, TLAPS

USE SubmissionAssumption

Working == {"open", "write", "parse", "commit", "cleanup", "link"}

(* The handlers keep their artifacts to themselves, whatever fails.         *)
Owned == TypeOK /\ OwnArtifact

-----------------------------------------------------------------------------
(* Effects of the building blocks. *)

LEMMA GotoEffect ==
  ASSUME TypeOK, NEW h \in Handlers, NEW pc \in Steps, Goto(h, pc)
  PROVE  /\ handler'[h].pc = pc
         /\ handler'[h].submission = handler[h].submission
         /\ handler'[h].artifact = handler[h].artifact
         /\ \A g \in Handlers \ {h} : handler'[g] = handler[g]
         /\ handler' \in [Handlers -> [pc : Steps, submission : Submissions \cup {None},
                                       artifact : Artifacts \cup {None}]]
  BY DEF TypeOK, Goto

LEMMA AnswerEffect ==
  ASSUME TypeOK, NEW h \in Handlers, Answer(h)
  PROVE  /\ handler'[h] = Idle
         /\ handler'[h].pc = "idle"
         /\ handler'[h].artifact = None
         /\ \A g \in Handlers \ {h} : handler'[g] = handler[g]
         /\ handler' \in [Handlers -> [pc : Steps, submission : Submissions \cup {None},
                                       artifact : Artifacts \cup {None}]]
  BY DEF TypeOK, Answer, Idle, Steps

LEMMA BeginEffect ==
  ASSUME TypeOK, NEW h \in Handlers, NEW s \in Submissions, NEW a \in Artifacts, NEW pc \in Steps,
         Begin(h, s, a, pc)
  PROVE  /\ handler[h].pc = "idle"
         /\ a \notin used
         /\ used' = used \cup {a}
         /\ handler'[h].pc = pc
         /\ handler'[h].submission = s
         /\ handler'[h].artifact = a
         /\ \A g \in Handlers \ {h} : handler'[g] = handler[g]
         /\ handler' \in [Handlers -> [pc : Steps, submission : Submissions \cup {None},
                                       artifact : Artifacts \cup {None}]]
  BY DEF TypeOK, Begin

LEMMA CreateEffect ==
  ASSUME TypeOK, NEW h \in Handlers, NEW s \in Submissions, CreateSubmission(h, s)
  PROVE  /\ handler[h].pc = "idle"
         /\ handler'[h].pc = "create"
         /\ handler'[h].submission = s
         /\ handler'[h].artifact = None
         /\ \A g \in Handlers \ {h} : handler'[g] = handler[g]
         /\ handler' \in [Handlers -> [pc : Steps, submission : Submissions \cup {None},
                                       artifact : Artifacts \cup {None}]]
  BY DEF TypeOK, CreateSubmission, Idle, Steps

(* The kinds of failure that have happened are remembered.                  *)
LEMMA FaultEffect ==
  ASSUME TypeOK, NEW kind \in Kinds, Fault(kind)
  PROVE  faults' \subseteq Kinds /\ kind \in faults'
  BY DEF TypeOK, Fault

LEMMA FaultsGrow ==
  ASSUME [Next]_vars
  PROVE  faults \subseteq faults'
  <1>1. ASSUME NEW h \in Handlers, HandlerStep(h)
        PROVE  faults \subseteq faults'
    BY <1>1 DEF HandlerStep, CreateSubmission, InsertSubmission, UploadArtifact,
                CreateGitLinkArtifact, Begin, OpenFile, KeepFile, MaybeParseWithArtifactParser,
                CreateArtifact, CleanupStoredArtifact, Fault, NoFault
  <1>2. Crash => faults \subseteq faults'
    BY DEF Crash, Fault
  <1> QED BY <1>1, <1>2 DEF Next, vars

(* A committed artifact is one more row, and its submission has a status.   *)
LEMMA RowsEffect ==
  ASSUME Owned, NEW h \in Handlers, handler[h].pc \in {"commit", "link"}, InsertRows(h)
  PROVE  /\ rows' = rows \cup {[artifact |-> handler[h].artifact,
                                submission |-> handler[h].submission,
                                keyed |-> handler[h].pc = "commit"]}
         /\ rows' \subseteq [artifact : Artifacts, submission : Submissions, keyed : BOOLEAN]
         /\ status' \in [Submissions -> {"absent", "draft", "parsing", "parsed"}]
  <1>1. handler[h].artifact \in Artifacts /\ handler[h].submission \in Submissions
    BY DEF Owned, TypeOK, OwnArtifact
  <1>2. (handler[h].pc = "commit") \in BOOLEAN
    OBVIOUS
  <1>3. rows' = rows \cup {[artifact |-> handler[h].artifact,
                            submission |-> handler[h].submission,
                            keyed |-> handler[h].pc = "commit"]}
    BY DEF InsertRows
  <1>4. status' \in [Submissions -> {"absent", "draft", "parsing", "parsed"}]
    BY <1>1 DEF InsertRows, Owned, TypeOK
  <1>5. rows \subseteq [artifact : Artifacts, submission : Submissions, keyed : BOOLEAN]
    BY DEF Owned, TypeOK
  <1>6. [artifact |-> handler[h].artifact, submission |-> handler[h].submission,
         keyed |-> handler[h].pc = "commit"]
          \in [artifact : Artifacts, submission : Submissions, keyed : BOOLEAN]
    BY <1>1, <1>2
  <1> QED BY <1>3, <1>4, <1>5, <1>6

-----------------------------------------------------------------------------
(* Every step leaves each artifact id with one handler. *)

LEMMA InitOwned == Init => Owned
  BY DEF Init, Owned, TypeOK, OwnArtifact, Idle, Steps

LEMMA CreateOwned ==
  ASSUME Owned, NEW h \in Handlers, NEW s \in Submissions, CreateSubmission(h, s)
  PROVE  Owned'
  <1>1. UNCHANGED <<status, rows, files, used, faults>>
    BY DEF CreateSubmission
  <1>2. TypeOK'
    BY <1>1, CreateEffect DEF Owned, TypeOK
  <1>3. /\ handler[h].pc = "idle"
        /\ handler'[h].pc = "create"
        /\ handler'[h].submission = s
        /\ handler'[h].artifact = None
        /\ \A g \in Handlers \ {h} : handler'[g] = handler[g]
    BY CreateEffect DEF Owned
  <1>4. None \notin used
    BY DEF Owned, TypeOK
  <1>5. OwnArtifact'
    BY <1>1, <1>3, <1>4 DEF Owned, OwnArtifact
  <1> QED BY <1>2, <1>5 DEF Owned

LEMMA InsertOwned ==
  ASSUME Owned, NEW h \in Handlers, InsertSubmission(h)
  PROVE  Owned'
  <1>0. TypeOK
    BY DEF Owned
  <1>1. UNCHANGED <<rows, files, used>> /\ Answer(h)
    BY DEF InsertSubmission
  <1>2. faults' \subseteq Kinds
    BY FaultEffect DEF InsertSubmission, Owned, TypeOK, NoFault, Kinds
  <1>3. status' \in [Submissions -> {"absent", "draft", "parsing", "parsed"}]
    BY DEF InsertSubmission, Owned, TypeOK
  <1>4. TypeOK'
    BY <1>1, <1>2, <1>3, AnswerEffect DEF Owned, TypeOK
  <1>5. OwnArtifact'
    BY <1>0, <1>1, AnswerEffect DEF Owned, OwnArtifact, TypeOK
  <1> QED BY <1>4, <1>5 DEF Owned

LEMMA BeginOwned ==
  ASSUME Owned, NEW h \in Handlers, NEW s \in Submissions, NEW a \in Artifacts,
         NEW pc \in {"open", "link"}, Begin(h, s, a, pc)
  PROVE  Owned'
  <1>0. pc \in Steps
    BY DEF Steps
  <1>1. UNCHANGED <<status, rows, files, faults>>
    BY DEF Begin
  <1>2. TypeOK'
    BY <1>0, <1>1, BeginEffect DEF Owned, TypeOK
  <1>3. \A g \in Handlers : handler[g].artifact # a
    BY <1>0, BeginEffect DEF Owned, TypeOK, OwnArtifact
  <1>4. a \notin files
    BY <1>0, BeginEffect DEF Owned, OwnArtifact
  <1>5. OwnArtifact'
    BY <1>0, <1>1, <1>3, <1>4, BeginEffect DEF Owned, TypeOK, OwnArtifact
  <1> QED BY <1>2, <1>5 DEF Owned

LEMMA OpenOwned ==
  ASSUME Owned, NEW h \in Handlers, OpenFile(h)
  PROVE  Owned'
  <1>0. "write" \in Steps /\ TypeOK
    BY DEF Steps, Owned
  <1>1. UNCHANGED <<status, rows, used, faults>> /\ handler[h].pc = "open"
    BY DEF OpenFile
  <1>2. handler[h].artifact \in Artifacts /\ handler[h].artifact \in used
    BY <1>1 DEF Owned, TypeOK, OwnArtifact
  <1>3. CASE files' = files \cup {handler[h].artifact} /\ Goto(h, "write")
    <2>1. TypeOK'
      BY <1>0, <1>1, <1>2, <1>3, GotoEffect DEF TypeOK
    <2>2. OwnArtifact'
      BY <1>0, <1>1, <1>2, <1>3, GotoEffect DEF Owned, OwnArtifact
    <2> QED BY <2>1, <2>2 DEF Owned
  <1>4. CASE UNCHANGED files /\ Answer(h)
    <2>1. TypeOK'
      BY <1>0, <1>1, <1>4, AnswerEffect DEF TypeOK
    <2>2. OwnArtifact'
      BY <1>0, <1>1, <1>2, <1>4, AnswerEffect DEF Owned, OwnArtifact, TypeOK
    <2> QED BY <2>1, <2>2 DEF Owned
  <1> QED BY <1>3, <1>4 DEF OpenFile

LEMMA KeepOwned ==
  ASSUME Owned, NEW h \in Handlers, KeepFile(h)
  PROVE  Owned'
  <1>0. TypeOK
    BY DEF Owned
  <1>1. UNCHANGED <<status, rows, used>> /\ handler[h].pc = "write" /\ faults' \subseteq Kinds
    BY <1>0, FaultEffect DEF KeepFile, TypeOK, NoFault, Kinds
  <1>2. CASE UNCHANGED files /\ Goto(h, IF Parser THEN "parse" ELSE "commit")
    <2>0. PICK pc \in {"parse", "commit"} : Goto(h, pc)
      BY <1>2
    <2>1. pc \in Steps
      BY DEF Steps
    <2>2. TypeOK'
      BY <1>0, <1>1, <1>2, <2>0, <2>1, GotoEffect DEF TypeOK
    <2>3. OwnArtifact'
      BY <1>0, <1>1, <1>2, <2>0, <2>1, GotoEffect DEF Owned, OwnArtifact
    <2> QED BY <2>2, <2>3 DEF Owned
  <1>3. CASE files' \subseteq files /\ Answer(h)
    <2>1. TypeOK'
      BY <1>0, <1>1, <1>3, AnswerEffect DEF TypeOK
    <2>2. OwnArtifact'
      BY <1>0, <1>1, <1>3, AnswerEffect DEF Owned, OwnArtifact, TypeOK
    <2> QED BY <2>1, <2>2 DEF Owned
  <1> QED BY <1>2, <1>3 DEF KeepFile

LEMMA ParseOwned ==
  ASSUME Owned, NEW h \in Handlers, MaybeParseWithArtifactParser(h)
  PROVE  Owned'
  <1>0. "commit" \in Steps /\ TypeOK
    BY DEF Steps, Owned
  <1>1. UNCHANGED <<status, rows, files, used>> /\ handler[h].pc = "parse" /\ faults' \subseteq Kinds
    BY <1>0, FaultEffect DEF MaybeParseWithArtifactParser, TypeOK, NoFault, Kinds
  <1>2. CASE Goto(h, "commit")
    <2>1. TypeOK'
      BY <1>0, <1>1, <1>2, GotoEffect DEF TypeOK
    <2>2. OwnArtifact'
      BY <1>0, <1>1, <1>2, GotoEffect DEF Owned, OwnArtifact
    <2> QED BY <2>1, <2>2 DEF Owned
  <1>3. CASE Answer(h)
    <2>1. TypeOK'
      BY <1>0, <1>1, <1>3, AnswerEffect DEF TypeOK
    <2>2. OwnArtifact'
      BY <1>0, <1>1, <1>3, AnswerEffect DEF Owned, OwnArtifact, TypeOK
    <2> QED BY <2>1, <2>2 DEF Owned
  <1> QED BY <1>2, <1>3 DEF MaybeParseWithArtifactParser

LEMMA CleanupOwned ==
  ASSUME Owned, NEW h \in Handlers, CleanupStoredArtifact(h)
  PROVE  Owned'
  <1>0. TypeOK
    BY DEF Owned
  <1>1. /\ UNCHANGED <<status, rows, used>>
        /\ files' \subseteq files
        /\ Answer(h)
        /\ faults' \subseteq Kinds
    BY <1>0, FaultEffect DEF CleanupStoredArtifact, TypeOK, NoFault, Kinds
  <1>2. TypeOK'
    BY <1>0, <1>1, AnswerEffect DEF TypeOK
  <1>3. OwnArtifact'
    BY <1>0, <1>1, AnswerEffect DEF Owned, OwnArtifact, TypeOK
  <1> QED BY <1>2, <1>3 DEF Owned

LEMMA ArtifactOwned ==
  ASSUME Owned, NEW h \in Handlers, CreateArtifact(h)
  PROVE  Owned'
  <1>0. "cleanup" \in Steps /\ TypeOK
    BY DEF Steps, Owned
  <1>1. UNCHANGED <<files, used>> /\ handler[h].pc \in {"commit", "link"} /\ faults' \subseteq Kinds
    BY <1>0, FaultEffect DEF CreateArtifact, TypeOK, NoFault, Kinds
  <1>2. handler[h].artifact \in used
    BY <1>1 DEF Owned, OwnArtifact
  <1>3. /\ rows' \subseteq [artifact : Artifacts, submission : Submissions, keyed : BOOLEAN]
        /\ status' \in [Submissions -> {"absent", "draft", "parsing", "parsed"}]
        /\ \A r \in rows' : r.artifact \in used
    <2>1. CASE InsertRows(h)
      BY <1>1, <1>2, <2>1, RowsEffect DEF Owned, OwnArtifact
    <2>2. CASE UNCHANGED <<rows, status>>
      BY <2>2 DEF Owned, TypeOK, OwnArtifact
    <2> QED BY <2>1, <2>2 DEF CreateArtifact
  <1>4. CASE Answer(h)
    <2>1. TypeOK'
      BY <1>0, <1>1, <1>3, <1>4, AnswerEffect DEF TypeOK
    <2>2. OwnArtifact'
      BY <1>0, <1>1, <1>3, <1>4, AnswerEffect DEF Owned, OwnArtifact, TypeOK
    <2> QED BY <2>1, <2>2 DEF Owned
  <1>5. CASE Goto(h, "cleanup")
    <2>1. TypeOK'
      BY <1>0, <1>1, <1>3, <1>5, GotoEffect DEF TypeOK
    <2>2. OwnArtifact'
      BY <1>0, <1>1, <1>3, <1>5, GotoEffect DEF Owned, OwnArtifact
    <2> QED BY <2>1, <2>2 DEF Owned
  <1> QED BY <1>4, <1>5 DEF CreateArtifact

LEMMA CrashOwned ==
  ASSUME Owned, Crash
  PROVE  Owned'
  <1>1. UNCHANGED <<status, rows, files, used>> /\ handler' = [h \in Handlers |-> Idle]
    BY DEF Crash
  <1>2. faults' \subseteq Kinds
    BY FaultEffect DEF Crash, Owned, Kinds
  <1>3. TypeOK'
    BY <1>1, <1>2 DEF Owned, TypeOK, Idle, Steps
  <1>4. OwnArtifact'
    BY <1>1 DEF Owned, OwnArtifact, Idle
  <1> QED BY <1>3, <1>4 DEF Owned

LEMMA NextOwned ==
  ASSUME Owned, [Next]_vars
  PROVE  Owned'
  <1>1. ASSUME NEW h \in Handlers, HandlerStep(h)
        PROVE  Owned'
    <2>1. ASSUME NEW s \in Submissions, NEW a \in Artifacts,
                 UploadArtifact(h, s, a) \/ CreateGitLinkArtifact(h, s, a)
          PROVE  Owned'
      BY <2>1, BeginOwned DEF UploadArtifact, CreateGitLinkArtifact
    <2> QED BY <1>1, <2>1, CreateOwned, InsertOwned, OpenOwned, KeepOwned, ParseOwned,
               ArtifactOwned, CleanupOwned DEF HandlerStep
  <1>2. CASE UNCHANGED vars
    BY <1>2 DEF vars, Owned, TypeOK, OwnArtifact
  <1> QED BY <1>1, <1>2, CrashOwned DEF Next

(* Every variable keeps its type, and an artifact id its one owner.         *)
THEOREM Ownership == Spec => []Owned
  BY InitOwned, NextOwned, PTL DEF Spec

(* Every state of a behaviour is well-typed.                                *)
THEOREM TypeCorrect == Spec => []TypeOK
  <1>1. Owned => TypeOK
    BY DEF Owned
  <1> QED BY <1>1, Ownership, PTL

-----------------------------------------------------------------------------
(* Without lost replies, a row that names a file has it. *)

Backed == Owned /\ Undecided /\ RowsHaveFiles

LEMMA InitBacked == Init => Backed
  BY InitOwned DEF Init, Backed, Undecided, RowsHaveFiles, Idle

(* A step that writes neither rows nor files: the handlers that moved must   *)
(* not have claimed a file that is not there, nor an artifact with a row.   *)
LEMMA QuietBacked ==
  ASSUME Backed, Owned', UNCHANGED <<rows, files>>, NEW h \in Handlers, "reply" \notin faults,
         \A g \in Handlers \ {h} : handler'[g] = handler[g],
         \A r \in rows : r.artifact # handler'[h].artifact,
         handler'[h].pc \in {"write", "parse", "commit"} => handler'[h].artifact \in files
  PROVE  Backed'
  <1>1. Undecided'
    BY DEF Backed, Undecided
  <1>2. RowsHaveFiles'
    BY DEF Backed, RowsHaveFiles
  <1> QED BY <1>1, <1>2 DEF Backed

LEMMA StepBacked ==
  ASSUME "reply" \notin faults, "reply" \notin faults', Backed, NEW h \in Handlers, HandlerStep(h)
  PROVE  Backed'
  <1>0. TypeOK /\ OwnArtifact /\ Undecided /\ RowsHaveFiles
    BY DEF Backed, Owned
  <1>1. Owned'
    BY NextOwned DEF Backed, Next
  <1>2. \A r \in rows : r.artifact \in used /\ r.artifact # None
    BY <1>0 DEF OwnArtifact, TypeOK
  <1>3. ASSUME UNCHANGED <<rows, files>>, Answer(h)
        PROVE  Backed'
    BY <1>0, <1>1, <1>2, <1>3, AnswerEffect, QuietBacked
  <1>4. ASSUME NEW s \in Submissions, CreateSubmission(h, s)
        PROVE  Backed'
    <2>1. UNCHANGED <<rows, files>>
      BY <1>4 DEF CreateSubmission
    <2> QED BY <1>0, <1>1, <1>2, <1>4, <2>1, CreateEffect, QuietBacked
  <1>5. ASSUME NEW s \in Submissions, NEW a \in Artifacts, NEW pc \in {"open", "link"},
               Begin(h, s, a, pc)
        PROVE  Backed'
    <2>1. UNCHANGED <<rows, files>> /\ pc \in Steps
      BY <1>5 DEF Begin, Steps
    <2>2. \A r \in rows : r.artifact # a
      BY <1>0, <1>2, <1>5, <2>1, BeginEffect
    <2> QED BY <1>0, <1>1, <1>5, <2>1, <2>2, BeginEffect, QuietBacked
  <1>6. CASE OpenFile(h)
    <2>1. UNCHANGED rows /\ "write" \in Steps
      BY <1>6 DEF OpenFile, Steps
    <2>2. CASE files' = files \cup {handler[h].artifact} /\ Goto(h, "write")
      <3>1. Undecided'
        BY <1>0, <2>1, <2>2, GotoEffect DEF Undecided
      <3>2. RowsHaveFiles'
        BY <1>0, <2>1, <2>2 DEF RowsHaveFiles
      <3> QED BY <1>1, <3>1, <3>2 DEF Backed
    <2> QED BY <1>3, <1>6, <2>1, <2>2 DEF OpenFile
  <1>7. ASSUME UNCHANGED rows, files' = files \ {handler[h].artifact}, Answer(h),
               handler[h].pc \in {"write", "cleanup"}
        PROVE  Backed'
    <2>1. \A g \in Handlers \ {h} : handler[g].artifact # handler[h].artifact
      BY <1>0, <1>7 DEF OwnArtifact
    <2>2. Undecided'
      BY <1>0, <1>2, <1>7, <2>1, AnswerEffect DEF Undecided
    <2>3. RowsHaveFiles'
      BY <1>0, <1>7 DEF RowsHaveFiles, Undecided
    <2> QED BY <1>1, <2>2, <2>3 DEF Backed
  <1>8. CASE KeepFile(h)
    <2>1. UNCHANGED rows /\ handler[h].pc = "write" /\ {"parse", "commit"} \subseteq Steps
      BY <1>8 DEF KeepFile, Steps
    <2>2. ASSUME UNCHANGED files, NEW pc \in {"parse", "commit"}, Goto(h, pc)
          PROVE  Backed'
      BY <1>0, <1>1, <2>1, <2>2, GotoEffect, QuietBacked DEF Undecided
    <2> QED BY <1>3, <1>7, <1>8, <2>1, <2>2 DEF KeepFile
  <1>9. CASE MaybeParseWithArtifactParser(h)
    <2>1. UNCHANGED <<rows, files>> /\ handler[h].pc = "parse" /\ "commit" \in Steps
      BY <1>9 DEF MaybeParseWithArtifactParser, Steps
    <2>2. CASE Goto(h, "commit")
      BY <1>0, <1>1, <2>1, <2>2, GotoEffect, QuietBacked DEF Undecided
    <2> QED BY <1>3, <1>9, <2>1, <2>2 DEF MaybeParseWithArtifactParser
  <1>10. CASE CleanupStoredArtifact(h)
    BY <1>3, <1>7, <1>10 DEF CleanupStoredArtifact
  <1>11. CASE CreateArtifact(h)
    <2>1. UNCHANGED files /\ handler[h].pc \in {"commit", "link"} /\ "cleanup" \in Steps
      BY <1>11 DEF CreateArtifact, Steps
    <2>2. CASE UNCHANGED rows /\ Goto(h, "cleanup")
      BY <1>0, <1>1, <2>1, <2>2, GotoEffect, QuietBacked DEF Undecided
    <2>3. CASE InsertRows(h) /\ Answer(h)
      <3>1. rows' = rows \cup {[artifact |-> handler[h].artifact,
                                submission |-> handler[h].submission,
                                keyed |-> handler[h].pc = "commit"]}
        BY <2>1, <2>3, RowsEffect DEF Backed
      <3>2. handler[h].artifact \in used /\ handler[h].artifact # None
        BY <1>0, <2>1 DEF OwnArtifact, TypeOK
      <3>3. \A g \in Handlers \ {h} : handler[g].artifact # handler[h].artifact
        BY <1>0, <2>1 DEF OwnArtifact
      <3>4. Undecided'
        BY <1>0, <1>2, <2>1, <2>3, <3>1, <3>2, <3>3, AnswerEffect DEF Undecided
      <3>5. handler[h].pc = "commit" => handler[h].artifact \in files
        BY <1>0 DEF Undecided
      <3>6. ASSUME NEW r \in rows', r.keyed
            PROVE  r.artifact \in files
        <4>1. CASE r \in rows
          BY <1>0, <3>6, <4>1 DEF RowsHaveFiles
        <4>2. CASE r = [artifact |-> handler[h].artifact, submission |-> handler[h].submission,
                        keyed |-> handler[h].pc = "commit"]
          <5>1. r.keyed = (handler[h].pc = "commit") /\ r.artifact = handler[h].artifact
            BY <4>2
          <5> QED BY <3>5, <3>6, <5>1
        <4> QED BY <3>1, <3>6, <4>1, <4>2
      <3>7. RowsHaveFiles'
        BY <2>1, <3>6 DEF RowsHaveFiles
      <3> QED BY <1>1, <3>4, <3>7 DEF Backed
    <2>4. ~Fault("reply")
      BY DEF Fault
    <2> QED BY <1>3, <1>11, <2>1, <2>2, <2>3, <2>4 DEF CreateArtifact
  <1>12. CASE InsertSubmission(h)
    BY <1>3, <1>12 DEF InsertSubmission
  <1> QED BY <1>4, <1>5, <1>6, <1>8, <1>9, <1>10, <1>11, <1>12
          DEF HandlerStep, UploadArtifact, CreateGitLinkArtifact

LEMMA NextBacked ==
  ASSUME Backed, [Next]_vars
  PROVE  Backed'
  <1>0. Owned' /\ faults \subseteq faults'
    BY NextOwned, FaultsGrow DEF Backed
  <1>3. CASE "reply" \in faults'
    BY <1>0, <1>3 DEF Backed, Undecided, RowsHaveFiles
  <1>4. "reply" \notin faults' => "reply" \notin faults
    BY <1>0
  <1>1. CASE Crash
    <2>1. UNCHANGED <<rows, files>> /\ handler' = [h \in Handlers |-> Idle]
      BY <1>1 DEF Crash
    <2>2. \A r \in rows : r.artifact # None
      BY DEF Backed, Owned, TypeOK
    <2>3. Owned'
      BY <1>1, CrashOwned DEF Backed
    <2>4. Undecided'
      BY <1>0, <2>1, <2>2 DEF Undecided, Idle
    <2>5. RowsHaveFiles'
      BY <1>0, <2>1 DEF RowsHaveFiles, Backed
    <2> QED BY <2>3, <2>4, <2>5 DEF Backed
  <1>2. CASE UNCHANGED vars
    <2>1. Owned'
      BY <1>2, NextOwned DEF Backed
    <2> QED BY <1>2, <2>1 DEF vars, Backed, Undecided, RowsHaveFiles
  <1> QED BY <1>1, <1>2, <1>3, <1>4, StepBacked DEF Next

(* Unless the reply of a commit is lost, no failure, refusal or crash        *)
(* leaves an artifacts row whose file is missing: the file is written       *)
(* before the row, and is removed only where the row was not committed.     *)
THEOREM FilesBehindRows == Spec => []RowsHaveFiles
  <1>1. Backed /\ [Next]_vars => Backed'
    BY NextBacked
  <1>2. Backed => RowsHaveFiles
    BY DEF Backed
  <1> QED BY <1>1, <1>2, InitBacked, PTL DEF Spec

-----------------------------------------------------------------------------
(* Where neither process nor disk nor parser fails, no file is left behind. *)

Clean == Owned /\ NoStrayFile

Leaks == {"crash", "disk", "refusal"}

LEMMA InitClean == Init => Clean
  BY InitOwned DEF Init, Clean, NoStrayFile, Stray, Idle

(* A handler that answers may drop its artifact if its file is gone or has  *)
(* a row.                                                                   *)
LEMMA AnswerClean ==
  ASSUME Clean, Owned', faults \cap Leaks = {}, NEW h \in Handlers, Answer(h), rows \subseteq rows', files' \subseteq files,
         handler[h].artifact \in files' => \E r \in rows' : r.artifact = handler[h].artifact
  PROVE  Clean'
  <1>0. TypeOK
    BY DEF Clean, Owned
  <1>1. NoStrayFile'
    BY <1>0, AnswerEffect DEF Clean, NoStrayFile, Stray, AtWork, Leaks
  <1> QED BY <1>1 DEF Clean

(* A handler that goes on keeps its artifact at work.                       *)
LEMMA GotoClean ==
  ASSUME Clean, Owned', faults \cap Leaks = {}, NEW h \in Handlers, NEW pc \in Steps, Goto(h, pc),
         rows \subseteq rows', files' \subseteq files \cup {handler[h].artifact}
  PROVE  Clean'
  <1>0. TypeOK
    BY DEF Clean, Owned
  <1>1. NoStrayFile'
    BY <1>0, GotoEffect DEF Clean, NoStrayFile, Stray, AtWork, Leaks
  <1> QED BY <1>1 DEF Clean

LEMMA StepClean ==
  ASSUME faults \cap Leaks = {}, faults' \cap Leaks = {}, Clean, NEW h \in Handlers, HandlerStep(h)
  PROVE  Clean'
  <1>0. TypeOK /\ OwnArtifact /\ ~Fault("disk") /\ ~Fault("refusal")
    BY DEF Clean, Owned, Fault, Leaks
  <1>1. Owned'
    BY NextOwned DEF Clean, Next
  <1>2. {"write", "parse", "commit", "cleanup"} \subseteq Steps
    BY DEF Steps
  <1>3. \A a \in files : a \in Artifacts /\ a # None
    BY <1>0 DEF TypeOK
  <1>4. ASSUME NEW s \in Submissions, CreateSubmission(h, s)
        PROVE  Clean'
    <2>1. UNCHANGED <<rows, files>> /\ handler[h].artifact = None
      BY <1>0, <1>4, CreateEffect DEF CreateSubmission, OwnArtifact
    <2>2. NoStrayFile'
      BY <1>0, <1>3, <1>4, <2>1, CreateEffect DEF Clean, NoStrayFile, Stray, AtWork, Leaks
    <2> QED BY <1>1, <2>2 DEF Clean
  <1>5. CASE InsertSubmission(h)
    <2>1. UNCHANGED <<rows, files>> /\ Answer(h) /\ handler[h].pc = "create"
      BY <1>5 DEF InsertSubmission
    <2>2. handler[h].artifact \notin files
      BY <1>0, <1>3, <2>1 DEF OwnArtifact
    <2> QED BY <1>1, <2>1, <2>2, AnswerClean
  <1>6. ASSUME NEW s \in Submissions, NEW a \in Artifacts, NEW pc \in {"open", "link"},
               Begin(h, s, a, pc)
        PROVE  Clean'
    <2>0. pc \in Steps
      BY DEF Steps
    <2>1. UNCHANGED <<rows, files>> /\ handler[h].artifact = None
      BY <1>0, <1>6, <2>0, BeginEffect DEF Begin, OwnArtifact
    <2>2. NoStrayFile'
      BY <1>0, <1>3, <1>6, <2>0, <2>1, BeginEffect DEF Clean, NoStrayFile, Stray, AtWork, Leaks
    <2> QED BY <1>1, <2>2 DEF Clean
  <1>7. CASE OpenFile(h)
    <2>1. UNCHANGED rows /\ handler[h].pc = "open"
      BY <1>7 DEF OpenFile
    <2>2. handler[h].artifact \notin files
      BY <1>0, <2>1 DEF OwnArtifact
    <2>3. CASE files' = files \cup {handler[h].artifact} /\ Goto(h, "write")
      BY <1>1, <1>2, <2>1, <2>3, GotoClean
    <2>4. CASE UNCHANGED files /\ Answer(h)
      BY <1>1, <2>1, <2>2, <2>4, AnswerClean
    <2> QED BY <1>7, <2>3, <2>4 DEF OpenFile
  <1>8. CASE KeepFile(h)
    <2>1. UNCHANGED rows
      BY <1>8 DEF KeepFile
    <2>2. ASSUME UNCHANGED files, NEW pc \in {"parse", "commit"}, Goto(h, pc)
          PROVE  Clean'
      BY <1>1, <1>2, <2>1, <2>2, GotoClean
    <2>3. CASE files' = files \ {handler[h].artifact} /\ Answer(h)
      BY <1>1, <2>1, <2>3, AnswerClean
    <2> QED BY <1>0, <1>8, <2>2, <2>3 DEF KeepFile
  <1>9. CASE MaybeParseWithArtifactParser(h)
    <2>1. UNCHANGED <<rows, files>> /\ Goto(h, "commit")
      BY <1>0, <1>9 DEF MaybeParseWithArtifactParser
    <2> QED BY <1>1, <1>2, <2>1, GotoClean
  <1>10. CASE CleanupStoredArtifact(h)
    <2>1. UNCHANGED rows /\ files' = files \ {handler[h].artifact} /\ Answer(h)
      BY <1>0, <1>10 DEF CleanupStoredArtifact
    <2> QED BY <1>1, <2>1, AnswerClean
  <1>11. CASE CreateArtifact(h)
    <2>1. UNCHANGED files /\ handler[h].pc \in {"commit", "link"}
      BY <1>11 DEF CreateArtifact
    <2>2. ASSUME InsertRows(h)
          PROVE  rows \subseteq rows' /\ \E r \in rows' : r.artifact = handler[h].artifact
      <3>1. rows' = rows \cup {[artifact |-> handler[h].artifact,
                                submission |-> handler[h].submission,
                                keyed |-> handler[h].pc = "commit"]}
        BY <2>1, <2>2, RowsEffect DEF Clean
      <3>2. PICK r \in rows' : r = [artifact |-> handler[h].artifact,
                                    submission |-> handler[h].submission,
                                    keyed |-> handler[h].pc = "commit"]
        BY <3>1
      <3>3. r.artifact = handler[h].artifact
        BY <3>2
      <3> QED BY <3>1, <3>3
    <2>3. rows \subseteq rows'
      BY <1>11, <2>2 DEF CreateArtifact
    <2>4. CASE Goto(h, "cleanup")
      BY <1>1, <1>2, <2>1, <2>3, <2>4, GotoClean
    <2>5. CASE InsertRows(h) /\ Answer(h)
      BY <1>1, <2>1, <2>2, <2>5, AnswerClean
    <2>6. CASE handler[h].pc = "link" /\ Answer(h)
      <3>1. handler[h].artifact \notin files
        BY <1>0, <2>6 DEF OwnArtifact
      <3> QED BY <1>1, <2>1, <2>3, <2>6, <3>1, AnswerClean
    <2> QED BY <1>11, <2>4, <2>5, <2>6 DEF CreateArtifact
  <1> QED BY <1>4, <1>5, <1>6, <1>7, <1>8, <1>9, <1>10, <1>11
          DEF HandlerStep, UploadArtifact, CreateGitLinkArtifact

LEMMA NextClean ==
  ASSUME Clean, [Next]_vars
  PROVE  Clean'
  <1>0. Owned' /\ faults \subseteq faults'
    BY NextOwned, FaultsGrow DEF Clean
  <1>1. CASE faults' \cap Leaks # {}
    BY <1>0, <1>1 DEF Clean, NoStrayFile, Leaks
  <1>2. CASE faults' \cap Leaks = {}
    <2>1. faults \cap Leaks = {} /\ ~Crash
      BY <1>0, <1>2 DEF Crash, Fault, Leaks
    <2>2. CASE UNCHANGED vars
      BY <1>0, <2>2 DEF vars, Clean, NoStrayFile, Stray, AtWork
    <2> QED BY <1>2, <2>1, <2>2, StepClean DEF Next
  <1> QED BY <1>1, <1>2

(* A failed transaction, with or without a commit behind a lost reply, and  *)
(* a refused upload leave nothing in the store, unless a crash, the disk or *)
(* a refusal of the parser prevents the clean-up.                           *)
THEOREM StoreStaysClean == Spec => []NoStrayFile
  <1>1. Clean => NoStrayFile
    BY DEF Clean
  <1> QED BY <1>1, InitClean, NextClean, PTL DEF Spec
-----------------------------------------------------------------------------
(* The limit is passed by less than the number of handlers.                 *)

Reserved == Owned /\ RoomReserved

LEMMA Countable ==
  ASSUME NEW s, IsFiniteSet(rows)
  PROVE  /\ IsFiniteSet(Pending(s)) /\ IsFiniteSet(Stored(s))
         /\ Cardinality(Pending(s)) \in Nat
         /\ Cardinality(Stored(s)) \in Nat
         /\ Cardinality(Handlers) \in Nat
  <1>1. Pending(s) \subseteq Handlers /\ Stored(s) \subseteq rows
    BY DEF Pending, Stored
  <1> QED BY <1>1, FS_Subset, FS_CardinalityType

LEMMA InitReserved == Init => Reserved
  <1> SUFFICES ASSUME Init PROVE Reserved
    OBVIOUS
  <1>1. IsFiniteSet(rows)
    BY FS_EmptySet DEF Init
  <1>2. ASSUME NEW s \in Submissions
        PROVE  Cardinality(Stored(s)) + Cardinality(Pending(s)) < MaxArtifacts + Cardinality(Handlers)
    <2>1. Stored(s) = {} /\ Pending(s) = {}
      BY DEF Init, Stored, Pending, Idle
    <2> QED BY <1>1, <2>1, Countable, FS_EmptySet
  <1> QED BY <1>1, <1>2, InitOwned DEF Reserved, RoomReserved

(* No row is added and no handler joins those that may add one.             *)
LEMMA QuietReserved ==
  ASSUME Reserved, Owned', UNCHANGED rows, \A s \in Submissions : Pending(s)' \subseteq Pending(s)
  PROVE  Reserved'
  <1>0. IsFiniteSet(rows)
    BY DEF Reserved, RoomReserved
  <1>1. ASSUME NEW s \in Submissions
        PROVE  Cardinality(Stored(s)') + Cardinality(Pending(s)') < MaxArtifacts + Cardinality(Handlers)
    <2>1. /\ Cardinality(Pending(s)') \in Nat
          /\ Cardinality(Pending(s)') <= Cardinality(Pending(s))
      BY <1>0, Countable, FS_Subset, FS_CardinalityType
    <2>2. Stored(s)' = Stored(s)
      BY DEF Stored
    <2>3. Cardinality(Stored(s)) + Cardinality(Pending(s)) < MaxArtifacts + Cardinality(Handlers)
      BY DEF Reserved, RoomReserved
    <2> QED BY <1>0, <2>1, <2>2, <2>3, Countable
  <1> QED BY <1>0, <1>1 DEF Reserved, RoomReserved

(* One more handler, which has just found room.                             *)
LEMMA BeginReserved ==
  ASSUME Reserved, NEW h \in Handlers, NEW t \in Submissions, NEW a \in Artifacts,
         NEW pc \in {"open", "link"}, Begin(h, t, a, pc)
  PROVE  Reserved'
  <1>0. Owned /\ TypeOK /\ IsFiniteSet(rows) /\ pc \in Steps
    BY DEF Reserved, Owned, RoomReserved, Steps
  <1>1. UNCHANGED rows /\ HasCapacity(t)
    BY DEF Begin
  <1>2. Owned'
    BY <1>0, BeginOwned
  <1>3. ASSUME NEW s \in Submissions
        PROVE  Cardinality(Stored(s)') + Cardinality(Pending(s)') < MaxArtifacts + Cardinality(Handlers)
    <2>1. Stored(s)' = Stored(s)
      BY <1>1 DEF Stored
    <2>2. CASE s = t
      <3>1. Pending(s)' = Pending(s) \cup {h} /\ h \notin Pending(s)
        BY <1>0, <2>2, BeginEffect DEF Pending
      <3>2. Pending(s) \subseteq Handlers \ {h}
        BY <3>1 DEF Pending
      <3>3. /\ IsFiniteSet(Handlers \ {h})
            /\ Cardinality(Handlers \ {h}) = Cardinality(Handlers) - 1
        BY FS_RemoveElement
      <3>4. Cardinality(Pending(s)) <= Cardinality(Handlers) - 1
        BY <3>2, <3>3, FS_Subset
      <3>5. Cardinality(Pending(s)') = Cardinality(Pending(s)) + 1
        BY <1>0, <3>1, Countable, FS_AddElement
      <3>6. Cardinality(Stored(s)) < MaxArtifacts
        BY <1>1, <2>2 DEF HasCapacity
      <3> QED BY <1>0, <2>1, <3>4, <3>5, <3>6, Countable
    <2>3. CASE s # t
      <3>1. Pending(s)' = Pending(s)
        BY <1>0, <2>3, BeginEffect DEF Pending
      <3> QED BY <2>1, <3>1 DEF Reserved, RoomReserved
    <2> QED BY <2>2, <2>3
  <1> QED BY <1>0, <1>1, <1>2, <1>3 DEF Reserved, RoomReserved

(* A row takes the place of the handler that stored it.                     *)
LEMMA InsertReserved ==
  ASSUME Reserved, Owned', NEW h \in Handlers, handler[h].pc \in {"commit", "link"}, InsertRows(h),
         handler'[h].pc \in {"idle", "cleanup"}, \A g \in Handlers \ {h} : handler'[g] = handler[g]
  PROVE  Reserved'
  <1>0. Owned /\ TypeOK /\ OwnArtifact /\ IsFiniteSet(rows)
    BY DEF Reserved, Owned, RoomReserved
  <1> DEFINE row == [artifact |-> handler[h].artifact, submission |-> handler[h].submission,
                     keyed |-> handler[h].pc = "commit"]
  <1>1. rows' = rows \cup {row} /\ row.submission = handler[h].submission
    BY <1>0, RowsEffect
  <1> HIDE DEF row
  <1>2. IsFiniteSet(rows')
    BY <1>0, <1>1, FS_AddElement
  <1>3. ASSUME NEW s \in Submissions
        PROVE  Cardinality(Stored(s)') + Cardinality(Pending(s)') < MaxArtifacts + Cardinality(Handlers)
    <2>0. Cardinality(Stored(s)) + Cardinality(Pending(s)) < MaxArtifacts + Cardinality(Handlers)
      BY DEF Reserved, RoomReserved
    <2>1. CASE handler[h].submission = s
      <3>1. Pending(s)' = Pending(s) \ {h} /\ h \in Pending(s)
        BY <2>1 DEF Pending
      <3>2. Cardinality(Pending(s)') = Cardinality(Pending(s)) - 1
        BY <1>0, <3>1, Countable, FS_RemoveElement
      <3>3. Stored(s)' = Stored(s) \cup {row}
        BY <1>1, <2>1 DEF Stored
      <3>4. /\ Cardinality(Stored(s)') \in Nat
            /\ Cardinality(Stored(s)') <= Cardinality(Stored(s)) + 1
        <4>1. IsFiniteSet(Stored(s)) /\ Cardinality(Stored(s)) \in Nat
          BY <1>0, Countable
        <4>2. CASE row \in Stored(s)
          <5>1. Stored(s)' = Stored(s)
            BY <3>3, <4>2
          <5> QED BY <4>1, <5>1
        <4>3. CASE row \notin Stored(s)
          <5>1. Cardinality(Stored(s) \cup {row}) = Cardinality(Stored(s)) + 1
            BY <4>1, <4>3, FS_AddElement
          <5> QED BY <3>3, <4>1, <5>1
        <4> QED BY <4>2, <4>3
      <3> QED BY <1>0, <2>0, <3>2, <3>4, Countable
    <2>2. CASE handler[h].submission # s
      <3>1. Stored(s)' = Stored(s)
        BY <1>1, <2>2 DEF Stored
      <3>2. Pending(s)' \subseteq Pending(s)
        BY <2>2 DEF Pending
      <3>3. Cardinality(Pending(s)') <= Cardinality(Pending(s)) /\ Cardinality(Pending(s)') \in Nat
        BY <1>0, <3>2, Countable, FS_Subset, FS_CardinalityType
      <3> QED BY <1>0, <2>0, <3>1, <3>3, Countable
    <2> QED BY <2>1, <2>2
  <1> QED BY <1>2, <1>3 DEF Reserved, RoomReserved

LEMMA StepReserved ==
  ASSUME Reserved, NEW h \in Handlers, HandlerStep(h)
  PROVE  Reserved'
  <1>0. TypeOK /\ OwnArtifact
    BY DEF Reserved, Owned
  <1>1. Owned'
    BY NextOwned DEF Reserved, Next
  <1>2. ASSUME UNCHANGED rows, Answer(h)
        PROVE  Reserved'
    <2>1. \A s \in Submissions : Pending(s)' \subseteq Pending(s)
      BY <1>0, <1>2, AnswerEffect DEF Pending
    <2> QED BY <1>1, <1>2, <2>1, QuietReserved
  <1>3. ASSUME UNCHANGED rows, NEW pc \in Steps, Goto(h, pc),
               handler[h].pc \in {"open", "write", "parse", "commit"}
        PROVE  Reserved'
    <2>1. \A s \in Submissions : Pending(s)' \subseteq Pending(s)
      BY <1>0, <1>3, GotoEffect DEF Pending
    <2> QED BY <1>1, <1>3, <2>1, QuietReserved
  <1>4. {"write", "parse", "commit", "cleanup"} \subseteq Steps
    BY DEF Steps
  <1>5. ASSUME NEW s \in Submissions, CreateSubmission(h, s)
        PROVE  Reserved'
    <2>1. \A t \in Submissions : Pending(t)' \subseteq Pending(t)
      BY <1>0, <1>5, CreateEffect DEF Pending
    <2> QED BY <1>1, <1>5, <2>1, QuietReserved DEF CreateSubmission
  <1>6. CASE InsertSubmission(h)
    BY <1>2, <1>6 DEF InsertSubmission
  <1>7. CASE OpenFile(h)
    BY <1>2, <1>3, <1>4, <1>7 DEF OpenFile
  <1>8. CASE KeepFile(h)
    <2>1. UNCHANGED rows /\ handler[h].pc = "write"
      BY <1>8 DEF KeepFile
    <2>2. ASSUME NEW pc \in {"parse", "commit"}, Goto(h, pc)
          PROVE  Reserved'
      BY <1>3, <1>4, <2>1, <2>2
    <2> QED BY <1>2, <1>8, <2>1, <2>2 DEF KeepFile
  <1>9. CASE MaybeParseWithArtifactParser(h)
    BY <1>2, <1>3, <1>4, <1>9 DEF MaybeParseWithArtifactParser
  <1>10. CASE CleanupStoredArtifact(h)
    BY <1>2, <1>10 DEF CleanupStoredArtifact
  <1>11. CASE CreateArtifact(h)
    <2>1. handler[h].pc \in {"commit", "link"}
      BY <1>11 DEF CreateArtifact
    <2>2. CASE InsertRows(h) /\ Answer(h)
      BY <1>0, <1>1, <2>1, <2>2, AnswerEffect, InsertReserved
    <2>3. CASE InsertRows(h) /\ Goto(h, "cleanup")
      BY <1>0, <1>1, <1>4, <2>1, <2>3, GotoEffect, InsertReserved
    <2>4. CASE UNCHANGED rows /\ Goto(h, "cleanup") /\ handler[h].pc = "commit"
      BY <1>3, <1>4, <2>4
    <2> QED BY <1>2, <1>11, <2>1, <2>2, <2>3, <2>4 DEF CreateArtifact
  <1> QED BY <1>5, <1>6, <1>7, <1>8, <1>9, <1>10, <1>11, BeginReserved
          DEF HandlerStep, UploadArtifact, CreateGitLinkArtifact

LEMMA NextReserved ==
  ASSUME Reserved, [Next]_vars
  PROVE  Reserved'
  <1>1. Owned'
    BY NextOwned DEF Reserved
  <1>2. CASE Crash
    <2>1. \A s \in Submissions : Pending(s)' = {}
      BY <1>2 DEF Crash, Pending, Idle
    <2> QED BY <1>1, <1>2, <2>1, QuietReserved DEF Crash
  <1>3. CASE UNCHANGED vars
    BY <1>1, <1>3, QuietReserved DEF vars, Pending
  <1> QED BY <1>2, <1>3, StepReserved DEF Next

(* Concurrent requests may pass the limit of artifacts, since each counts   *)
(* the rows before it adds one, but only by less than their number.         *)
THEOREM LimitNearlyKept == Spec => []OverflowBounded
  <1>1. ASSUME Reserved PROVE OverflowBounded
    <2> SUFFICES ASSUME NEW s \in Submissions
                 PROVE  Cardinality(Stored(s)) < MaxArtifacts + Cardinality(Handlers)
      BY DEF OverflowBounded
    <2>1. /\ IsFiniteSet(rows)
          /\ Cardinality(Stored(s)) + Cardinality(Pending(s)) < MaxArtifacts + Cardinality(Handlers)
      BY <1>1 DEF Reserved, RoomReserved
    <2> QED BY <2>1, Countable
  <1> QED BY <1>1, InitReserved, NextReserved, PTL DEF Spec
=============================================================================
