----------------------------- MODULE Submissions -----------------------------
(***************************************************************************)
(* Artifacts of a submission: rows in the database, files in the local      *)
(* store, and the handlers that write both without a transaction over the   *)
(* two.  An upload counts the rows, writes the file, may have the gateway   *)
(* parse it, commits the rows, and removes the file if something failed     *)
(* after it was written.  A Git link is rows only.                          *)
(***************************************************************************)
EXTENDS Naturals, FiniteSets

CONSTANTS
  Handlers,      \* goroutines that serve requests of students
  Submissions,   \* one per student: (experiment, student, attempt 1) is a key
  Artifacts,     \* fresh artifact ids; the id is part of the storage key
  MaxArtifacts,  \* maxArtifactsPerSubmission
  Parser,        \* is the gateway's artifact parser configured?
  None           \* no submission, no artifact

ASSUME SubmissionAssumption ==
  /\ MaxArtifacts \in Nat \ {0}
  /\ Parser \in BOOLEAN
  /\ None \notin Submissions \cup Artifacts
  /\ IsFiniteSet(Artifacts) /\ IsFiniteSet(Handlers)

VARIABLES
  status,   \* submissions.status, "absent" before the row exists
  rows,     \* rows of artifacts; a keyed row has a storage_key
  files,    \* artifacts with a file under STORAGE_ROOT
  handler,  \* local state of every handler
  used,     \* artifact ids drawn so far
  faults    \* the kinds of failure that have happened so far

vars == <<status, rows, files, handler, used, faults>>

(* The process dies, a transaction fails, the reply of a commit is lost, a  *)
(* file cannot be removed, the parser refuses an artifact.                  *)
Kinds == {"crash", "database", "reply", "disk", "refusal"}

Steps == {"idle", "create", "open", "write", "parse", "commit", "cleanup", "link"}

Idle == [pc |-> "idle", submission |-> None, artifact |-> None]

TypeOK ==
  /\ status \in [Submissions -> {"absent", "draft", "parsing", "parsed"}]
  /\ rows \subseteq [artifact : Artifacts, submission : Submissions, keyed : BOOLEAN]
  /\ files \subseteq Artifacts
  /\ handler \in [Handlers -> [pc : Steps, submission : Submissions \cup {None},
                               artifact : Artifacts \cup {None}]]
  /\ used \subseteq Artifacts
  /\ faults \subseteq Kinds

Init ==
  /\ status = [s \in Submissions |-> "absent"]
  /\ rows = {}
  /\ files = {}
  /\ handler = [h \in Handlers |-> Idle]
  /\ used = {}
  /\ faults = {}

-----------------------------------------------------------------------------
Stored(s) == {r \in rows : r.submission = s}

Fault(kind) == faults' = faults \cup {kind}

NoFault == UNCHANGED faults

Goto(h, pc) == handler' = [handler EXCEPT ![h].pc = pc]

Answer(h) == handler' = [handler EXCEPT ![h] = Idle]

-----------------------------------------------------------------------------
(* A student opens a submission.  Whether the experiment admits it is read  *)
(* before the insert and is left to chance: nothing below depends on it.    *)

CreateSubmission(h, s) ==
  /\ handler[h].pc = "idle"
  /\ handler' = [handler EXCEPT ![h] = [Idle EXCEPT !.pc = "create", !.submission = s]]
  /\ UNCHANGED <<status, rows, files, used, faults>>

(* The key makes a second insert for the same student a conflict.           *)
InsertSubmission(h) ==
  LET s == handler[h].submission IN
  /\ handler[h].pc = "create"
  /\ \/ NoFault /\ status' = [status EXCEPT ![s] = IF @ = "absent" THEN "draft" ELSE @]
     \/ Fault("database") /\ UNCHANGED status
     \/ Fault("reply") /\ status' = [status EXCEPT ![s] = IF @ = "absent" THEN "draft" ELSE @]
  /\ Answer(h)
  /\ UNCHANGED <<rows, files, used>>

-----------------------------------------------------------------------------
(* The start of an upload or of a link: owner, capacity, fresh id.          *)

(* Variant: the limit is tested as if the new artifact did not count. *)
RoomPlusOne(s) == Cardinality(Stored(s)) <= MaxArtifacts

HasCapacity(s) == Cardinality(Stored(s)) < MaxArtifacts

Begin(h, s, a, pc) ==
  /\ handler[h].pc = "idle"
  /\ status[s] # "absent"
  /\ HasCapacity(s)
  /\ a \in Artifacts \ used
  /\ used' = used \cup {a}
  /\ handler' = [handler EXCEPT ![h] = [pc |-> pc, submission |-> s, artifact |-> a]]
  /\ UNCHANGED <<status, rows, files, faults>>

UploadArtifact(h, s, a) == Begin(h, s, a, "open")

CreateGitLinkArtifact(h, s, a) == Begin(h, s, a, "link")

(* storeUploadedArtifact refuses a kind or a name before the file exists,   *)
(* and a size, a content type or a broken container after; then the         *)
(* deferred function removes the file.                                      *)
OpenFile(h) ==
  /\ handler[h].pc = "open"
  /\ \/ files' = files \cup {handler[h].artifact} /\ Goto(h, "write")
     \/ UNCHANGED files /\ Answer(h)
  /\ UNCHANGED <<status, rows, used, faults>>

KeepFile(h) ==
  /\ handler[h].pc = "write"
  /\ \/ NoFault /\ UNCHANGED files /\ Goto(h, IF Parser THEN "parse" ELSE "commit")
     \/ NoFault /\ files' = files \ {handler[h].artifact} /\ Answer(h)
     \/ Fault("disk") /\ UNCHANGED files /\ Answer(h)
  /\ UNCHANGED <<status, rows, used>>

(* The parser may be unreachable or refuse.  On an error the caller's       *)
(* "stored" has been overwritten with the empty value, so the clean-up is   *)
(* given no key and the file stays.                                         *)
MaybeParseWithArtifactParser(h) ==
  /\ handler[h].pc = "parse"
  /\ \/ Goto(h, "commit") /\ NoFault
     \/ Answer(h) /\ Fault("refusal")
  /\ UNCHANGED <<status, rows, files, used>>

(* Variant: the file is not removed after a failed transaction. *)
FailWithoutCleanup(h) ==
  /\ handler[h].pc = "cleanup"
  /\ Answer(h)
  /\ UNCHANGED <<status, rows, files, used, faults>>

CleanupStoredArtifact(h) ==
  /\ handler[h].pc = "cleanup"
  /\ \/ NoFault /\ files' = files \ {handler[h].artifact}
     \/ Fault("disk") /\ UNCHANGED files
  /\ Answer(h)
  /\ UNCHANGED <<status, rows, used>>

(* Artifact, extraction, parse job, the submission's status and the audit   *)
(* row in one transaction.  A link's extraction is complete at once, a      *)
(* file's is queued.                                                        *)
InsertRows(h) ==
  LET upload == handler[h].pc = "commit" IN
  /\ rows' = rows \cup {[artifact |-> handler[h].artifact, submission |-> handler[h].submission,
                         keyed |-> upload]}
  /\ status' = [status EXCEPT ![handler[h].submission] = IF upload THEN "parsing" ELSE "parsed"]

(* Variant: the answer is given, and the clean-up made, whatever the result. *)
CommitAndCleanup(h) ==
  LET pc == handler[h].pc IN
  /\ pc \in {"commit", "link"}
  /\ InsertRows(h)
  /\ NoFault
  /\ IF pc = "link" THEN Answer(h) ELSE Goto(h, "cleanup")
  /\ UNCHANGED <<files, used>>

(* After a lost reply of the commit the handler believes nothing was stored. *)
CreateArtifact(h) ==
  LET pc == handler[h].pc IN
  /\ pc \in {"commit", "link"}
  /\ \/ InsertRows(h) /\ NoFault /\ Answer(h)
     \/ /\ \/ Fault("database") /\ UNCHANGED <<rows, status>>
           \/ Fault("reply") /\ InsertRows(h)
        /\ IF pc = "link" THEN Answer(h) ELSE Goto(h, "cleanup")
  /\ UNCHANGED <<files, used>>

(* The process dies: rows and files stay, requests are gone.                *)
Crash ==
  /\ Fault("crash")
  /\ handler' = [h \in Handlers |-> Idle]
  /\ UNCHANGED <<status, rows, files, used>>

HandlerStep(h) ==
  \/ \E s \in Submissions : CreateSubmission(h, s)
  \/ InsertSubmission(h)
  \/ \E s \in Submissions, a \in Artifacts : UploadArtifact(h, s, a)
  \/ \E s \in Submissions, a \in Artifacts : CreateGitLinkArtifact(h, s, a)
  \/ OpenFile(h)
  \/ KeepFile(h)
  \/ MaybeParseWithArtifactParser(h)
  \/ CreateArtifact(h)
  \/ CleanupStoredArtifact(h)

Next == (\E h \in Handlers : HandlerStep(h)) \/ Crash

Spec == Init /\ [][Next]_vars

-----------------------------------------------------------------------------
(* Safety *)

(* Requests that counted the rows race with each other, so the limit may be *)
(* passed, but by no more than the number of other handlers.                *)
OverflowBounded ==
  \A s \in Submissions : Cardinality(Stored(s)) < MaxArtifacts + Cardinality(Handlers)

(* A row that names a file has that file, whichever request fails, is       *)
(* refused or dies on the way, as long as no reply of a commit is lost.     *)
RowsHaveFiles == "reply" \notin faults => \A r \in rows : r.keyed => r.artifact \in files

AtWork(a) == \E h \in Handlers : handler[h].artifact = a

Stray == {a \in files : ~AtWork(a) /\ \A r \in rows : r.artifact # a}

(* A file that no row names belongs to a request still at work: failed      *)
(* transactions, lost replies and refusals of the content leave nothing in  *)
(* the store.  A crash, a disk that will not remove and the parser may.     *)
NoStrayFile == faults \cap {"crash", "disk", "refusal"} = {} => Stray = {}

(* The clean-up after a refusal of the parser is there to remove the file.  *)
RefusedLeavesNoFile == faults \cap {"crash", "disk"} = {} => Stray = {}

-----------------------------------------------------------------------------
(* The inductive invariants behind the safety properties.                   *)

(* An artifact id is in the hands of one handler, which drew it, and only   *)
(* that handler writes its file and its row.                                *)
OwnArtifact ==
  /\ files \subseteq used
  /\ \A r \in rows : r.artifact \in used
  /\ \A h \in Handlers :
       LET a == handler[h].artifact IN
       IF handler[h].pc \in {"idle", "create"}
       THEN a = None
       ELSE a \in used /\ \A g \in Handlers : handler[g].artifact = a => g = h
  /\ \A h \in Handlers : handler[h].pc \in {"open", "link"} => handler[h].artifact \notin files
  /\ \A h \in Handlers : handler[h].pc # "idle" => handler[h].submission \in Submissions

(* What the next step of an upload relies on if no reply of a commit is lost. *)
Undecided ==
  "reply" \notin faults =>
    \A h \in Handlers :
      /\ \A r \in rows : r.artifact # handler[h].artifact
      /\ handler[h].pc \in {"write", "parse", "commit"} => handler[h].artifact \in files

(* Requests that have passed the test of the limit and may still store a    *)
(* row.  Stored and pending together never pass the limit by more.          *)
Pending(s) ==
  {h \in Handlers : handler[h].submission = s
                      /\ handler[h].pc \in {"open", "write", "parse", "commit", "link"}}

RoomReserved ==
  /\ IsFiniteSet(rows)
  /\ \A s \in Submissions :
       Cardinality(Stored(s)) + Cardinality(Pending(s)) < MaxArtifacts + Cardinality(Handlers)
=============================================================================
