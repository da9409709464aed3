--------------------------- MODULE TeacherReview ---------------------------
(***************************************************************************)
(* Teacher reviews of submissions: saving drafts, publishing, and reading  *)
(* them, by concurrent request handlers of a READ COMMITTED database.      *)
(*                                                                         *)
(* A save or a publication is one transaction; what it writes is private   *)
(* until the commit, so the steps here are the points where transactions   *)
(* meet: the row lock of SELECT ... FOR UPDATE, the key lock of a pending  *)
(* INSERT, the commit.  A read is two statements outside a transaction.    *)
(*                                                                         *)
(* The triggers of migration 000005 that refuse to touch published rows    *)
(* are left out: what holds here holds by the transactions alone.          *)
(***************************************************************************)
EXTENDS Naturals, Sequences, FiniteSets

CONSTANTS
  Submissions,  \* submissions under review
  Handlers,     \* handler goroutines, each acting for a user
  MaxSaves,     \* bound: saves begun in a behaviour
  None          \* nobody

ASSUME ReviewAssumption == MaxSaves \in Nat /\ None \notin Handlers

VARIABLES
  reviews,  \* rows of teacher_reviews
  scores,   \* rows of teacher_metric_scores, those of one save as one
  audit,    \* audit_logs
  locks,    \* holder of the row lock or of the pending key, by submission
  req,      \* local state of every handler
  saves     \* saves begun so far; also the supply of ids and contents

vars == <<reviews, scores, audit, locks, req, saves>>

Contents == 0..MaxSaves

(* A review is identified by the number of the save that inserted it; its   *)
(* content (total and comment) by the number of the save that wrote it.     *)
Reviews == [id : Contents, submission : Submissions, status : {"draft", "published"},
            content : Contents, publisher : Handlers \cup {None}]

(* The metric scores of one save, under the review they belong to.          *)
ScoreRows == [review : Contents, content : Contents]

AuditRows == [action : {"upsert", "publish"}, submission : Submissions, review : Contents]

Steps == {"idle", "lock", "insert", "save", "publish", "confirm", "scores", "answer"}

NoAnswer == [status |-> "draft", content |-> 0, scores |-> {}]

Answers == [status : {"draft", "published"}, content : Contents, scores : SUBSET Contents]

Requests == [pc : Steps, submission : Submissions \cup {None}, review : Contents,
             content : Contents, student : BOOLEAN, answer : Answers]

NoRequest == [pc |-> "idle", submission |-> None, review |-> 0, content |-> 0,
              student |-> FALSE, answer |-> NoAnswer]

TypeOK ==
  /\ reviews \subseteq Reviews
  /\ scores \subseteq ScoreRows
  /\ audit \in Seq(AuditRows)
  /\ locks \in [Submissions -> Handlers \cup {None}]
  /\ req \in [Handlers -> Requests]
  /\ saves \in Contents

Init ==
  /\ reviews = {}
  /\ scores = {}
  /\ audit = <<>>
  /\ locks = [s \in Submissions |-> None]
  /\ req = [h \in Handlers |-> NoRequest]
  /\ saves = 0

-----------------------------------------------------------------------------
(* Rows and locks *)

RowsOf(s) == {r \in reviews : r.submission = s}

(* Variant: any review that exists may be saved and published again. *)
Reopened(r) == r \in reviews

IsDraft(r) == r.status = "draft"

Drafts(s) == {r \in RowsOf(s) : IsDraft(r)}

Free(s) == locks[s] = None

Lock(s, h) == locks' = [locks EXCEPT ![s] = h]

(* Variant: a transaction ends without giving its lock back. *)
KeepLock(h) == h \in Handlers /\ UNCHANGED locks

(* What the end of a transaction releases. *)
Release(h) == locks' = [s \in Submissions |-> IF locks[s] = h THEN None ELSE locks[s]]

Begin(h, s, pc) ==
  /\ req[h].pc = "idle"
  /\ req' = [req EXCEPT ![h] = [NoRequest EXCEPT !.pc = pc, !.submission = s]]

Goto(h, pc) == req' = [req EXCEPT ![h].pc = pc]

End(h) == req' = [req EXCEPT ![h] = NoRequest]

Replace(old, new) == reviews' = (reviews \ {old}) \cup {new}

Log(action, s, review) ==
  audit' = Append(audit, [action |-> action, submission |-> s, review |-> review])

-----------------------------------------------------------------------------
(* Saving a draft *)

(* The service has checked access and scores and made a new id. *)
UpsertTeacherReview(h, s) ==
  /\ saves < MaxSaves
  /\ saves' = saves + 1
  /\ req[h].pc = "idle"
  /\ req' = [req EXCEPT ![h] = [NoRequest EXCEPT !.pc = "lock", !.submission = s,
                                                !.review = saves + 1, !.content = saves + 1]]
  /\ UNCHANGED <<reviews, scores, audit, locks>>

(* SELECT ... FOR UPDATE waits for the lock of a row; there is nothing to   *)
(* lock before the first insert commits.                                    *)
SelectForUpdate(h) ==
  LET s == req[h].submission IN
  /\ req[h].pc = "lock"
  /\ \/ RowsOf(s) = {} /\ Goto(h, "insert") /\ UNCHANGED locks
     \/ /\ Free(s)
        /\ \E r \in RowsOf(s) :
             \/ /\ IsDraft(r)
                /\ Lock(s, h)
                /\ req' = [req EXCEPT ![h].pc = "save", ![h].review = r.id]
             \/ ~IsDraft(r) /\ End(h) /\ UNCHANGED locks
  /\ UNCHANGED <<reviews, scores, audit, saves>>

(* Variant: no unique key on submission_id. *)
InsertWithoutKey(h) ==
  /\ req[h].pc = "insert"
  /\ Lock(req[h].submission, h)
  /\ Goto(h, "save")
  /\ UNCHANGED <<reviews, scores, audit, saves>>

(* INSERT fails on the unique key when a row has appeared meanwhile, and    *)
(* waits for the outcome of a pending insert of the same key.               *)
InsertReview(h) ==
  LET s == req[h].submission IN
  /\ req[h].pc = "insert"
  /\ \/ RowsOf(s) # {} /\ End(h) /\ UNCHANGED locks
     \/ RowsOf(s) = {} /\ Free(s) /\ Lock(s, h) /\ Goto(h, "save")
  /\ UNCHANGED <<reviews, scores, audit, saves>>

(* Variant: the scores of the earlier save are not deleted. *)
SaveKeepingScores(h) ==
  LET q == req[h]
      saved == [id |-> q.review, submission |-> q.submission, status |-> "draft",
                content |-> q.content, publisher |-> None]
  IN
  /\ q.pc = "save"
  /\ reviews' = {r \in reviews : r.id # q.review} \cup {saved}
  /\ scores' = scores \cup {[review |-> q.review, content |-> q.content]}
  /\ Log("upsert", q.submission, q.content)
  /\ Release(h)
  /\ End(h)
  /\ UNCHANGED saves

(* The row is inserted or, still a draft, updated; its scores are replaced; *)
(* the audit row is the one prepared before, with the id made then.         *)
CommitSave(h) ==
  LET q == req[h]
      saved == [id |-> q.review, submission |-> q.submission, status |-> "draft",
                content |-> q.content, publisher |-> None]
      old == {r \in reviews : r.id = q.review}
  IN
  /\ q.pc = "save"
  /\ \A r \in old : IsDraft(r)
  /\ reviews' = (reviews \ old) \cup {saved}
  /\ scores' = {x \in scores : x.review # q.review}
                 \cup {[review |-> q.review, content |-> q.content]}
  /\ Log("upsert", q.submission, q.content)
  /\ Release(h)
  /\ End(h)
  /\ UNCHANGED saves

-----------------------------------------------------------------------------
(* Publishing *)

PublishTeacherReview(h, s) ==
  /\ Begin(h, s, "publish")
  /\ UNCHANGED <<reviews, scores, audit, locks, saves>>

(* UPDATE ... WHERE status = 'draft' waits for the lock of a draft and      *)
(* looks at the row again when it has it.                                   *)
UpdatePublished(h) ==
  LET s == req[h].submission IN
  /\ req[h].pc = "publish"
  /\ \/ Drafts(s) = {} /\ End(h) /\ UNCHANGED locks
     \/ /\ Free(s)
        /\ \E r \in Drafts(s) :
             /\ Lock(s, h)
             /\ req' = [req EXCEPT ![h].pc = "confirm", ![h].review = r.id]
  /\ UNCHANGED <<reviews, scores, audit, saves>>

(* A review without metric scores is not published; Rollback ends it.       *)
CommitPublish(h) ==
  LET q == req[h] IN
  /\ q.pc = "confirm"
  /\ \E x \in scores : x.review = q.review
  /\ \E r \in reviews :
       /\ r.id = q.review
       /\ Replace(r, [r EXCEPT !.status = "published", !.publisher = h])
  /\ Log("publish", q.submission, 0)
  /\ Release(h)
  /\ End(h)
  /\ UNCHANGED <<scores, saves>>

(* A statement fails, the commit fails, or the client goes away.            *)
Rollback(h) ==
  /\ req[h].pc \notin {"idle", "answer"}
  /\ Release(h)
  /\ End(h)
  /\ UNCHANGED <<reviews, scores, audit, saves>>

-----------------------------------------------------------------------------
(* Reading: the row, then its scores, in two statements *)

(* Variant: students are read the row whatever its status. *)
ReadAnyRow(h, s, student) ==
  /\ req[h].pc = "idle"
  /\ \E r \in RowsOf(s) :
       req' = [req EXCEPT ![h] =
                [NoRequest EXCEPT !.pc = "scores", !.submission = s, !.review = r.id,
                   !.student = student,
                   !.answer = [status |-> r.status, content |-> r.content, scores |-> {}]]]
  /\ UNCHANGED <<reviews, scores, audit, locks, saves>>

GetTeacherReview(h, s, student) ==
  /\ req[h].pc = "idle"
  /\ \E r \in RowsOf(s) :
       /\ student => r.status = "published"
       /\ req' = [req EXCEPT ![h] =
                   [NoRequest EXCEPT !.pc = "scores", !.submission = s, !.review = r.id,
                      !.student = student,
                      !.answer = [status |-> r.status, content |-> r.content, scores |-> {}]]]
  /\ UNCHANGED <<reviews, scores, audit, locks, saves>>

LoadTeacherMetricScores(h) ==
  /\ req[h].pc = "scores"
  /\ req' = [req EXCEPT ![h].pc = "answer",
                        ![h].answer.scores = {x.content : x \in {y \in scores : y.review = req[h].review}}]
  /\ UNCHANGED <<reviews, scores, audit, locks, saves>>

Respond(h) ==
  /\ req[h].pc = "answer"
  /\ End(h)
  /\ UNCHANGED <<reviews, scores, audit, locks, saves>>

-----------------------------------------------------------------------------
Arrive(h, s) ==
  \/ UpsertTeacherReview(h, s)
  \/ PublishTeacherReview(h, s)
  \/ \E student \in BOOLEAN : GetTeacherReview(h, s, student)

Work(h) ==
  \/ SelectForUpdate(h)
  \/ InsertReview(h)
  \/ CommitSave(h)
  \/ UpdatePublished(h)
  \/ CommitPublish(h)
  \/ LoadTeacherMetricScores(h)
  \/ Respond(h)

Next == \E h \in Handlers : Work(h) \/ Rollback(h) \/ \E s \in Submissions : Arrive(h, s)

(* A handler goes on while it can, and locks are granted in the order they  *)
(* were asked for.  No request has to arrive and none has to be rolled back. *)
Spec == Init /\ [][Next]_vars /\ \A h \in Handlers : SF_vars(Work(h))

-----------------------------------------------------------------------------
(* Safety *)

(* Two teachers who save a submission for the first time at once do not     *)
(* give it two reviews.                                                     *)
OneReviewPerSubmission ==
  \A q, r \in reviews : q.submission = r.submission \/ q.id = r.id => q = r

(* The stored metric scores are those of the save whose total and comment   *)
(* the review shows, whatever saves and publications raced with each other. *)
ScoresMatchReview ==
  /\ \A r \in reviews : [review |-> r.id, content |-> r.content] \in scores
  /\ \A x \in scores : \E r \in reviews : r.id = x.review /\ r.content = x.content

(* A student is shown a published review with exactly the scores it was     *)
(* published with, although row and scores are read by two statements.      *)
StudentSeesWholeReview ==
  \A h \in Handlers :
    req[h].pc = "answer" /\ req[h].student =>
      /\ req[h].answer.status = "published"
      /\ req[h].answer.scores = {req[h].answer.content}

(* Of racing publications one takes effect, and it alone is logged.         *)
PublishedOnce ==
  \A s \in Submissions :
    LET logged == {i \in DOMAIN audit : audit[i].action = "publish" /\ audit[i].submission = s}
    IN  /\ \A i, k \in logged : i = k
        /\ (logged # {}) <=> \E r \in RowsOf(s) : r.status = "published"

-----------------------------------------------------------------------------
(* Action properties *)

(* Published reviews and their scores never change or go away.              *)
PublishedStays ==
  [][\A r \in reviews : r.status = "published" =>
       /\ r \in reviews'
       /\ \A x \in scores \cup scores' : x.review = r.id => x \in scores \cap scores']_vars

-----------------------------------------------------------------------------
(* Liveness *)

(* No handler waits for a lock for ever.                                    *)
RequestsEnd == \A h \in Handlers : (req[h].pc # "idle") ~> (req[h].pc = "idle")
=============================================================================
