------------------------ MODULE TeacherReview_proofs ------------------------
(* Proofs about saving, publishing and reading teacher reviews, for any      *)
(* number of submissions, handlers and saves.                                *)
(*                                                                           *)
(* What a transaction has seen under its lock stays true until it commits,   *)
(* because every other transaction that could change it needs the same lock. *)
(* OnCourse says this handler by handler; only a commit changes the tables.  *)
EXTENDS TeacherReview, TLAPS

-----------------------------------------------------------------------------
(* The inductive invariant *)

Saving == {"lock", "insert", "save"}

(* Where a request is and what it relies on there.  A new id belongs to no   *)
(* review.  A transaction about to commit holds the lock of its submission:  *)
(* a save has found no review of it, or a draft, a publication a draft.  A   *)
(* student's answer was taken from a review that was published already.      *)
OnCourse(h) ==
  LET q == req[h] IN
  /\ q.pc \in Saving \cup {"publish", "confirm"} => q.submission \in Submissions
  /\ q.pc \in Saving => q.content <= saves /\ \A r \in reviews : r.id # q.content
  /\ q.pc \in {"lock", "insert"} => q.review = q.content
  /\ q.pc \in {"save", "confirm"} => locks[q.submission] = h
  /\ q.pc = "save" => \/ q.review = q.content /\ RowsOf(q.submission) = {}
                      \/ \E r \in Drafts(q.submission) : r.id = q.review
  /\ q.pc = "confirm" => \E r \in Drafts(q.submission) : r.id = q.review
  /\ q.pc \in {"scores", "answer"} /\ q.student =>
       /\ q.answer.status = "published"
       /\ \E r \in reviews : r.id = q.review /\ r.status = "published" /\ r.content = q.answer.content
  /\ q.pc = "answer" /\ q.student => q.answer.scores = {q.answer.content}

(* No two saves under way have the same id.                                  *)
ContentsApart ==
  \A h, k \in Handlers :
    req[h].pc \in Saving /\ req[k].pc \in Saving /\ req[h].content = req[k].content => h = k

IdsGiven == \A r \in reviews : r.id <= saves

Tables == OneReviewPerSubmission /\ ScoresMatchReview /\ PublishedOnce /\ IdsGiven

ReviewInv ==
  /\ TypeOK
  /\ Tables
  /\ ContentsApart
  /\ \A h \in Handlers : OnCourse(h)

-----------------------------------------------------------------------------
(* Rows and steps *)

OthersWait(h) == \A k \in Handlers \ {h} : req'[k] = req[k] /\ \A s \in Submissions : locks[s] = k => locks'[s] = k

LEMMA NoRequestTyped == NoRequest \in Requests /\ NoAnswer \in Answers
  BY ReviewAssumption DEF NoRequest, NoAnswer, Requests, Answers, Steps, Contents

(* The end of a request: its lock goes, the others keep theirs.              *)
LEMMA Ends ==
  ASSUME TypeOK, NEW h \in Handlers, End(h), Release(h) \/ UNCHANGED locks
  PROVE  /\ req' \in [Handlers -> Requests] /\ req'[h] = NoRequest
         /\ locks' \in [Submissions -> Handlers \cup {None}]
         /\ OthersWait(h)
  BY NoRequestTyped, ReviewAssumption DEF TypeOK, End, Release, OthersWait

(* A handler goes on, taking the lock of its submission or none.             *)
LEMMA Moves ==
  ASSUME TypeOK, NEW h \in Handlers, NEW q \in Requests, req' = [req EXCEPT ![h] = q],
         \/ UNCHANGED locks
         \/ \E s \in Submissions : Free(s) /\ Lock(s, h)
  PROVE  /\ req' \in [Handlers -> Requests] /\ req'[h] = q
         /\ locks' \in [Submissions -> Handlers \cup {None}]
         /\ OthersWait(h)
  BY ReviewAssumption DEF TypeOK, Free, Lock, OthersWait

(* While the tables stay, what another handler relies on stays.              *)
LEMMA OthersOnCourse ==
  ASSUME TypeOK, NEW k \in Handlers, OnCourse(k), req'[k] = req[k],
         \A s \in Submissions : locks[s] = k => locks'[s] = k,
         UNCHANGED reviews, saves' \in Nat, saves <= saves'
  PROVE  OnCourse(k)'
<1> DEFINE q == req[k]
<1>1. q \in Requests /\ saves \in Nat /\ q.content \in Nat
  BY ReviewAssumption DEF TypeOK, Requests, Contents
<1>2. \A s : RowsOf(s)' = RowsOf(s) /\ Drafts(s)' = Drafts(s)
  BY DEF RowsOf, Drafts
<1>3. q.pc \in {"save", "confirm"} => locks'[q.submission] = k
  BY DEF OnCourse, Saving
<1> QED BY <1>1, <1>2, <1>3 DEF OnCourse

(* A step of one handler that leaves the tables alone.                       *)
LEMMA HandlerMoves ==
  ASSUME ReviewInv, NEW h \in Handlers, UNCHANGED <<reviews, scores, audit>>,
         saves' \in Contents, saves <= saves',
         req' \in [Handlers -> Requests], locks' \in [Submissions -> Handlers \cup {None}],
         OthersWait(h), OnCourse(h)',
         req'[h].pc \in Saving =>
           \/ req[h].pc \in Saving /\ req'[h].content = req[h].content
           \/ \A k \in Handlers : req[k].pc \in Saving => req[k].content # req'[h].content
  PROVE  ReviewInv'
<1>1. TypeOK'
  BY DEF ReviewInv, TypeOK
<1>2. Tables'
  <2>1. saves \in Nat /\ saves' \in Nat /\ \A r \in reviews : r.id \in Nat
    BY ReviewAssumption DEF ReviewInv, TypeOK, Contents, Reviews
  <2>2. IdsGiven'
    BY <2>1 DEF ReviewInv, Tables, IdsGiven
  <2> QED BY <2>2 DEF ReviewInv, Tables, OneReviewPerSubmission, ScoresMatchReview, PublishedOnce, RowsOf
<1>3. ContentsApart'
  BY DEF ReviewInv, ContentsApart, OthersWait
<1>4. ASSUME NEW k \in Handlers \ {h} PROVE OnCourse(k)'
  <2>1. saves' \in Nat
    BY ReviewAssumption DEF Contents
  <2> QED BY <2>1, OthersOnCourse DEF ReviewInv, OthersWait
<1> QED BY <1>1, <1>2, <1>3, <1>4 DEF ReviewInv

(* A request that is over relies on nothing.                                 *)
LEMMA EndKeeps ==
  ASSUME ReviewInv, NEW h \in Handlers, End(h), Release(h) \/ UNCHANGED locks,
         UNCHANGED <<reviews, scores, audit, saves>>
  PROVE  ReviewInv'
<1>1. /\ req' \in [Handlers -> Requests] /\ req'[h] = NoRequest
      /\ locks' \in [Submissions -> Handlers \cup {None}]
      /\ OthersWait(h)
  BY Ends DEF ReviewInv
<1>2. req'[h].pc = "idle"
  BY <1>1 DEF NoRequest
<1>3. OnCourse(h)'
  BY <1>2 DEF OnCourse, Saving
<1>4. saves' \in Contents /\ saves <= saves'
  BY ReviewAssumption DEF ReviewInv, TypeOK, Contents
<1> QED BY <1>1, <1>2, <1>3, <1>4, HandlerMoves DEF Saving

-----------------------------------------------------------------------------
(* Steps that commit nothing *)

LEMMA UpsertKeeps ==
  ASSUME ReviewInv, NEW h \in Handlers, NEW s \in Submissions, UpsertTeacherReview(h, s)
  PROVE  ReviewInv'
<1> DEFINE q == [NoRequest EXCEPT !.pc = "lock", !.submission = s,
                                  !.review = saves + 1, !.content = saves + 1]
<1>1. saves \in Nat /\ saves' = saves + 1 /\ saves' \in Contents
  BY ReviewAssumption DEF ReviewInv, TypeOK, Contents, UpsertTeacherReview
<1>2. q \in Requests
  BY <1>1, NoRequestTyped DEF NoRequest, Requests, Steps
<1>3. req' = [req EXCEPT ![h] = q] /\ UNCHANGED <<reviews, scores, audit, locks>>
  BY DEF UpsertTeacherReview
<1>4. /\ req' \in [Handlers -> Requests] /\ req'[h] = q
      /\ locks' \in [Submissions -> Handlers \cup {None}] /\ OthersWait(h)
  BY <1>2, <1>3, Moves DEF ReviewInv
<1>5. q.pc = "lock" /\ q.submission = s /\ q.review = saves + 1 /\ q.content = saves + 1
  BY DEF NoRequest
<1>6. OnCourse(h)'
  <2>1. \A r \in reviews : r.id # saves + 1
    BY <1>1, ReviewAssumption DEF ReviewInv, TypeOK, Tables, IdsGiven, Reviews, Contents
  <2> QED BY <1>1, <1>3, <1>4, <1>5, <2>1 DEF OnCourse, Saving
<1>7. \A k \in Handlers : req[k].pc \in Saving => req[k].content # saves + 1
  <2>1. \A k \in Handlers : req[k].content \in Nat
    BY ReviewAssumption DEF ReviewInv, TypeOK, Requests, Contents
  <2> QED BY <1>1, <2>1 DEF ReviewInv, OnCourse
<1>8. saves <= saves'
  BY <1>1
<1> HIDE DEF q
<1> QED BY <1>1, <1>3, <1>4, <1>5, <1>6, <1>7, <1>8, HandlerMoves

LEMMA SelectKeeps ==
  ASSUME ReviewInv, NEW h \in Handlers, SelectForUpdate(h)
  PROVE  ReviewInv'
<1> DEFINE s == req[h].submission
<1> USE DEF ReviewInv
<1>1. /\ req[h] \in Requests /\ req[h].pc = "lock" /\ OnCourse(h) /\ s \in Submissions
      /\ UNCHANGED <<reviews, scores, audit, saves>>
  BY DEF SelectForUpdate, TypeOK, OnCourse, Saving
<1>2. saves' \in Contents /\ saves <= saves'
  BY <1>1, ReviewAssumption DEF TypeOK, Contents
<1>3. CASE RowsOf(s) = {} /\ Goto(h, "insert") /\ UNCHANGED locks
  <2> DEFINE q == [req[h] EXCEPT !.pc = "insert"]
  <2>1. q \in Requests /\ req' = [req EXCEPT ![h] = q]
    BY <1>1, <1>3 DEF Requests, Steps, Goto
  <2>2. /\ req' \in [Handlers -> Requests] /\ req'[h] = q
        /\ locks' \in [Submissions -> Handlers \cup {None}] /\ OthersWait(h)
    BY <2>1, <1>3, Moves
  <2>3. OnCourse(h)' /\ q.content = req[h].content
    BY <1>1, <1>3, <2>2 DEF OnCourse, Saving, Requests
  <2> QED BY <1>1, <1>2, <2>2, <2>3, HandlerMoves DEF Saving
<1>4. CASE \E r \in RowsOf(s) : ~IsDraft(r) /\ End(h) /\ UNCHANGED locks
  BY <1>1, <1>4, EndKeeps
<1>5. ASSUME Free(s), NEW r \in RowsOf(s), IsDraft(r), Lock(s, h),
             req' = [req EXCEPT ![h].pc = "save", ![h].review = r.id]
      PROVE  ReviewInv'
  <2> DEFINE q == [req[h] EXCEPT !.pc = "save", !.review = r.id]
  <2>1. q \in Requests /\ req' = [req EXCEPT ![h] = q]
    BY <1>1, <1>5 DEF TypeOK, Requests, Steps, RowsOf, Reviews
  <2>2. /\ req' \in [Handlers -> Requests] /\ req'[h] = q
        /\ locks' \in [Submissions -> Handlers \cup {None}] /\ OthersWait(h)
    BY <1>1, <1>5, <2>1, Moves
  <2>3. /\ q.pc = "save" /\ q.submission = s /\ q.review = r.id /\ q.content = req[h].content
        /\ locks'[s] = h
    BY <1>1, <1>5 DEF Requests, Lock, TypeOK
  <2>4. r \in Drafts(s) /\ \A x : RowsOf(x)' = RowsOf(x) /\ Drafts(x)' = Drafts(x)
    BY <1>1, <1>5 DEF Drafts, RowsOf
  <2>5. OnCourse(h)'
    BY <1>1, <2>2, <2>3, <2>4 DEF OnCourse, Saving
  <2> QED BY <1>1, <1>2, <2>2, <2>3, <2>5, HandlerMoves DEF Saving
<1> QED BY <1>3, <1>4, <1>5 DEF SelectForUpdate

LEMMA InsertKeeps ==
  ASSUME ReviewInv, NEW h \in Handlers, InsertReview(h)
  PROVE  ReviewInv'
<1> DEFINE s == req[h].submission
<1> USE DEF ReviewInv
<1>1. /\ req[h] \in Requests /\ req[h].pc = "insert" /\ OnCourse(h) /\ s \in Submissions
      /\ UNCHANGED <<reviews, scores, audit, saves>>
  BY DEF InsertReview, TypeOK, OnCourse, Saving
<1>2. saves' \in Contents /\ saves <= saves'
  BY <1>1, ReviewAssumption DEF TypeOK, Contents
<1>3. CASE RowsOf(s) # {} /\ End(h) /\ UNCHANGED locks
  BY <1>1, <1>3, EndKeeps
<1>4. CASE RowsOf(s) = {} /\ Free(s) /\ Lock(s, h) /\ Goto(h, "save")
  <2> DEFINE q == [req[h] EXCEPT !.pc = "save"]
  <2>1. q \in Requests /\ req' = [req EXCEPT ![h] = q]
    BY <1>1, <1>4 DEF Requests, Steps, Goto
  <2>2. /\ req' \in [Handlers -> Requests] /\ req'[h] = q
        /\ locks' \in [Submissions -> Handlers \cup {None}] /\ OthersWait(h)
    BY <1>1, <1>4, <2>1, Moves
  <2>3. /\ q.pc = "save" /\ q.submission = s /\ q.review = req[h].review
        /\ q.content = req[h].content /\ locks'[s] = h
    BY <1>1, <1>4 DEF Requests, Lock, TypeOK
  <2>4. \A x : RowsOf(x)' = RowsOf(x)
    BY <1>1 DEF RowsOf
  <2>5. OnCourse(h)'
    BY <1>1, <1>4, <2>2, <2>3, <2>4 DEF OnCourse, Saving
  <2> QED BY <1>1, <1>2, <2>2, <2>3, <2>5, HandlerMoves DEF Saving
<1> QED BY <1>3, <1>4 DEF InsertReview

LEMMA PublishKeeps ==
  ASSUME ReviewInv, NEW h \in Handlers, NEW s \in Submissions, PublishTeacherReview(h, s)
  PROVE  ReviewInv'
<1> DEFINE q == [NoRequest EXCEPT !.pc = "publish", !.submission = s]
<1>1. q \in Requests /\ q.pc = "publish" /\ q.submission = s
  BY NoRequestTyped DEF NoRequest, Requests, Steps
<1>2. req' = [req EXCEPT ![h] = q] /\ UNCHANGED <<reviews, scores, audit, locks, saves>>
  BY DEF PublishTeacherReview, Begin
<1>3. /\ req' \in [Handlers -> Requests] /\ req'[h] = q
      /\ locks' \in [Submissions -> Handlers \cup {None}] /\ OthersWait(h)
  BY <1>1, <1>2, Moves DEF ReviewInv
<1>4. saves' \in Contents /\ saves <= saves'
  BY <1>2, ReviewAssumption DEF ReviewInv, TypeOK, Contents
<1>5. OnCourse(h)'
  BY <1>1, <1>3 DEF OnCourse, Saving
<1> HIDE DEF q
<1> QED BY <1>1, <1>2, <1>3, <1>4, <1>5, HandlerMoves DEF Saving

LEMMA UpdateKeeps ==
  ASSUME ReviewInv, NEW h \in Handlers, UpdatePublished(h)
  PROVE  ReviewInv'
<1> DEFINE s == req[h].submission
<1> USE DEF ReviewInv
<1>1. /\ req[h] \in Requests /\ req[h].pc = "publish" /\ OnCourse(h) /\ s \in Submissions
      /\ UNCHANGED <<reviews, scores, audit, saves>>
  BY DEF UpdatePublished, TypeOK, OnCourse, Saving
<1>2. saves' \in Contents /\ saves <= saves'
  BY <1>1, ReviewAssumption DEF TypeOK, Contents
<1>3. CASE Drafts(s) = {} /\ End(h) /\ UNCHANGED locks
  BY <1>1, <1>3, EndKeeps
<1>4. ASSUME Free(s), NEW r \in Drafts(s), Lock(s, h),
             req' = [req EXCEPT ![h].pc = "confirm", ![h].review = r.id]
      PROVE  ReviewInv'
  <2> DEFINE q == [req[h] EXCEPT !.pc = "confirm", !.review = r.id]
  <2>1. q \in Requests /\ req' = [req EXCEPT ![h] = q]
    BY <1>1, <1>4 DEF TypeOK, Requests, Steps, Drafts, RowsOf, Reviews
  <2>2. /\ req' \in [Handlers -> Requests] /\ req'[h] = q
        /\ locks' \in [Submissions -> Handlers \cup {None}] /\ OthersWait(h)
    BY <1>1, <1>4, <2>1, Moves
  <2>3. q.pc = "confirm" /\ q.submission = s /\ q.review = r.id /\ locks'[s] = h
    BY <1>1, <1>4 DEF Requests, Lock, TypeOK
  <2>4. \A x : Drafts(x)' = Drafts(x)
    BY <1>1 DEF Drafts, RowsOf
  <2>5. OnCourse(h)'
    BY <1>1, <2>2, <2>3, <2>4 DEF OnCourse, Saving
  <2> QED BY <1>1, <1>2, <2>2, <2>3, <2>5, HandlerMoves DEF Saving
<1> QED BY <1>3, <1>4 DEF UpdatePublished

-----------------------------------------------------------------------------
(* Readers *)

LEMMA GetKeeps ==
  ASSUME ReviewInv, NEW h \in Handlers, NEW s \in Submissions, NEW student \in BOOLEAN,
         GetTeacherReview(h, s, student)
  PROVE  ReviewInv'
<1>1. PICK r \in RowsOf(s) :
        /\ student => r.status = "published"
        /\ req' = [req EXCEPT ![h] =
                    [NoRequest EXCEPT !.pc = "scores", !.submission = s, !.review = r.id,
                       !.student = student,
                       !.answer = [status |-> r.status, content |-> r.content, scores |-> {}]]]
  BY DEF GetTeacherReview
<1> DEFINE a == [status |-> r.status, content |-> r.content, scores |-> {}]
           q == [NoRequest EXCEPT !.pc = "scores", !.submission = s, !.review = r.id,
                                  !.student = student, !.answer = a]
<1>2. r \in reviews /\ r \in Reviews
  BY DEF ReviewInv, TypeOK, RowsOf
<1>3. a \in Answers
  BY <1>2 DEF Answers, Reviews
<1>4. q \in Requests
  BY <1>2, <1>3, NoRequestTyped DEF NoRequest, Requests, Steps, Reviews
<1>5. q.pc = "scores" /\ q.review = r.id /\ q.student = student /\ q.answer = a
  BY DEF NoRequest
<1>6. UNCHANGED <<reviews, scores, audit, locks, saves>> /\ req' = [req EXCEPT ![h] = q]
  BY <1>1 DEF GetTeacherReview
<1>7. /\ req' \in [Handlers -> Requests] /\ req'[h] = q
      /\ locks' \in [Submissions -> Handlers \cup {None}] /\ OthersWait(h)
  BY <1>4, <1>6, Moves DEF ReviewInv
<1>8. saves' \in Contents /\ saves <= saves'
  BY <1>6, ReviewAssumption DEF ReviewInv, TypeOK, Contents
<1>9. OnCourse(h)'
  <2>1. a.status = r.status /\ a.content = r.content
    OBVIOUS
  <2> HIDE DEF a, q
  <2> QED BY <1>1, <1>2, <1>5, <1>6, <1>7, <2>1 DEF OnCourse, Saving
<1> HIDE DEF a, q
<1> QED BY <1>5, <1>6, <1>7, <1>8, <1>9, HandlerMoves DEF Saving

(* A published review has the scores of its content, and no others.          *)
LEMMA LoadKeeps ==
  ASSUME ReviewInv, NEW h \in Handlers, LoadTeacherMetricScores(h)
  PROVE  ReviewInv'
<1> DEFINE found == {x.content : x \in {y \in scores : y.review = req[h].review}}
           a == [req[h].answer EXCEPT !.scores = found]
           q == [req[h] EXCEPT !.pc = "answer", !.answer = a]
<1>1. /\ req[h] \in Requests /\ req[h].pc = "scores" /\ OnCourse(h)
      /\ UNCHANGED <<reviews, scores, audit, locks, saves>>
  BY DEF ReviewInv, LoadTeacherMetricScores, TypeOK
<1>2. found \in SUBSET Contents
  BY DEF ReviewInv, TypeOK, ScoreRows
<1>3. a \in Answers /\ a.status = req[h].answer.status /\ a.content = req[h].answer.content /\ a.scores = found
  <2> HIDE DEF found
  <2> QED BY <1>1, <1>2 DEF Requests, Answers
<1>4. /\ q \in Requests /\ q.pc = "answer" /\ q.answer = a
      /\ q.review = req[h].review /\ q.student = req[h].student
  <2> HIDE DEF a
  <2> QED BY <1>1, <1>3 DEF Requests, Steps
<1>5. req' = [req EXCEPT ![h] = q]
  BY <1>1 DEF LoadTeacherMetricScores, ReviewInv, TypeOK
<1>6. /\ req' \in [Handlers -> Requests] /\ req'[h] = q
      /\ locks' \in [Submissions -> Handlers \cup {None}] /\ OthersWait(h)
  BY <1>1, <1>4, <1>5, Moves DEF ReviewInv
<1>7. saves' \in Contents /\ saves <= saves'
  BY <1>1, ReviewAssumption DEF ReviewInv, TypeOK, Contents
<1>8. ASSUME req[h].student PROVE found = {req[h].answer.content}
  <2>1. PICK r \in reviews : r.id = req[h].review /\ r.content = req[h].answer.content
    BY <1>1, <1>8 DEF OnCourse
  <2>2. [review |-> r.id, content |-> r.content] \in scores
    BY DEF ReviewInv, Tables, ScoresMatchReview
  <2>3. \A x \in scores : x.review = r.id => x.content = r.content
    BY DEF ReviewInv, Tables, ScoresMatchReview, OneReviewPerSubmission
  <2> QED BY <2>1, <2>2, <2>3
<1>9. OnCourse(h)'
  <2> HIDE DEF a, q, found
  <2> QED BY <1>1, <1>3, <1>4, <1>6, <1>8 DEF OnCourse, Saving
<1> HIDE DEF a, q, found
<1> QED BY <1>1, <1>4, <1>6, <1>7, <1>9, HandlerMoves DEF Saving

-----------------------------------------------------------------------------
(* Commits *)

Others(s) == {r \in reviews : r.submission # s}

Publications(s) == {i \in DOMAIN audit : audit[i].action = "publish" /\ audit[i].submission = s}

(* What the action property says of one step.                                *)
Stays ==
  \A r \in reviews : r.status = "published" =>
    /\ r \in reviews'
    /\ \A x \in scores \cup scores' : x.review = r.id => x \in scores \cap scores'

LEMMA LogTyped ==
  ASSUME TypeOK, NEW action \in {"upsert", "publish"}, NEW s \in Submissions, NEW n \in Contents,
         Log(action, s, n)
  PROVE  /\ audit' \in Seq(AuditRows)
         /\ action = "upsert" => \A t : Publications(t)' = Publications(t)
         /\ action = "publish" => /\ Publications(s)' = Publications(s) \cup {Len(audit) + 1}
                                  /\ \A t : t # s => Publications(t)' = Publications(t)
<1> DEFINE row == [action |-> action, submission |-> s, review |-> n]
<1>1. row \in AuditRows /\ audit \in Seq(AuditRows) /\ audit' = Append(audit, row)
  BY DEF AuditRows, TypeOK, Log
<1>2. row.action = action /\ row.submission = s
  OBVIOUS
<1> HIDE DEF row
<1>3. /\ audit' \in Seq(AuditRows)
      /\ DOMAIN audit = 1..Len(audit) /\ DOMAIN audit' = 1..Len(audit) + 1 /\ Len(audit) \in Nat
      /\ audit'[Len(audit) + 1] = row
      /\ \A i \in DOMAIN audit : audit'[i] = audit[i]
  BY <1>1
<1> QED BY <1>2, <1>3 DEF Publications

(* The one review of a submission, all of whose rows were drafts, is         *)
(* replaced by the holder of its lock, or its first is inserted.             *)
LEMMA CommitKeeps ==
  ASSUME ReviewInv, NEW h \in Handlers, NEW s \in Submissions, NEW new \in Reviews,
         locks[s] = h, new.submission = s, new.id <= saves,
         reviews' = Others(s) \cup {new},
         \A r \in RowsOf(s) : IsDraft(r),
         \A r \in Others(s) : r.id # new.id,
         \A k \in Handlers \ {h} : req[k].pc \in Saving => req[k].content # new.id,
         End(h), Release(h), UNCHANGED saves
  PROVE  /\ reviews' \in SUBSET Reviews
         /\ OneReviewPerSubmission' /\ IdsGiven' /\ ContentsApart'
         /\ req' \in [Handlers -> Requests]
         /\ locks' \in [Submissions -> Handlers \cup {None}]
         /\ \A k \in Handlers : OnCourse(k)'
<1>1. reviews' \in SUBSET Reviews /\ OneReviewPerSubmission' /\ IdsGiven'
  BY DEF ReviewInv, TypeOK, Tables, OneReviewPerSubmission, IdsGiven, Others
<1>2. /\ req' \in [Handlers -> Requests] /\ req'[h] = NoRequest
      /\ locks' \in [Submissions -> Handlers \cup {None}]
      /\ OthersWait(h)
  BY Ends DEF ReviewInv
<1>3. req'[h].pc = "idle"
  BY <1>2 DEF NoRequest
<1>4. ContentsApart'
  BY <1>2, <1>3 DEF ReviewInv, ContentsApart, OthersWait, Saving
<1>5. OnCourse(h)'
  BY <1>3 DEF OnCourse, Saving
<1>6. ASSUME NEW k \in Handlers \ {h} PROVE OnCourse(k)'
  <2> DEFINE q == req[k]
  <2>1. req'[k] = q /\ OnCourse(k) /\ \A t \in Submissions : locks[t] = k => locks'[t] = k
    BY <1>2 DEF ReviewInv, OthersWait
  <2>2. \A t : t # s => RowsOf(t)' = RowsOf(t) /\ Drafts(t)' = Drafts(t)
    BY DEF RowsOf, Drafts, Others
  <2>3. \A r \in reviews : r.status = "published" => r \in reviews'
    BY DEF Others, RowsOf, IsDraft
  <2>4. q.pc \in {"save", "confirm"} => q.submission # s /\ locks'[q.submission] = k
    BY <2>1 DEF OnCourse, Saving
  <2>5. q.pc \in Saving => \A r \in reviews' : r.id # q.content
    BY <2>1 DEF OnCourse, Others
  <2> HIDE DEF q
  <2>6. q = req'[k]
    BY <2>1
  <2>7. /\ q.pc \in Saving \cup {"publish", "confirm"} => q.submission \in Submissions
        /\ q.pc \in Saving => q.content <= saves'
        /\ q.pc \in {"lock", "insert"} => q.review = q.content
        /\ q.pc = "answer" /\ q.student => q.answer.scores = {q.answer.content}
    BY <2>1 DEF OnCourse, q
  <2>8. /\ q.pc = "save" => \/ q.review = q.content /\ RowsOf(q.submission)' = {}
                            \/ \E r \in Drafts(q.submission)' : r.id = q.review
        /\ q.pc = "confirm" => \E r \in Drafts(q.submission)' : r.id = q.review
    BY <2>1, <2>2, <2>4 DEF OnCourse, q
  <2>9. q.pc \in {"scores", "answer"} /\ q.student =>
          /\ q.answer.status = "published"
          /\ \E r \in reviews' : r.id = q.review /\ r.status = "published" /\ r.content = q.answer.content
    BY <2>1, <2>3 DEF OnCourse, q
  <2> QED BY <2>4, <2>5, <2>6, <2>7, <2>8, <2>9 DEF OnCourse, q
<1> QED BY <1>1, <1>2, <1>4, <1>5, <1>6

LEMMA SaveKeeps ==
  ASSUME ReviewInv, NEW h \in Handlers, CommitSave(h)
  PROVE  ReviewInv' /\ Stays
<1> DEFINE q == req[h]
           saved == [id |-> q.review, submission |-> q.submission, status |-> "draft",
                     content |-> q.content, publisher |-> None]
           old == {r \in reviews : r.id = q.review}
           pair == [review |-> q.review, content |-> q.content]
<1>1. /\ q \in Requests /\ q.pc = "save" /\ OnCourse(h) /\ q.submission \in Submissions
      /\ locks[q.submission] = h
  BY DEF ReviewInv, CommitSave, TypeOK, OnCourse, Saving
<1>2. /\ reviews' = (reviews \ old) \cup {saved}
      /\ scores' = {x \in scores : x.review # q.review} \cup {pair}
      /\ Log("upsert", q.submission, q.content)
      /\ Release(h) /\ End(h) /\ UNCHANGED saves
  BY DEF CommitSave
<1>3. /\ saved \in Reviews /\ saved.submission = q.submission /\ saved.id = q.review
      /\ saved.status = "draft" /\ saved.content = q.content
      /\ pair \in ScoreRows /\ pair.review = q.review /\ pair.content = q.content
      /\ q.content \in Contents
  BY <1>1 DEF Requests, Reviews, ScoreRows
<1> HIDE DEF saved, pair
<1>4. /\ old = RowsOf(q.submission)
      /\ \A r \in old : IsDraft(r)
      /\ q.review <= saves
      /\ \A k \in Handlers \ {h} : req[k].pc \in Saving => req[k].content # q.review
  <2>1. CASE q.review = q.content /\ RowsOf(q.submission) = {}
    <3>1. old = {} /\ q.review <= saves
      BY <1>1, <2>1 DEF OnCourse, Saving
    <3>2. \A k \in Handlers \ {h} : req[k].pc \in Saving => req[k].content # q.content
      BY <1>1 DEF ReviewInv, ContentsApart, Saving
    <3> QED BY <2>1, <3>1, <3>2
  <2>2. ASSUME NEW d \in Drafts(q.submission), d.id = q.review
        PROVE  <1>4!1 /\ <1>4!2 /\ <1>4!3 /\ <1>4!4
    <3>1. d \in reviews /\ d.submission = q.submission /\ IsDraft(d)
      BY DEF Drafts, RowsOf
    <3>2. old = {d} /\ RowsOf(q.submission) = {d}
      BY <2>2, <3>1 DEF ReviewInv, Tables, OneReviewPerSubmission, RowsOf
    <3>3. q.review <= saves
      BY <2>2, <3>1 DEF ReviewInv, Tables, IdsGiven
    <3>4. \A k \in Handlers : req[k].pc \in Saving => req[k].content # q.review
      BY <2>2, <3>1 DEF ReviewInv, OnCourse
    <3> QED BY <3>1, <3>2, <3>3, <3>4
  <2> QED BY <1>1, <2>1, <2>2 DEF OnCourse
<1>5. reviews' = Others(q.submission) \cup {saved}
  BY <1>2, <1>4 DEF Others, RowsOf
<1>6. \A r \in Others(q.submission) : r \in reviews /\ r \notin old /\ r.id # q.review
  BY <1>4 DEF Others, RowsOf
<1>7. /\ reviews' \in SUBSET Reviews
      /\ OneReviewPerSubmission' /\ IdsGiven' /\ ContentsApart'
      /\ req' \in [Handlers -> Requests]
      /\ locks' \in [Submissions -> Handlers \cup {None}]
      /\ \A k \in Handlers : OnCourse(k)'
  BY <1>1, <1>2, <1>3, <1>4, <1>5, <1>6, CommitKeeps
<1>8. /\ audit' \in Seq(AuditRows)
      /\ \A t : Publications(t)' = Publications(t)
  BY <1>1, <1>2, <1>3, LogTyped DEF ReviewInv
<1>9. TypeOK'
  BY <1>2, <1>3, <1>7, <1>8 DEF ReviewInv, TypeOK
<1>10. ScoresMatchReview'
  <2>1. \A r \in reviews' : [review |-> r.id, content |-> r.content] \in scores'
    <3>1. [review |-> saved.id, content |-> saved.content] \in scores'
      BY <1>2, <1>3 DEF pair
    <3>2. ASSUME NEW r \in Others(q.submission)
          PROVE  [review |-> r.id, content |-> r.content] \in scores'
      BY <1>2, <1>6 DEF ReviewInv, Tables, ScoresMatchReview
    <3> QED BY <1>5, <3>1, <3>2
  <2>2. \A x \in scores' : \E r \in reviews' : r.id = x.review /\ r.content = x.content
    <3>1. ASSUME NEW x \in scores, x.review # q.review
          PROVE  \E r \in reviews' : r.id = x.review /\ r.content = x.content
      BY <1>2, <3>1 DEF ReviewInv, Tables, ScoresMatchReview
    <3> QED BY <1>2, <1>3, <3>1
  <2> QED BY <2>1, <2>2 DEF ScoresMatchReview
<1>11. PublishedOnce'
  <2>1. \A t : (\E r \in RowsOf(t)' : r.status = "published") <=> \E r \in RowsOf(t) : r.status = "published"
    BY <1>2, <1>3, <1>4 DEF RowsOf, IsDraft
  <2>2. \A t \in Submissions :
          /\ \A i, k \in Publications(t) : i = k
          /\ (Publications(t) # {}) <=> \E r \in RowsOf(t) : r.status = "published"
    BY DEF ReviewInv, Tables, PublishedOnce, Publications
  <2>3. \A t \in Submissions :
          /\ \A i, k \in Publications(t)' : i = k
          /\ (Publications(t)' # {}) <=> \E r \in RowsOf(t)' : r.status = "published"
    BY <1>8, <2>1, <2>2
  <2> QED BY <2>3 DEF PublishedOnce, Publications
<1>12. Stays
  <2>1. ASSUME NEW r \in reviews, r.status = "published"
        PROVE  r \in reviews' /\ r.id # q.review
    BY <1>2, <1>4, <2>1 DEF IsDraft
  <2> QED BY <1>2, <1>3, <2>1 DEF Stays
<1> QED BY <1>7, <1>9, <1>10, <1>11, <1>12 DEF ReviewInv, Tables

LEMMA CommitPublishKeeps ==
  ASSUME ReviewInv, NEW h \in Handlers, CommitPublish(h)
  PROVE  ReviewInv' /\ Stays
<1> DEFINE q == req[h]
<1>1. /\ q \in Requests /\ q.pc = "confirm" /\ OnCourse(h) /\ q.submission \in Submissions
      /\ locks[q.submission] = h
  BY DEF ReviewInv, CommitPublish, TypeOK, OnCourse, Saving
<1>2. PICK r \in reviews :
        /\ r.id = q.review
        /\ Replace(r, [r EXCEPT !.status = "published", !.publisher = h])
  BY DEF CommitPublish
<1> DEFINE new == [r EXCEPT !.status = "published", !.publisher = h]
<1>3. /\ reviews' = (reviews \ {r}) \cup {new}
      /\ Log("publish", q.submission, 0)
      /\ Release(h) /\ End(h) /\ UNCHANGED <<scores, saves>>
  BY <1>2 DEF CommitPublish, Replace
<1>4. r.submission = q.submission /\ IsDraft(r) /\ RowsOf(q.submission) = {r}
  <2>1. PICK d \in Drafts(q.submission) : d.id = q.review
    BY <1>1 DEF OnCourse
  <2>2. d \in reviews /\ d.submission = q.submission /\ IsDraft(d)
    BY DEF Drafts, RowsOf
  <2>3. d = r
    BY <1>2, <2>1, <2>2 DEF ReviewInv, Tables, OneReviewPerSubmission
  <2>4. RowsOf(q.submission) = {d}
    BY <2>2 DEF ReviewInv, Tables, OneReviewPerSubmission, RowsOf
  <2> QED BY <2>2, <2>3, <2>4
<1>5. /\ new \in Reviews /\ new.submission = q.submission /\ new.id = r.id
      /\ new.content = r.content /\ new.status = "published"
  BY <1>4 DEF ReviewInv, TypeOK, Reviews
<1> HIDE DEF new
<1>6. reviews' = Others(q.submission) \cup {new}
  BY <1>3, <1>4 DEF Others, RowsOf
<1>7. \A x \in Others(q.submission) : x \in reviews /\ x.id # r.id
  BY <1>4 DEF ReviewInv, Tables, OneReviewPerSubmission, Others
<1>8. /\ r.id <= saves
      /\ \A k \in Handlers : req[k].pc \in Saving => req[k].content # r.id
  BY DEF ReviewInv, Tables, IdsGiven, OnCourse
<1>9. /\ reviews' \in SUBSET Reviews
      /\ OneReviewPerSubmission' /\ IdsGiven' /\ ContentsApart'
      /\ req' \in [Handlers -> Requests]
      /\ locks' \in [Submissions -> Handlers \cup {None}]
      /\ \A k \in Handlers : OnCourse(k)'
  BY <1>1, <1>3, <1>4, <1>5, <1>6, <1>7, <1>8, CommitKeeps
<1>s. PICK s \in Submissions : s = q.submission
  BY <1>1
<1>10. /\ audit' \in Seq(AuditRows)
       /\ Publications(s)' = Publications(s) \cup {Len(audit) + 1}
       /\ \A t : t # s => Publications(t)' = Publications(t)
  <2>1. 0 \in Contents
    BY ReviewAssumption DEF Contents
  <2> QED BY <1>s, <1>3, <2>1, LogTyped DEF ReviewInv
<1>11. TypeOK'
  BY <1>3, <1>9, <1>10 DEF ReviewInv, TypeOK
<1>12. ScoresMatchReview'
  BY <1>3, <1>5, <1>6, <1>7 DEF ReviewInv, Tables, ScoresMatchReview, Others
<1>13. PublishedOnce'
  <2>1. ASSUME NEW t \in Submissions
        PROVE  /\ \A i, k \in Publications(t)' : i = k
               /\ (Publications(t)' # {}) <=> \E x \in RowsOf(t)' : x.status = "published"
    <3>0. /\ \A i, k \in Publications(t) : i = k
          /\ (Publications(t) # {}) <=> \E x \in RowsOf(t) : x.status = "published"
      BY DEF ReviewInv, Tables, PublishedOnce, Publications
    <3>1. CASE t # s
      <4>1. RowsOf(t)' = RowsOf(t)
        BY <1>s, <1>5, <1>6, <3>1 DEF RowsOf, Others
      <4> QED BY <1>10, <3>0, <3>1, <4>1
    <3>2. CASE t = s
      <4>1. Publications(t) = {}
        BY <1>s, <1>4, <3>0, <3>2 DEF IsDraft
      <4>2. new \in RowsOf(t)'
        BY <1>s, <1>5, <1>6, <3>2 DEF RowsOf
      <4> QED BY <1>5, <1>10, <3>2, <4>1, <4>2
    <3> QED BY <3>1, <3>2
  <2> QED BY <2>1 DEF PublishedOnce, Publications
<1>14. Stays
  BY <1>3, <1>4 DEF Stays, IsDraft
<1> QED BY <1>9, <1>11, <1>12, <1>13, <1>14 DEF ReviewInv, Tables

-----------------------------------------------------------------------------
(* Theorems *)

LEMMA ReviewInit == Init => ReviewInv
<1> SUFFICES ASSUME Init PROVE ReviewInv
  OBVIOUS
<1>1. \A h \in Handlers : req[h].pc = "idle"
  BY DEF Init, NoRequest
<1>2. TypeOK
  BY NoRequestTyped, ReviewAssumption DEF Init, TypeOK, Contents
<1>3. Tables
  BY DEF Init, Tables, OneReviewPerSubmission, ScoresMatchReview, PublishedOnce, IdsGiven, RowsOf
<1>4. ContentsApart /\ \A h \in Handlers : OnCourse(h)
  BY <1>1 DEF ContentsApart, OnCourse, Saving
<1> QED BY <1>2, <1>3, <1>4 DEF ReviewInv

LEMMA NothingMoves == UNCHANGED <<reviews, scores>> => Stays
  BY DEF Stays

LEMMA ReviewNext == ReviewInv /\ [Next]_vars => ReviewInv' /\ Stays
<1> SUFFICES ASSUME ReviewInv, [Next]_vars PROVE ReviewInv' /\ Stays
  OBVIOUS
<1>1. ASSUME NEW h \in Handlers, NEW s \in Submissions, Arrive(h, s)
      PROVE  ReviewInv' /\ Stays
  <2>1. UNCHANGED <<reviews, scores>>
    BY <1>1 DEF Arrive, UpsertTeacherReview, PublishTeacherReview, GetTeacherReview
  <2> QED BY <1>1, <2>1, UpsertKeeps, PublishKeeps, GetKeeps, NothingMoves DEF Arrive
<1>2. ASSUME NEW h \in Handlers, Rollback(h)
      PROVE  ReviewInv' /\ Stays
  BY <1>2, EndKeeps, NothingMoves DEF Rollback
<1>3. ASSUME NEW h \in Handlers, Work(h)
      PROVE  ReviewInv' /\ Stays
  <2>1. CASE CommitSave(h) \/ CommitPublish(h)
    BY <2>1, SaveKeeps, CommitPublishKeeps
  <2>2. CASE SelectForUpdate(h) \/ InsertReview(h) \/ UpdatePublished(h)
    <3>1. UNCHANGED <<reviews, scores>>
      BY <2>2 DEF SelectForUpdate, InsertReview, UpdatePublished
    <3> QED BY <2>2, <3>1, SelectKeeps, InsertKeeps, UpdateKeeps, NothingMoves
  <2>3. CASE LoadTeacherMetricScores(h)
    <3>1. UNCHANGED <<reviews, scores>>
      BY <2>3 DEF LoadTeacherMetricScores
    <3> QED BY <2>3, <3>1, LoadKeeps, NothingMoves
  <2>4. CASE Respond(h)
    BY <2>4, EndKeeps, NothingMoves DEF Respond
  <2> QED BY <1>3, <2>1, <2>2, <2>3, <2>4 DEF Work
<1>4. CASE UNCHANGED vars
  <2> USE <1>4 DEF vars
  <2>1. TypeOK' /\ Tables' /\ ContentsApart'
    BY DEF ReviewInv, TypeOK, Tables, OneReviewPerSubmission, ScoresMatchReview, PublishedOnce,
           IdsGiven, RowsOf, ContentsApart
  <2>2. \A h \in Handlers : OnCourse(h)'
    BY DEF ReviewInv, OnCourse, RowsOf, Drafts
  <2> QED BY <2>1, <2>2, NothingMoves DEF ReviewInv
<1> QED BY <1>1, <1>2, <1>3, <1>4 DEF Next

(* Tables, locks and requests keep their types, and what every transaction   *)
(* has seen under its lock holds until it ends.                              *)
THEOREM ReviewInvariance == Spec => []ReviewInv
<1>1. ReviewInv /\ [Next]_vars => ReviewInv'
  BY ReviewNext
<1> QED BY ReviewInit, <1>1, PTL DEF Spec

(* UpsertTeacherReview never gives a submission a second review, because the *)
(* unique key makes the later of two first inserts wait and fail.            *)
THEOREM OneReview == Spec => []OneReviewPerSubmission
<1>1. ReviewInv => OneReviewPerSubmission
  BY DEF ReviewInv, Tables
<1> QED BY <1>1, ReviewInvariance, PTL

(* The metric scores stored with a review are those of the save whose total  *)
(* and comment it shows, in every order of saves and publications.           *)
THEOREM ScoresOfLastSave == Spec => []ScoresMatchReview
<1>1. ReviewInv => ScoresMatchReview
  BY DEF ReviewInv, Tables
<1> QED BY <1>1, ReviewInvariance, PTL

(* What a student is answered is one published review with its scores,       *)
(* although GetTeacherReview reads them in two statements.                   *)
THEOREM StudentSeesOneReview == Spec => []StudentSeesWholeReview
<1>1. ReviewInv => StudentSeesWholeReview
  BY DEF ReviewInv, OnCourse, StudentSeesWholeReview
<1> QED BY <1>1, ReviewInvariance, PTL

(* A submission's audit log has one publication if its review is published,  *)
(* and none otherwise, however many teachers publish at once.                *)
THEOREM PublicationLogged == Spec => []PublishedOnce
<1>1. ReviewInv => PublishedOnce
  BY DEF ReviewInv, Tables
<1> QED BY <1>1, ReviewInvariance, PTL

(* No save and no publication changes a published review or its scores, even *)
(* without the triggers of migration 000005.                                 *)
THEOREM PublishedNeverChanges == Spec => PublishedStays
<1>1. ReviewInv /\ [Next]_vars => [Stays]_vars
  BY ReviewNext
<1>2. Spec => [][Stays]_vars
  BY <1>1, ReviewInvariance, PTL DEF Spec
<1> QED BY <1>2, PTL DEF PublishedStays, Stays

=============================================================================
