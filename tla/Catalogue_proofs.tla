-------------------------- MODULE Catalogue_proofs --------------------------
(* Proofs about the catalogue, for any number of users, courses, templates,  *)
(* experiments, handlers and requests, on both databases.                    *)
(*                                                                           *)
(* A request acts on what it was told by an earlier call.  That this does no *)
(* harm has one reason each time: what it was told can no longer change      *)
(* (a published version, a published experiment, a member who was enrolled), *)
(* or it holds a lock on it (the next number of a template, the role rows    *)
(* under the one connection of SQLite).                                      *)
EXTENDS Catalogue, FiniteSetTheorems, TLAPS

-----------------------------------------------------------------------------
(* The inductive invariant *)

Places == {"idle", "check", "bind", "call", "deleting", "deleted", "numbered", "locked"}

RoleRows == {"admin", "teacher", "student"} \X (0..MaxRequests)

Args ==
  RoleSets \cup Classes \cup {None} \cup (Users \X Permissions)
    \cup (Users \X {"active", "dropped"} \X (Classes \cup {None}))
    \cup (1..MaxVersions) \cup (Courses \X Templates \X (1..MaxVersions))

Rows ==
  [do : Operations \cup {"Nothing"}, at : Places, id : 0..MaxRequests, who : Users \cup {None},
   on : Users \cup Courses \cup Classes \cup Templates \cup Experiments \cup {None},
   arg : Args, saw : SUBSET RoleRows]

(* The parameters of a request fit its operation.                            *)
WellFormed(q) ==
  /\ q.do # "Nothing" => q.who \in Users
  /\ q.do \in {"CreateUser", "SetUserRoles"} => q.on \in Users /\ q.arg \in RoleSets
  /\ q.do = "CreateCourse" => q.on \in Courses
  /\ q.do = "CreateClass" => q.on \in Classes
  /\ q.do = "AssignTeacher" => q.arg \in Users \X Permissions
  /\ q.do = "EnrollStudent" => q.arg \in Users \X {"active", "dropped"} \X (Classes \cup {None})
  /\ q.do \in {"CreateRubricTemplate", "CreateRubricVersion", "PublishRubricVersion"} => q.on \in Templates
  /\ q.do = "PublishRubricVersion" => q.arg \in 1..MaxVersions
  /\ q.do = "CreateExperiment" => q.on \in Experiments /\ q.arg \in Courses \X Templates \X (1..MaxVersions)
  /\ q.do \in {"PublishExperiment", "CreateSubmission"} => q.on \in Experiments

(* What a request has learned on its way still holds.                        *)
RolesKnown(q) ==
  q.at \in {"deleting", "deleted"} =>
    q.do = "SetUserRoles" /\ (backend = "sqlite" => q.saw = roleRows[q.on])

NumberKnown(q) ==
  q.at = "numbered" => q.do = "CreateRubricVersion" /\ q.arg \in 1..MaxVersions /\ q.arg = NextNo(q.on)

LockKnown(q) ==
  q.at = "locked" => q.do = "PublishRubricVersion" /\ versions[q.on][q.arg] # None

BindingKnown(q) ==
  /\ q.at = "bind" => q.do = "CreateExperiment"
  /\ q.do = "CreateExperiment" /\ q.at = "call" => versions[q.arg[2]][q.arg[3]] = "published"

AccessKnown(q) ==
  q.do = "CreateSubmission" /\ q.at = "call" =>
    /\ experiments[q.on].status = "published"
    /\ enrollments[<<experiments[q.on].course, q.who>>].status # None

Knows(q) ==
  WellFormed(q) /\ RolesKnown(q) /\ NumberKnown(q) /\ LockKnown(q) /\ BindingKnown(q) /\ AccessKnown(q)

HandlersKnow == handler \in [Handlers -> Rows] /\ \A h \in Handlers : Knows(handler[h])

(* The lock of a template has one holder, the connection of SQLite another.  *)
LocksHeld ==
  /\ \A h, k \in Handlers :
       handler[h].at = "numbered" /\ handler[k].at = "numbered" /\ handler[h].on = handler[k].on => h = k
  /\ backend = "sqlite" => \A h, k \in Handlers : InTransaction(h) /\ InTransaction(k) => h = k

Numbers(t) == {n \in 1..MaxVersions : versions[t][n] # None}

VersionsCounted == ~clash /\ \A t \in Templates : \E k \in 0..MaxVersions : Numbers(t) = 1..k

ExperimentsBound ==
  \A e \in Experiments : experiments[e].status # None =>
    /\ experiments[e].course \in Courses
    /\ experiments[e].template \in Templates
    /\ experiments[e].no \in 1..MaxVersions
    /\ versions[experiments[e].template][experiments[e].no] = "published"

CatalogueInv ==
  /\ TypeOK
  /\ HandlersKnow
  /\ LocksHeld
  /\ VersionsCounted
  /\ ExperimentsBound
  /\ SubmissionsHaveGround
  /\ SerialRolesOfOneRequest

-----------------------------------------------------------------------------
(* Numbers of versions *)

LEMMA NextNoIs ==
  ASSUME NEW t, NEW k \in Nat, Numbers(t) = 1..k
  PROVE  NextNo(t) = k + 1
<1>1. Cardinality(1..k) = k
  BY FS_Interval
<1> QED BY <1>1 DEF NextNo, Numbers

(* The next number is free, and taking it leaves no gap.                     *)
LEMMA NextNoFree ==
  ASSUME VersionsCounted, NEW t \in Templates
  PROVE  \E k \in 0..MaxVersions : Numbers(t) = 1..k /\ NextNo(t) = k + 1
<1>1. PICK k \in 0..MaxVersions : Numbers(t) = 1..k
  BY DEF VersionsCounted
<1>2. k \in Nat
  BY CatalogueAssumption
<1> QED BY <1>1, <1>2, NextNoIs

LEMMA CountedIsNumbered == VersionsCounted => VersionsNumbered
<1> SUFFICES ASSUME VersionsCounted PROVE VersionsNumbered
  OBVIOUS
<1>1. ASSUME NEW t \in Templates, NEW n \in 1..MaxVersions, versions[t][n] # None, NEW m \in 1..n
      PROVE  versions[t][m] # None
  <2>1. PICK k \in 0..MaxVersions : Numbers(t) = 1..k
    BY DEF VersionsCounted
  <2>2. n \in 1..k
    BY <1>1, <2>1 DEF Numbers
  <2>3. m \in Numbers(t)
    BY <2>1, <2>2, CatalogueAssumption
  <2> QED BY <2>3 DEF Numbers
<1> QED BY <1>1 DEF VersionsNumbered, VersionsCounted

-----------------------------------------------------------------------------
(* Requests *)

LEMMA IdleKnows == Idle \in Rows /\ (\A q : q = Idle => Knows(q)) /\ Idle.at = "idle"
<1>1. Idle \in Rows
  BY CatalogueAssumption DEF Idle, Rows, Args, Places
<1>2. Idle.do = "Nothing" /\ Idle.at = "idle"
  BY DEF Idle
<1> QED BY <1>1, <1>2 DEF Knows, WellFormed, RolesKnown, NumberKnown, LockKnown, BindingKnown, AccessKnown

(* The ways in which the tables only grow: no version goes away or back to   *)
(* draft, a published experiment stays as it is, a member stays known.       *)
Grows ==
  /\ backend' = backend
  /\ \A t \in Templates, n \in 1..MaxVersions :
       /\ versions[t][n] # None => versions'[t][n] # None
       /\ versions[t][n] = "published" => versions'[t][n] = "published"
  /\ \A e \in Experiments : experiments[e].status = "published" => experiments'[e] = experiments[e]
  /\ \A c \in Courses, u \in Users : enrollments[<<c, u>>].status # None => enrollments'[<<c, u>>].status # None

(* What a step must leave alone because of a lock that q holds.              *)
Untouched(q) ==
  /\ q.at \in {"deleting", "deleted"} /\ backend = "sqlite" => roleRows'[q.on] = roleRows[q.on]
  /\ q.at = "numbered" => \A n \in 1..MaxVersions : versions'[q.on][n] # None <=> versions[q.on][n] # None

LEMMA StillKnows ==
  ASSUME ExperimentsBound, NEW q \in Rows, Knows(q), Grows, Untouched(q)
  PROVE  Knows(q)'
<1>1. WellFormed(q)' /\ RolesKnown(q)'
  BY DEF Knows, WellFormed, RolesKnown, Grows, Untouched
<1>2. NumberKnown(q)'
  BY DEF Knows, NumberKnown, Untouched, NextNo
<1>3. LockKnown(q)'
  BY DEF Knows, WellFormed, LockKnown, Grows
<1>4. BindingKnown(q)'
  BY DEF Knows, WellFormed, BindingKnown, Grows
<1>5. AccessKnown(q)'
  <2>1. SUFFICES ASSUME q.do = "CreateSubmission", q.at = "call"
                 PROVE  /\ experiments'[q.on].status = "published"
                        /\ enrollments'[<<experiments'[q.on].course, q.who>>].status # None
    BY DEF AccessKnown
  <2>2. /\ q.on \in Experiments /\ q.who \in Users
        /\ experiments[q.on].status = "published"
        /\ enrollments[<<experiments[q.on].course, q.who>>].status # None
    BY <2>1 DEF Knows, WellFormed, AccessKnown
  <2>3. experiments[q.on].course \in Courses /\ experiments'[q.on] = experiments[q.on]
    BY <2>2, CatalogueAssumption DEF ExperimentsBound, Grows
  <2> QED BY <2>2, <2>3 DEF Grows
<1> QED BY <1>1, <1>2, <1>3, <1>4, <1>5 DEF Knows

LEMMA NothingGrows == UNCHANGED <<backend, members, rubrics, tasks>> => Grows /\ \A q : Untouched(q)
  BY DEF Grows, Untouched, members, rubrics, tasks

(* One handler's row becomes q.                                              *)
LEMMA RowBecomes ==
  ASSUME CatalogueInv, NEW h \in Handlers, NEW q \in Rows, handler' = [handler EXCEPT ![h] = q],
         Knows(q)', Grows, \A k \in Handlers \ {h} : Untouched(handler[k]),
         q.at = "numbered" =>
           \A k \in Handlers \ {h} : ~(handler[k].at = "numbered" /\ handler[k].on = q.on),
         backend = "sqlite" /\ q.at \in {"deleting", "deleted", "numbered", "locked"} =>
           \A k \in Handlers \ {h} : ~InTransaction(k)
  PROVE  HandlersKnow' /\ LocksHeld'
<1>1. handler' \in [Handlers -> Rows] /\ handler'[h] = q /\ \A k \in Handlers \ {h} : handler'[k] = handler[k]
  BY DEF CatalogueInv, HandlersKnow
<1>2. ASSUME NEW k \in Handlers \ {h} PROVE Knows(handler[k])'
  <2>1. PICK p \in Rows : p = handler[k] /\ Knows(p) /\ Untouched(p)
    BY DEF CatalogueInv, HandlersKnow
  <2>2. Knows(p)'
    BY <2>1, StillKnows DEF CatalogueInv
  <2>3. p = handler'[k]
    BY <1>1, <2>1
  <2> QED BY <2>2, <2>3
<1>3. Knows(handler[h])'
  BY <1>1
<1>4. LocksHeld'
  <2>1. backend' = backend
    BY DEF Grows
  <2>2. \A k \in Handlers \ {h} : InTransaction(k)' <=> InTransaction(k)
    BY <1>1 DEF InTransaction
  <2>3. InTransaction(h)' <=> q.at \in {"deleting", "deleted", "numbered", "locked"}
    BY <1>1 DEF InTransaction
  <2> QED BY <1>1, <2>1, <2>2, <2>3 DEF CatalogueInv, LocksHeld
<1> QED BY <1>1, <1>2, <1>3, <1>4 DEF HandlersKnow

(* A step that only moves a request.                                         *)
LEMMA MovesOn ==
  ASSUME CatalogueInv, NEW h \in Handlers, NEW q \in Rows, handler' = [handler EXCEPT ![h] = q],
         Knows(q), UNCHANGED <<backend, members, rubrics, tasks>>, asked' \in 0..MaxRequests,
         q.at = "numbered" =>
           \A k \in Handlers \ {h} : ~(handler[k].at = "numbered" /\ handler[k].on = q.on),
         backend = "sqlite" /\ q.at \in {"deleting", "deleted", "numbered", "locked"} =>
           \A k \in Handlers \ {h} : ~InTransaction(k)
  PROVE  CatalogueInv'
<1>1. HandlersKnow' /\ LocksHeld'
  <2>1. Grows /\ Untouched(q) /\ \A k \in Handlers : Untouched(handler[k])
    BY NothingGrows
  <2>2. Knows(q)'
    BY <2>1, StillKnows DEF CatalogueInv
  <2> QED BY <2>1, <2>2, RowBecomes
<1>2. VersionsCounted' /\ ExperimentsBound' /\ SubmissionsHaveGround' /\ SerialRolesOfOneRequest'
  BY DEF CatalogueInv, VersionsCounted, Numbers, ExperimentsBound, SubmissionsHaveGround,
         SerialRolesOfOneRequest, members, rubrics, tasks
<1>3. TypeOK'
  <2>1. \A k \in Handlers : /\ handler'[k].do \in Operations \cup {"Nothing"}
                            /\ handler'[k].at \in Places
                            /\ handler'[k].who \in Users \cup {None}
    BY <1>1 DEF HandlersKnow, Rows
  <2> QED BY <2>1 DEF CatalogueInv, TypeOK, Places, members, rubrics, tasks
<1> QED BY <1>1, <1>2, <1>3 DEF CatalogueInv

(* What an open transaction and a call tell about the others.                *)
LEMMA Alone ==
  ASSUME LocksHeld, NEW h \in Handlers, Connected(h) \/ InTransaction(h), backend = "sqlite"
  PROVE  \A k \in Handlers \ {h} : ~InTransaction(k)
  BY DEF LocksHeld, Connected

LEMMA HandlerRow ==
  ASSUME CatalogueInv, NEW h \in Handlers
  PROVE  handler[h] \in Rows /\ Knows(handler[h]) /\ WellFormed(handler[h])
  BY DEF CatalogueInv, HandlersKnow, Knows

-----------------------------------------------------------------------------
(* Steps before the transaction *)

LEMMA FirstSteps ==
  ASSUME NEW u, NEW op
  PROVE  /\ FirstStep(u, op) \in {"check", "bind", "call"}
         /\ op \in {"CreateExperiment", "CreateSubmission"} => FirstStep(u, op) # "call"
         /\ FirstStep(u, op) = "bind" => op = "CreateExperiment"
<1>1. CASE op \in {"AssignTeacher", "EnrollStudent", "CreateSubmission"}
  BY <1>1 DEF FirstStep
<1>2. CASE op \in {"CreateRubricVersion", "PublishRubricVersion", "PublishExperiment"}
  BY <1>2 DEF FirstStep
<1>3. CASE op = "CreateExperiment"
  BY <1>3 DEF FirstStep
<1>4. CASE op \notin {"AssignTeacher", "EnrollStudent", "CreateSubmission", "CreateRubricVersion",
                     "PublishRubricVersion", "PublishExperiment", "CreateExperiment"}
  BY <1>4 DEF FirstStep
<1> QED BY <1>1, <1>2, <1>3, <1>4

LEMMA ArriveKeeps ==
  ASSUME CatalogueInv, NEW h \in Handlers, NEW u \in Users, NEW op \in Operations,
         NEW on \in Users \cup Courses \cup Classes \cup Templates \cup Experiments, NEW arg \in Args,
         \A q : q.do = op /\ q.who = u /\ q.on = on /\ q.arg = arg => WellFormed(q),
         Arrive(h, u, op, on, arg)
  PROVE  CatalogueInv'
<1> DEFINE q == [do |-> op, at |-> FirstStep(u, op), id |-> asked', who |-> u, on |-> on, arg |-> arg, saw |-> {}]
<1>1. asked' \in 0..MaxRequests
  BY CatalogueAssumption DEF Arrive, CatalogueInv, TypeOK
<1>2. q \in Rows
  BY <1>1, FirstSteps DEF Rows, Places
<1>3. q.do = op /\ q.at = FirstStep(u, op) /\ q.who = u /\ q.on = on /\ q.arg = arg
  OBVIOUS
<1>4. handler' = [handler EXCEPT ![h] = q] /\ UNCHANGED <<backend, members, rubrics, tasks>>
  BY DEF Arrive
<1> HIDE DEF q
<1>5. Knows(q)
  BY <1>3, FirstSteps DEF Knows, RolesKnown, NumberKnown, LockKnown, BindingKnown, AccessKnown
<1>6. q.at \notin {"deleting", "deleted", "numbered", "locked"}
  BY <1>3, FirstSteps
<1> QED BY <1>1, <1>2, <1>4, <1>5, <1>6, MovesOn

LEMMA RequestKeeps ==
  ASSUME CatalogueInv, NEW h \in Handlers, Request(h)
  PROVE  CatalogueInv'
<1>1. PICK u \in Users : \/ UserRequest(h, u) \/ CourseRequest(h, u) \/ RubricRequest(h, u)
                        \/ VersionRequest(h, u) \/ ExperimentRequest(h, u)
  BY DEF Request
<1>2. CASE UserRequest(h, u)
  <2>1. PICK v \in Users, r \in RoleSets, op \in {"CreateUser", "SetUserRoles"} : Arrive(h, u, op, v, r)
    BY <1>2 DEF UserRequest
  <2>2. op \in Operations /\ r \in Args
    BY DEF Operations, Args
  <2>3. \A q : q.do = op /\ q.who = u /\ q.on = v /\ q.arg = r => WellFormed(q)
    BY DEF WellFormed
  <2> QED BY <2>1, <2>2, <2>3, ArriveKeeps
<1>3. CASE CourseRequest(h, u)
  <2>1. PICK c \in Courses :
          \/ Arrive(h, u, "CreateCourse", c, None)
          \/ \E k \in Classes : Arrive(h, u, "CreateClass", k, None) \/ Arrive(h, u, "AddCourseClass", c, k)
          \/ \E v \in Users, p \in Permissions : Arrive(h, u, "AssignTeacher", c, <<v, p>>)
          \/ \E v \in Users, s \in {"active", "dropped"}, k \in Classes \cup {None} :
               Arrive(h, u, "EnrollStudent", c, <<v, s, k>>)
    BY <1>3 DEF CourseRequest
  <2>2. None \in Args /\ \A k \in Classes : k \in Args
    BY DEF Args
  <2>3. CASE Arrive(h, u, "CreateCourse", c, None)
    <3>1. \A q : q.do = "CreateCourse" /\ q.who = u /\ q.on = c /\ q.arg = None => WellFormed(q)
      BY DEF WellFormed
    <3> QED BY <2>2, <2>3, <3>1, ArriveKeeps DEF Operations
  <2>4. ASSUME NEW k \in Classes, Arrive(h, u, "CreateClass", k, None)
        PROVE  CatalogueInv'
    <3>1. \A q : q.do = "CreateClass" /\ q.who = u /\ q.on = k /\ q.arg = None => WellFormed(q)
      BY DEF WellFormed
    <3> QED BY <2>2, <2>4, <3>1, ArriveKeeps DEF Operations
  <2>5. ASSUME NEW k \in Classes, Arrive(h, u, "AddCourseClass", c, k)
        PROVE  CatalogueInv'
    <3>1. \A q : q.do = "AddCourseClass" /\ q.who = u /\ q.on = c /\ q.arg = k => WellFormed(q)
      BY DEF WellFormed
    <3> QED BY <2>2, <2>5, <3>1, ArriveKeeps DEF Operations
  <2>6. ASSUME NEW v \in Users, NEW r \in Permissions, Arrive(h, u, "AssignTeacher", c, <<v, r>>)
        PROVE  CatalogueInv'
    <3>1. <<v, r>> \in Args
      BY DEF Args
    <3>2. \A q : q.do = "AssignTeacher" /\ q.who = u /\ q.on = c /\ q.arg = <<v, r>> => WellFormed(q)
      BY DEF WellFormed
    <3> QED BY <2>6, <3>1, <3>2, ArriveKeeps DEF Operations
  <2>7. ASSUME NEW v \in Users, NEW s \in {"active", "dropped"}, NEW k \in Classes \cup {None},
               Arrive(h, u, "EnrollStudent", c, <<v, s, k>>)
        PROVE  CatalogueInv'
    <3>1. <<v, s, k>> \in Args
      BY DEF Args
    <3>2. \A q : q.do = "EnrollStudent" /\ q.who = u /\ q.on = c /\ q.arg = <<v, s, k>> => WellFormed(q)
      BY DEF WellFormed
    <3> QED BY <2>7, <3>1, <3>2, ArriveKeeps DEF Operations
  <2> QED BY <2>1, <2>3, <2>4, <2>5, <2>6, <2>7
<1>4. CASE RubricRequest(h, u)
  <2>1. PICK t \in Templates, op \in {"CreateRubricTemplate", "CreateRubricVersion"} : Arrive(h, u, op, t, None)
    BY <1>4 DEF RubricRequest
  <2>2. op \in Operations /\ None \in Args
    BY DEF Operations, Args
  <2>3. \A q : q.do = op /\ q.who = u /\ q.on = t /\ q.arg = None => WellFormed(q)
    BY DEF WellFormed
  <2> QED BY <2>1, <2>2, <2>3, ArriveKeeps
<1>5. CASE VersionRequest(h, u)
  <2>1. PICK t \in Templates, n \in 1..MaxVersions :
          \/ Arrive(h, u, "PublishRubricVersion", t, n)
          \/ \E e \in Experiments, c \in Courses : Arrive(h, u, "CreateExperiment", e, <<c, t, n>>)
    BY <1>5 DEF VersionRequest
  <2>2. CASE Arrive(h, u, "PublishRubricVersion", t, n)
    <3>1. n \in Args
      BY DEF Args
    <3>2. \A q : q.do = "PublishRubricVersion" /\ q.who = u /\ q.on = t /\ q.arg = n => WellFormed(q)
      BY DEF WellFormed
    <3> QED BY <2>2, <3>1, <3>2, ArriveKeeps DEF Operations
  <2>3. ASSUME NEW e \in Experiments, NEW c \in Courses, Arrive(h, u, "CreateExperiment", e, <<c, t, n>>)
        PROVE  CatalogueInv'
    <3>1. <<c, t, n>> \in Args
      BY DEF Args
    <3>2. \A q : q.do = "CreateExperiment" /\ q.who = u /\ q.on = e /\ q.arg = <<c, t, n>> => WellFormed(q)
      BY DEF WellFormed
    <3> QED BY <2>3, <3>1, <3>2, ArriveKeeps DEF Operations
  <2> QED BY <2>1, <2>2, <2>3
<1>6. CASE ExperimentRequest(h, u)
  <2>1. PICK e \in Experiments, op \in {"PublishExperiment", "CreateSubmission"} : Arrive(h, u, op, e, None)
    BY <1>6 DEF ExperimentRequest
  <2>2. op \in Operations /\ None \in Args
    BY DEF Operations, Args
  <2>3. \A q : q.do = op /\ q.who = u /\ q.on = e /\ q.arg = None => WellFormed(q)
    BY DEF WellFormed
  <2> QED BY <2>1, <2>2, <2>3, ArriveKeeps
<1> QED BY <1>1, <1>2, <1>3, <1>4, <1>5, <1>6

(* The question asked before a call; for a submission the answer is kept.    *)
LEMMA CheckKeeps ==
  ASSUME CatalogueInv, NEW h \in Handlers, Check(h)
  PROVE  CatalogueInv'
<1> DEFINE p == handler[h]
           q == [p EXCEPT !.at = IF p.do = "CreateExperiment" THEN "bind" ELSE "call"]
<1>1. p \in Rows /\ WellFormed(p)
  BY HandlerRow
<1>2. /\ handler' = [handler EXCEPT ![h] = q]
      /\ UNCHANGED <<backend, members, rubrics, tasks, asked>> /\ Allowed(p)
  BY DEF Check, Goto
<1> HIDE DEF p
<1>3. /\ q \in Rows /\ q.do = p.do /\ q.who = p.who /\ q.on = p.on /\ q.arg = p.arg
      /\ q.at \in {"bind", "call"} /\ (q.do = "CreateExperiment" <=> q.at = "bind")
  BY <1>1 DEF Rows, Places
<1> HIDE DEF q
<1>4. WellFormed(q)
  BY <1>1, <1>3 DEF WellFormed
<1>5. AccessKnown(q)
  <2>1. p.do = "CreateSubmission" => ExperimentSubmissionAccess(p.on, p.who)
    BY <1>2 DEF Allowed
  <2> QED BY <1>3, <2>1, CatalogueAssumption DEF AccessKnown, ExperimentSubmissionAccess
<1>6. Knows(q)
  BY <1>3, <1>4, <1>5 DEF Knows, RolesKnown, NumberKnown, LockKnown, BindingKnown
<1>7. asked' \in 0..MaxRequests
  BY <1>2 DEF CatalogueInv, TypeOK
<1> QED BY <1>2, <1>3, <1>6, <1>7, MovesOn

LEMMA BindKeeps ==
  ASSUME CatalogueInv, NEW h \in Handlers, BindVersion(h)
  PROVE  CatalogueInv'
<1> DEFINE p == handler[h]
           q == [p EXCEPT !.at = "call"]
<1>1. p \in Rows /\ WellFormed(p) /\ p.at = "bind"
  BY HandlerRow DEF BindVersion
<1>2. /\ handler' = [handler EXCEPT ![h] = q]
      /\ UNCHANGED <<backend, members, rubrics, tasks, asked>>
      /\ versions[p.arg[2]][p.arg[3]] = "published"
  BY DEF BindVersion, Goto, RubricVersionStatus
<1>3. q \in Rows /\ q.do = p.do /\ q.who = p.who /\ q.on = p.on /\ q.arg = p.arg /\ q.at = "call"
  BY <1>1 DEF Rows, Places
<1> HIDE DEF p, q
<1>4. WellFormed(q)
  BY <1>1, <1>3 DEF WellFormed
<1>5. p.do = "CreateExperiment"
  BY <1>1, HandlerRow DEF Knows, BindingKnown, p
<1>6. Knows(q)
  BY <1>2, <1>3, <1>4, <1>5 DEF Knows, RolesKnown, NumberKnown, LockKnown, BindingKnown, AccessKnown
<1>7. asked' \in 0..MaxRequests
  BY <1>2 DEF CatalogueInv, TypeOK
<1> QED BY <1>2, <1>3, <1>6, <1>7, MovesOn

LEMMA FailKeeps ==
  ASSUME CatalogueInv, NEW h \in Handlers, Fail(h)
  PROVE  CatalogueInv'
<1>1. asked' \in 0..MaxRequests
  BY DEF CatalogueInv, TypeOK, Fail
<1> QED BY <1>1, IdleKnows, MovesOn DEF Fail, Finish

-----------------------------------------------------------------------------
(* The first statements of the longer transactions *)

(* The rows to delete are those there are; with the one connection of SQLite *)
(* they are still those when they are deleted.                               *)
LEMMA SelectRolesKeeps ==
  ASSUME CatalogueInv, NEW h \in Handlers, SelectRoles(h)
  PROVE  CatalogueInv'
<1> DEFINE p == handler[h]
           q == [p EXCEPT !.at = "deleting", !.saw = roleRows[p.on]]
<1>1. /\ p \in Rows /\ WellFormed(p) /\ p.do = "SetUserRoles" /\ Connected(h)
      /\ roleRows \in [Users -> SUBSET RoleRows]
  BY HandlerRow DEF SelectRoles, Calls, CatalogueInv, TypeOK, RoleRows
<1>2. /\ handler' = [handler EXCEPT ![h] = q]
      /\ UNCHANGED <<backend, members, rubrics, tasks, asked>>
  BY DEF SelectRoles
<1> HIDE DEF p
<1>3. /\ q \in Rows /\ q.do = p.do /\ q.who = p.who /\ q.on = p.on /\ q.arg = p.arg
      /\ q.at = "deleting" /\ q.saw = roleRows[p.on]
  <2>1. p.on \in Users
    BY <1>1 DEF WellFormed
  <2>2. roleRows[p.on] \in SUBSET RoleRows
    BY <1>1, <2>1
  <2> QED BY <1>1, <2>2 DEF Rows, Places
<1> HIDE DEF q
<1>4. WellFormed(q)
  BY <1>1, <1>3 DEF WellFormed
<1>5. Knows(q)
  BY <1>1, <1>3, <1>4 DEF Knows, RolesKnown, NumberKnown, LockKnown, BindingKnown, AccessKnown
<1>6. asked' \in 0..MaxRequests
  BY <1>2 DEF CatalogueInv, TypeOK
<1>7. backend = "sqlite" => \A k \in Handlers \ {h} : ~InTransaction(k)
  BY <1>1, Alone DEF CatalogueInv
<1> QED BY <1>2, <1>3, <1>5, <1>6, <1>7, MovesOn

LEMMA DeleteRolesKeeps ==
  ASSUME CatalogueInv, NEW h \in Handlers, DeleteRoles(h)
  PROVE  CatalogueInv'
<1> DEFINE p == handler[h]
           q == [p EXCEPT !.at = "deleted", !.saw = @ \cap roleRows[p.on]]
<1>1. /\ p \in Rows /\ WellFormed(p) /\ RolesKnown(p) /\ p.at = "deleting" /\ InTransaction(h)
  BY HandlerRow DEF DeleteRoles, Knows, InTransaction
<1>2. /\ handler' = [handler EXCEPT ![h] = q]
      /\ UNCHANGED <<backend, members, rubrics, tasks, asked>>
  BY DEF DeleteRoles
<1> HIDE DEF p
<1>3. /\ q \in Rows /\ q.do = p.do /\ q.who = p.who /\ q.on = p.on /\ q.arg = p.arg
      /\ q.at = "deleted" /\ q.saw = p.saw \cap roleRows[p.on]
  BY <1>1 DEF Rows, Places
<1> HIDE DEF q
<1>4. WellFormed(q)
  BY <1>1, <1>3 DEF WellFormed
<1>5. Knows(q)
  <2>1. RolesKnown(q)
    BY <1>1, <1>3 DEF RolesKnown
  <2> QED BY <1>1, <1>3, <1>4, <2>1 DEF Knows, NumberKnown, LockKnown, BindingKnown, AccessKnown
<1>6. asked' \in 0..MaxRequests
  BY <1>2 DEF CatalogueInv, TypeOK
<1>7. backend = "sqlite" => \A k \in Handlers \ {h} : ~InTransaction(k)
  BY <1>1, Alone DEF CatalogueInv
<1> QED BY <1>2, <1>3, <1>5, <1>6, <1>7, MovesOn

LEMMA NumberKeeps ==
  ASSUME CatalogueInv, NEW h \in Handlers, NumberVersion(h)
  PROVE  CatalogueInv'
<1> DEFINE p == handler[h]
           q == [p EXCEPT !.at = "numbered", !.arg = NextNo(p.on)]
<1>1. /\ p \in Rows /\ WellFormed(p) /\ p.do = "CreateRubricVersion" /\ Connected(h)
      /\ NextNo(p.on) <= MaxVersions
  BY HandlerRow DEF NumberVersion, Calls
<1>2. /\ handler' = [handler EXCEPT ![h] = q]
      /\ UNCHANGED <<backend, members, rubrics, tasks, asked>>
      /\ \A k \in Handlers : ~(handler[k].at = "numbered" /\ handler[k].on = p.on)
  BY DEF NumberVersion
<1> HIDE DEF p
<1>3. p.on \in Templates /\ NextNo(p.on) \in 1..MaxVersions
  <2>1. p.on \in Templates
    BY <1>1 DEF WellFormed
  <2>2. PICK k \in 0..MaxVersions : NextNo(p.on) = k + 1
    BY <2>1, NextNoFree DEF CatalogueInv
  <2> QED BY <1>1, <2>1, <2>2, CatalogueAssumption
<1>4. /\ q \in Rows /\ q.do = p.do /\ q.who = p.who /\ q.on = p.on /\ q.arg = NextNo(p.on)
      /\ q.at = "numbered"
  <2>1. NextNo(p.on) \in Args
    BY <1>3 DEF Args
  <2> QED BY <1>1, <2>1 DEF Rows, Places
<1> HIDE DEF q
<1>5. WellFormed(q)
  BY <1>1, <1>4 DEF WellFormed
<1>6. Knows(q)
  BY <1>1, <1>3, <1>4, <1>5 DEF Knows, RolesKnown, NumberKnown, LockKnown, BindingKnown, AccessKnown
<1>7. asked' \in 0..MaxRequests
  BY <1>2 DEF CatalogueInv, TypeOK
<1>8. backend = "sqlite" => \A k \in Handlers \ {h} : ~InTransaction(k)
  BY <1>1, Alone DEF CatalogueInv
<1> QED BY <1>2, <1>4, <1>6, <1>7, <1>8, MovesOn

LEMMA LockKeeps ==
  ASSUME CatalogueInv, NEW h \in Handlers, LockVersion(h)
  PROVE  CatalogueInv'
<1> DEFINE p == handler[h]
           q == [p EXCEPT !.at = "locked"]
<1>1. /\ p \in Rows /\ WellFormed(p) /\ p.do = "PublishRubricVersion" /\ Connected(h)
      /\ versions[p.on][p.arg] = "draft"
  BY HandlerRow DEF LockVersion, Calls
<1>2. /\ handler' = [handler EXCEPT ![h] = q]
      /\ UNCHANGED <<backend, members, rubrics, tasks, asked>>
  BY DEF LockVersion, Goto
<1> HIDE DEF p
<1>3. /\ q \in Rows /\ q.do = p.do /\ q.who = p.who /\ q.on = p.on /\ q.arg = p.arg /\ q.at = "locked"
  BY <1>1 DEF Rows, Places
<1> HIDE DEF q
<1>4. WellFormed(q)
  BY <1>1, <1>3 DEF WellFormed
<1>5. Knows(q)
  BY <1>1, <1>3, <1>4, CatalogueAssumption DEF Knows, RolesKnown, NumberKnown, LockKnown, BindingKnown, AccessKnown
<1>6. asked' \in 0..MaxRequests
  BY <1>2 DEF CatalogueInv, TypeOK
<1>7. backend = "sqlite" => \A k \in Handlers \ {h} : ~InTransaction(k)
  BY <1>1, Alone DEF CatalogueInv
<1> QED BY <1>2, <1>3, <1>5, <1>6, <1>7, MovesOn

-----------------------------------------------------------------------------
(* Transactions that end *)

(* A request whose step only lets the tables grow is over.                   *)
LEMMA IsOver ==
  ASSUME CatalogueInv, NEW h \in Handlers, Finish(h), Grows, asked' = asked,
         \A k \in Handlers \ {h} : Untouched(handler[k])
  PROVE  /\ HandlersKnow' /\ LocksHeld'
         /\ \A k \in Handlers : /\ handler'[k].do \in Operations \cup {"Nothing"}
                                /\ handler'[k].at \in Places
                                /\ handler'[k].who \in Users \cup {None}
<1>1. /\ Idle \in Rows /\ Knows(Idle)' /\ Idle.at = "idle"
      /\ handler' = [handler EXCEPT ![h] = Idle]
  <2>1. /\ Idle \in Rows /\ Idle.at = "idle" /\ Idle.do = "Nothing"
        /\ handler' = [handler EXCEPT ![h] = Idle]
    BY IdleKnows DEF Finish, Idle
  <2>2. Knows(Idle)'
    BY <2>1 DEF Knows, WellFormed, RolesKnown, NumberKnown, LockKnown, BindingKnown, AccessKnown
  <2> QED BY <2>1, <2>2
<1>2. HandlersKnow' /\ LocksHeld'
  BY <1>1, RowBecomes
<1> QED BY <1>2 DEF HandlersKnow, Rows

MembersTyped ==
  /\ courses \subseteq Courses
  /\ classes \subseteq Classes
  /\ attached \subseteq courses \X classes
  /\ teachers \in [Courses \X Users -> {"owner", "editor", "viewer", None}]
  /\ enrollments \in [Courses \X Users -> [status : {None, "active", "dropped"}, class : Classes \cup {None}]]
  /\ \A c \in Courses, u \in Users :
       enrollments[<<c, u>>].class # None => <<c, enrollments[<<c, u>>].class>> \in attached

MemberStays(c, u) == enrollments[<<c, u>>].status # None => enrollments'[<<c, u>>].status # None

(* Steps on courses, classes and members.                                    *)
LEMMA MembersChange ==
  ASSUME CatalogueInv, NEW h \in Handlers, Finish(h),
         UNCHANGED <<backend, roleRows, rubrics, tasks, asked>>,
         MembersTyped', \A c \in Courses, u \in Users : MemberStays(c, u)
  PROVE  CatalogueInv'
<1>1. Grows /\ \A q : Untouched(q)
  BY DEF Grows, Untouched, MemberStays, rubrics, tasks
<1>2. /\ HandlersKnow' /\ LocksHeld'
      /\ \A k \in Handlers : /\ handler'[k].do \in Operations \cup {"Nothing"}
                             /\ handler'[k].at \in Places
                             /\ handler'[k].who \in Users \cup {None}
  BY <1>1, IsOver
<1>3. TypeOK'
  BY <1>2 DEF CatalogueInv, TypeOK, MembersTyped, Places, rubrics, tasks
<1>4. VersionsCounted' /\ ExperimentsBound' /\ SerialRolesOfOneRequest'
  BY DEF CatalogueInv, VersionsCounted, Numbers, ExperimentsBound, SerialRolesOfOneRequest, rubrics, tasks
<1>5. SubmissionsHaveGround'
  <2>1. ASSUME NEW x \in submissions
        PROVE  /\ experiments[x[1]].status = "published"
               /\ enrollments'[<<experiments[x[1]].course, x[2]>>].status # None
               /\ x[1] \in Experiments
    <3>1. /\ experiments[x[1]].status = "published"
          /\ enrollments[<<experiments[x[1]].course, x[2]>>].status # None
          /\ x[1] \in Experiments /\ x[2] \in Users
      BY DEF CatalogueInv, SubmissionsHaveGround, TypeOK
    <3>2. experiments[x[1]].course \in Courses
      BY <3>1, CatalogueAssumption DEF CatalogueInv, ExperimentsBound
    <3> QED BY <3>1, <3>2 DEF MemberStays
  <2> QED BY <2>1 DEF SubmissionsHaveGround, tasks
<1> QED BY <1>2, <1>3, <1>4, <1>5 DEF CatalogueInv

LEMMA MembersAreTyped == CatalogueInv => MembersTyped
  BY DEF CatalogueInv, TypeOK, MembersTyped

LEMMA CourseSteps ==
  ASSUME CatalogueInv, NEW h \in Handlers,
         CreateCourse(h) \/ CreateClass(h) \/ AddCourseClass(h)
  PROVE  CatalogueInv'
<1> DEFINE p == handler[h]
<1>1. WellFormed(p)
  BY HandlerRow
<1>2. /\ Finish(h) /\ UNCHANGED <<backend, roleRows, teachers, enrollments, rubrics, tasks, asked>>
      /\ \A c \in Courses, u \in Users : MemberStays(c, u)
  BY DEF CreateCourse, CreateClass, AddCourseClass, MemberStays
<1>3. MembersTyped'
  <2>1. courses' \subseteq Courses /\ courses \subseteq courses'
    BY <1>1, MembersAreTyped DEF MembersTyped, WellFormed, CreateCourse, CreateClass, AddCourseClass, Calls
  <2>2. classes' \subseteq Classes /\ classes \subseteq classes'
    BY <1>1, MembersAreTyped DEF MembersTyped, WellFormed, CreateCourse, CreateClass, AddCourseClass, Calls
  <2>3. attached' \subseteq courses' \X classes' /\ attached \subseteq attached'
    BY <2>1, <2>2, MembersAreTyped DEF MembersTyped, CreateCourse, CreateClass, AddCourseClass
  <2> QED BY <1>2, <2>1, <2>2, <2>3, MembersAreTyped DEF MembersTyped
<1> QED BY <1>2, <1>3, MembersChange

LEMMA AssignKeeps ==
  ASSUME CatalogueInv, NEW h \in Handlers, AssignTeacher(h)
  PROVE  CatalogueInv'
<1> DEFINE p == handler[h]
<1>1. WellFormed(p) /\ p.do = "AssignTeacher"
  BY HandlerRow DEF AssignTeacher, Calls
<1>2. /\ Finish(h)
      /\ UNCHANGED <<backend, roleRows, courses, classes, attached, enrollments, rubrics, tasks, asked>>
      /\ teachers' = [teachers EXCEPT ![<<p.on, p.arg[1]>>] = p.arg[2]]
      /\ \A c \in Courses, u \in Users : MemberStays(c, u)
  BY DEF AssignTeacher, MemberStays
<1> HIDE DEF p
<1>3. p.arg[2] \in {"owner", "editor", "viewer"}
  <2>1. p.arg[2] \in Permissions
    BY <1>1 DEF WellFormed
  <2> QED BY <2>1, CatalogueAssumption
<1>4. MembersTyped'
  BY <1>2, <1>3, MembersAreTyped DEF MembersTyped
<1> QED BY <1>2, <1>4, MembersChange

LEMMA EnrollKeeps ==
  ASSUME CatalogueInv, NEW h \in Handlers, EnrollStudent(h)
  PROVE  CatalogueInv'
<1> DEFINE p == handler[h]
           row == [status |-> p.arg[2], class |-> p.arg[3]]
<1>1. WellFormed(p) /\ p.do = "EnrollStudent"
  BY HandlerRow DEF EnrollStudent, Calls
<1>2. /\ Finish(h)
      /\ UNCHANGED <<backend, roleRows, courses, classes, attached, teachers, rubrics, tasks, asked>>
      /\ enrollments' = [enrollments EXCEPT ![<<p.on, p.arg[1]>>] = row]
      /\ p.arg[3] # None => <<p.on, p.arg[3]>> \in attached
  BY DEF EnrollStudent
<1> HIDE DEF p
<1>3. p.arg[1] \in Users /\ p.arg[2] \in {"active", "dropped"} /\ p.arg[3] \in Classes \cup {None}
  BY <1>1 DEF WellFormed
<1>4. /\ row \in [status : {None, "active", "dropped"}, class : Classes \cup {None}]
      /\ row.status = p.arg[2] /\ row.class = p.arg[3]
  BY <1>3
<1> HIDE DEF row
<1>5. ASSUME NEW c \in Courses, NEW u \in Users
      PROVE  \/ <<c, u>> = <<p.on, p.arg[1]>> /\ enrollments'[<<c, u>>] = row
             \/ enrollments'[<<c, u>>] = enrollments[<<c, u>>]
  BY <1>2, MembersAreTyped DEF MembersTyped
<1>6. \A c \in Courses, u \in Users : MemberStays(c, u)
  BY <1>3, <1>4, <1>5, CatalogueAssumption DEF MemberStays
<1>7. MembersTyped'
  <2>1. ASSUME NEW c \in Courses, NEW u \in Users, enrollments'[<<c, u>>].class # None
        PROVE  <<c, enrollments'[<<c, u>>].class>> \in attached
    BY <1>2, <1>4, <1>5, <2>1, MembersAreTyped DEF MembersTyped
  <2>2. enrollments' \in [Courses \X Users -> [status : {None, "active", "dropped"}, class : Classes \cup {None}]]
    BY <1>2, <1>4, MembersAreTyped DEF MembersTyped
  <2> QED BY <1>2, <2>1, <2>2, MembersAreTyped DEF MembersTyped
<1> QED BY <1>2, <1>6, <1>7, MembersChange

(* Steps on role rows, from which nobody else's transaction suffers.         *)
LEMMA RolesChange ==
  ASSUME CatalogueInv, NEW h \in Handlers, Finish(h), NEW u \in Users, NEW rows \in SUBSET RoleRows,
         roleRows' = [roleRows EXCEPT ![u] = rows],
         backend = "sqlite" => \A x, y \in rows : x[2] = y[2],
         Connected(h) \/ InTransaction(h),
         UNCHANGED <<backend, courses, classes, attached, teachers, enrollments, rubrics, tasks, asked>>
  PROVE  CatalogueInv'
<1>1. Grows
  BY DEF Grows, rubrics, tasks
<1>2. \A k \in Handlers \ {h} : Untouched(handler[k])
  BY Alone DEF CatalogueInv, Untouched, InTransaction, rubrics
<1>3. /\ HandlersKnow' /\ LocksHeld'
      /\ \A k \in Handlers : /\ handler'[k].do \in Operations \cup {"Nothing"}
                             /\ handler'[k].at \in Places
                             /\ handler'[k].who \in Users \cup {None}
  BY <1>1, <1>2, IsOver
<1>4. roleRows' \in [Users -> SUBSET RoleRows]
  BY DEF CatalogueInv, TypeOK, RoleRows
<1>5. TypeOK'
  BY <1>3, <1>4 DEF CatalogueInv, TypeOK, RoleRows, Places, rubrics, tasks
<1>6. VersionsCounted' /\ ExperimentsBound' /\ SubmissionsHaveGround'
  BY DEF CatalogueInv, VersionsCounted, Numbers, ExperimentsBound, SubmissionsHaveGround,
         rubrics, tasks
<1>7. SerialRolesOfOneRequest'
  BY DEF CatalogueInv, TypeOK, SerialRolesOfOneRequest
<1> QED BY <1>3, <1>5, <1>6, <1>7 DEF CatalogueInv

LEMMA NewRows ==
  ASSUME CatalogueInv, NEW h \in Handlers, handler[h].do \in {"CreateUser", "SetUserRoles"}
  PROVE  RowsOf(h) \in SUBSET RoleRows /\ handler[h].on \in Users
<1>1. handler[h].on \in Users /\ handler[h].arg \in RoleSets /\ handler[h].id \in 0..MaxRequests
  BY HandlerRow DEF WellFormed, Rows
<1>2. handler[h].arg \subseteq {"admin", "teacher", "student"}
  BY <1>1, CatalogueAssumption
<1> QED BY <1>1, <1>2 DEF RowsOf, RoleRows

LEMMA CreateUserKeeps ==
  ASSUME CatalogueInv, NEW h \in Handlers, CreateUser(h)
  PROVE  CatalogueInv'
<1>1. RowsOf(h) \in SUBSET RoleRows /\ handler[h].on \in Users
  BY NewRows DEF CreateUser, Calls
<1>2. \A x, y \in RowsOf(h) : x[2] = y[2]
  BY DEF RowsOf
<1> QED BY <1>1, <1>2, RolesChange DEF CreateUser, Calls

LEMMA SetUserRolesKeeps ==
  ASSUME CatalogueInv, NEW h \in Handlers, SetUserRoles(h)
  PROVE  CatalogueInv'
<1> DEFINE u == handler[h].on
           rows == (roleRows[u] \ handler[h].saw) \cup RowsOf(h)
<1>1. /\ handler[h].do = "SetUserRoles" /\ InTransaction(h)
      /\ backend = "sqlite" => handler[h].saw = roleRows[u]
  BY HandlerRow DEF SetUserRoles, Knows, RolesKnown, InTransaction
<1>2. RowsOf(h) \in SUBSET RoleRows /\ u \in Users
  BY <1>1, NewRows
<1>3. rows \in SUBSET RoleRows
  BY <1>2 DEF CatalogueInv, TypeOK, RoleRows
<1>4. backend = "sqlite" => \A x, y \in rows : x[2] = y[2]
  BY <1>1 DEF RowsOf
<1>5. /\ roleRows' = [roleRows EXCEPT ![u] = rows] /\ Finish(h)
      /\ UNCHANGED <<backend, courses, classes, attached, teachers, enrollments, rubrics, tasks, asked>>
  BY DEF SetUserRoles
<1> HIDE DEF u, rows
<1> QED BY <1>1, <1>2, <1>3, <1>4, <1>5, RolesChange

-----------------------------------------------------------------------------
(* Rubrics *)

LEMMA TemplateKeeps ==
  ASSUME CatalogueInv, NEW h \in Handlers, CreateRubricTemplate(h)
  PROVE  CatalogueInv'
<1> DEFINE p == handler[h]
<1>1. /\ p.on \in Templates /\ p.who \in Users
      /\ owner' = [owner EXCEPT ![p.on] = p.who] /\ Finish(h)
      /\ UNCHANGED <<backend, members, versions, clash, tasks, asked>>
  BY HandlerRow DEF CreateRubricTemplate, Calls, WellFormed
<1> HIDE DEF p
<1>2. Grows /\ \A q : Untouched(q)
  BY <1>1 DEF Grows, Untouched, members, tasks
<1>3. /\ HandlersKnow' /\ LocksHeld'
      /\ \A k \in Handlers : /\ handler'[k].do \in Operations \cup {"Nothing"}
                             /\ handler'[k].at \in Places
                             /\ handler'[k].who \in Users \cup {None}
  BY <1>1, <1>2, IsOver
<1>4. owner' \in [Templates -> Users \cup {None}]
  BY <1>1 DEF CatalogueInv, TypeOK
<1>5. TypeOK'
  BY <1>1, <1>3, <1>4 DEF CatalogueInv, TypeOK, Places, members, tasks
<1>6. /\ VersionsCounted' /\ ExperimentsBound' /\ SubmissionsHaveGround' /\ SerialRolesOfOneRequest'
  BY <1>1 DEF CatalogueInv, VersionsCounted, Numbers, ExperimentsBound, SubmissionsHaveGround,
              SerialRolesOfOneRequest, members, tasks
<1> QED BY <1>3, <1>5, <1>6 DEF CatalogueInv

(* A version is added or published; the counting is up to the step.          *)
LEMMA VersionsChange ==
  ASSUME CatalogueInv, NEW h \in Handlers, Finish(h), VersionsCounted',
         NEW t \in Templates, NEW n \in 1..MaxVersions, NEW status \in {"draft", "published"},
         versions' = [versions EXCEPT ![t][n] = status], versions[t][n] = "published" => status = "published",
         \A k \in Handlers \ {h} : Untouched(handler[k]),
         UNCHANGED <<backend, members, owner, tasks, asked, clash>>
  PROVE  CatalogueInv'
<1>1. /\ versions \in [Templates -> [1..MaxVersions -> {None, "draft", "published"}]]
      /\ versions' \in [Templates -> [1..MaxVersions -> {None, "draft", "published"}]]
      /\ \A x \in Templates, m \in 1..MaxVersions :
           versions'[x][m] = IF x = t /\ m = n THEN status ELSE versions[x][m]
  BY DEF CatalogueInv, TypeOK
<1>2. Grows
  BY <1>1, CatalogueAssumption DEF Grows, members, tasks
<1>3. /\ HandlersKnow' /\ LocksHeld'
      /\ \A k \in Handlers : /\ handler'[k].do \in Operations \cup {"Nothing"}
                             /\ handler'[k].at \in Places
                             /\ handler'[k].who \in Users \cup {None}
  BY <1>2, IsOver
<1>4. TypeOK'
  BY <1>1, <1>3 DEF CatalogueInv, TypeOK, Places, members, tasks
<1>5. ExperimentsBound'
  BY <1>2 DEF CatalogueInv, ExperimentsBound, Grows, tasks
<1>6. SubmissionsHaveGround' /\ SerialRolesOfOneRequest'
  BY DEF CatalogueInv, SubmissionsHaveGround, SerialRolesOfOneRequest, members, tasks
<1> QED BY <1>3, <1>4, <1>5, <1>6 DEF CatalogueInv

(* The number taken under the lock is still the next one, and free.          *)
LEMMA CreateVersionKeeps ==
  ASSUME CatalogueInv, NEW h \in Handlers, CreateRubricVersion(h)
  PROVE  CatalogueInv'
<1>1. PICK t \in Templates, n \in 1..MaxVersions :
        t = handler[h].on /\ n = handler[h].arg /\ n = NextNo(t) /\ handler[h].at = "numbered"
  BY HandlerRow DEF CreateRubricVersion, Knows, NumberKnown, WellFormed
<1>2. PICK m \in 0..MaxVersions : Numbers(t) = 1..m /\ n = m + 1
  BY <1>1, NextNoFree DEF CatalogueInv
<1>3. versions[t][n] = None
  BY <1>2, CatalogueAssumption DEF Numbers
<1>4. /\ versions' = [versions EXCEPT ![t][n] = "draft"] /\ Finish(h)
      /\ UNCHANGED <<backend, members, owner, tasks, asked, clash>>
  BY <1>1, <1>3 DEF CreateRubricVersion
<1>5. /\ \A x \in Templates \ {t} : versions'[x] = versions[x]
      /\ \A k \in 1..MaxVersions : versions'[t][k] = IF k = n THEN "draft" ELSE versions[t][k]
  BY <1>4 DEF CatalogueInv, TypeOK
<1>6. VersionsCounted'
  <2>1. Numbers(t)' = 1..n
    BY <1>2, <1>5, CatalogueAssumption DEF Numbers
  <2>2. \A x \in Templates \ {t} : Numbers(x)' = Numbers(x)
    BY <1>5 DEF Numbers
  <2>3. n \in 0..MaxVersions
    BY <1>2, CatalogueAssumption
  <2> QED BY <1>4, <2>1, <2>2, <2>3 DEF CatalogueInv, VersionsCounted
<1>7. ASSUME NEW k \in Handlers \ {h} PROVE Untouched(handler[k])
  <2>1. handler[k].at = "numbered" => handler[k].on \in Templates /\ handler[k].on # t
    BY <1>1, HandlerRow DEF CatalogueInv, LocksHeld, Knows, NumberKnown, WellFormed
  <2> QED BY <1>4, <1>5, <2>1 DEF Untouched, members
<1>8. versions[t][n] # "published"
  BY <1>3, CatalogueAssumption
<1> QED BY <1>4, <1>6, <1>7, <1>8, VersionsChange

LEMMA PublishVersionKeeps ==
  ASSUME CatalogueInv, NEW h \in Handlers, PublishRubricVersion(h)
  PROVE  CatalogueInv'
<1>1. PICK t \in Templates, n \in 1..MaxVersions :
        t = handler[h].on /\ n = handler[h].arg /\ versions[t][n] # None
  BY HandlerRow DEF PublishRubricVersion, Knows, LockKnown, WellFormed
<1>2. /\ versions' = [versions EXCEPT ![t][n] = "published"] /\ Finish(h)
      /\ UNCHANGED <<backend, members, owner, tasks, asked, clash>>
  BY <1>1 DEF PublishRubricVersion
<1>3. \A x \in Templates, k \in 1..MaxVersions : versions'[x][k] # None <=> versions[x][k] # None
  BY <1>1, <1>2, CatalogueAssumption DEF CatalogueInv, TypeOK
<1>4. VersionsCounted'
  <2>1. \A x \in Templates : Numbers(x)' = Numbers(x)
    BY <1>3 DEF Numbers
  <2> QED BY <1>2, <2>1 DEF CatalogueInv, VersionsCounted
<1>5. ASSUME NEW k \in Handlers \ {h} PROVE Untouched(handler[k])
  <2>1. handler[k].at = "numbered" => handler[k].on \in Templates
    BY HandlerRow DEF Knows, NumberKnown, WellFormed
  <2> QED BY <1>2, <1>3, <2>1 DEF Untouched, members
<1> QED BY <1>1, <1>2, <1>4, <1>5, VersionsChange

-----------------------------------------------------------------------------
(* Experiments and submissions *)

ExperimentRows ==
  [status : {None, "draft", "published"}, course : Courses \cup {None},
   template : Templates \cup {None}, no : 0..MaxVersions]

(* An experiment that is not published gets a new row.                       *)
LEMMA ExperimentsChange ==
  ASSUME CatalogueInv, NEW h \in Handlers, Finish(h),
         NEW e \in Experiments, NEW row \in ExperimentRows,
         experiments' = [experiments EXCEPT ![e] = row],
         experiments[e].status # "published",
         row.course \in Courses, row.template \in Templates, row.no \in 1..MaxVersions,
         versions[row.template][row.no] = "published",
         UNCHANGED <<backend, members, rubrics, due, submissions, asked>>
  PROVE  CatalogueInv'
<1>1. /\ experiments \in [Experiments -> ExperimentRows] /\ experiments' \in [Experiments -> ExperimentRows]
      /\ \A x \in Experiments : experiments'[x] = IF x = e THEN row ELSE experiments[x]
  BY DEF CatalogueInv, TypeOK, ExperimentRows
<1>2. Grows /\ \A q : Untouched(q)
  BY <1>1 DEF Grows, Untouched, members, rubrics
<1>3. /\ HandlersKnow' /\ LocksHeld'
      /\ \A k \in Handlers : /\ handler'[k].do \in Operations \cup {"Nothing"}
                             /\ handler'[k].at \in Places
                             /\ handler'[k].who \in Users \cup {None}
  BY <1>2, IsOver
<1>4. TypeOK'
  BY <1>1, <1>3 DEF CatalogueInv, TypeOK, Places, members, rubrics, ExperimentRows
<1>5. ExperimentsBound'
  BY <1>1 DEF CatalogueInv, ExperimentsBound, rubrics
<1>6. VersionsCounted' /\ SerialRolesOfOneRequest'
  BY DEF CatalogueInv, VersionsCounted, Numbers, SerialRolesOfOneRequest, members, rubrics
<1>7. SubmissionsHaveGround'
  <2>1. ASSUME NEW x \in submissions
        PROVE  /\ experiments'[x[1]].status = "published"
               /\ enrollments[<<experiments'[x[1]].course, x[2]>>].status # None
               /\ x[1] \in Experiments
    BY <1>1 DEF CatalogueInv, SubmissionsHaveGround, TypeOK
  <2> QED BY <2>1 DEF SubmissionsHaveGround, members
<1> QED BY <1>3, <1>4, <1>5, <1>6, <1>7 DEF CatalogueInv

LEMMA CreateExperimentKeeps ==
  ASSUME CatalogueInv, NEW h \in Handlers, CreateExperiment(h)
  PROVE  CatalogueInv'
<1> DEFINE p == handler[h]
           row == [status |-> "draft", course |-> p.arg[1], template |-> p.arg[2], no |-> p.arg[3]]
<1>1. /\ p.on \in Experiments /\ p.arg \in Courses \X Templates \X (1..MaxVersions)
      /\ versions[p.arg[2]][p.arg[3]] = "published"
  BY HandlerRow DEF CreateExperiment, Calls, Knows, WellFormed, BindingKnown
<1>2. /\ experiments' = [experiments EXCEPT ![p.on] = row] /\ Finish(h)
      /\ UNCHANGED <<backend, members, rubrics, due, submissions, asked>>
      /\ experiments[p.on] = NoExperiment
  BY DEF CreateExperiment
<1> HIDE DEF p
<1>3. /\ row \in ExperimentRows /\ row.course \in Courses /\ row.template \in Templates
      /\ row.no \in 1..MaxVersions /\ versions[row.template][row.no] = "published"
  BY <1>1, CatalogueAssumption DEF ExperimentRows
<1>4. experiments[p.on].status # "published"
  BY <1>2, CatalogueAssumption DEF NoExperiment
<1> HIDE DEF row
<1> QED BY <1>1, <1>2, <1>3, <1>4, ExperimentsChange

LEMMA PublishExperimentKeeps ==
  ASSUME CatalogueInv, NEW h \in Handlers, PublishExperiment(h)
  PROVE  CatalogueInv'
<1> DEFINE e == handler[h].on
           row == [experiments[e] EXCEPT !.status = "published"]
<1>1. /\ e \in Experiments /\ experiments[e].status = "draft" /\ Finish(h)
      /\ experiments' = [experiments EXCEPT ![e].status = "published"]
      /\ UNCHANGED <<backend, members, rubrics, due, submissions, asked>>
  BY HandlerRow DEF PublishExperiment, Calls, WellFormed
<1> HIDE DEF e
<1>2. experiments[e] \in ExperimentRows /\ experiments' = [experiments EXCEPT ![e] = row]
  BY <1>1 DEF CatalogueInv, TypeOK, ExperimentRows
<1>3. /\ row \in ExperimentRows /\ row.course = experiments[e].course
      /\ row.template = experiments[e].template /\ row.no = experiments[e].no
  BY <1>2 DEF ExperimentRows
<1>4. /\ experiments[e].course \in Courses /\ experiments[e].template \in Templates
      /\ experiments[e].no \in 1..MaxVersions
      /\ versions[experiments[e].template][experiments[e].no] = "published"
  BY <1>1, CatalogueAssumption DEF CatalogueInv, ExperimentsBound
<1> HIDE DEF row
<1> QED BY <1>1, <1>2, <1>3, <1>4, ExperimentsChange

(* Access was granted by an earlier call, and has not lost its ground.       *)
LEMMA CreateSubmissionKeeps ==
  ASSUME CatalogueInv, NEW h \in Handlers, CreateSubmission(h)
  PROVE  CatalogueInv'
<1> DEFINE p == handler[h]
<1>1. /\ p.on \in Experiments /\ p.who \in Users
      /\ experiments[p.on].status = "published"
      /\ enrollments[<<experiments[p.on].course, p.who>>].status # None
  BY HandlerRow DEF CreateSubmission, Calls, Knows, WellFormed, AccessKnown
<1>2. /\ submissions' = submissions \cup {<<p.on, p.who>>} /\ Finish(h)
      /\ UNCHANGED <<backend, members, rubrics, experiments, due, asked>>
  BY DEF CreateSubmission
<1> HIDE DEF p
<1>3. Grows /\ \A q : Untouched(q)
  BY <1>2 DEF Grows, Untouched, members, rubrics
<1>4. /\ HandlersKnow' /\ LocksHeld'
      /\ \A k \in Handlers : /\ handler'[k].do \in Operations \cup {"Nothing"}
                             /\ handler'[k].at \in Places
                             /\ handler'[k].who \in Users \cup {None}
  BY <1>2, <1>3, IsOver
<1>5. TypeOK'
  BY <1>1, <1>2, <1>4 DEF CatalogueInv, TypeOK, Places, members, rubrics
<1>6. VersionsCounted' /\ ExperimentsBound' /\ SerialRolesOfOneRequest'
  BY <1>2 DEF CatalogueInv, VersionsCounted, Numbers, ExperimentsBound, SerialRolesOfOneRequest, members, rubrics
<1>7. SubmissionsHaveGround'
  <2>1. ASSUME NEW x \in submissions'
        PROVE  /\ experiments[x[1]].status = "published"
               /\ enrollments[<<experiments[x[1]].course, x[2]>>].status # None
               /\ x[1] \in Experiments
    <3>1. CASE x \in submissions
      BY <3>1 DEF CatalogueInv, SubmissionsHaveGround, TypeOK
    <3>2. CASE x = <<p.on, p.who>>
      BY <1>1, <3>2
    <3> QED BY <1>2, <3>1, <3>2
  <2> QED BY <1>2, <2>1 DEF SubmissionsHaveGround, members
<1> QED BY <1>4, <1>5, <1>6, <1>7 DEF CatalogueInv

LEMMA UnmovedKeeps ==
  ASSUME CatalogueInv, UNCHANGED <<backend, members, rubrics, experiments, submissions, handler, asked>>,
         due' \in SUBSET Experiments
  PROVE  CatalogueInv'
<1>1. TypeOK' /\ LocksHeld' /\ VersionsCounted' /\ ExperimentsBound' /\ SubmissionsHaveGround' /\ SerialRolesOfOneRequest'
  BY DEF CatalogueInv, TypeOK, LocksHeld, InTransaction, VersionsCounted, Numbers, ExperimentsBound,
         SubmissionsHaveGround, SerialRolesOfOneRequest, members, rubrics
<1>2. HandlersKnow'
  <2>1. \A q : Knows(q) => Knows(q)'
    BY DEF Knows, WellFormed, RolesKnown, NumberKnown, NextNo, LockKnown, BindingKnown, AccessKnown, members, rubrics
  <2> QED BY <2>1 DEF CatalogueInv, HandlersKnow
<1> QED BY <1>1, <1>2 DEF CatalogueInv

-----------------------------------------------------------------------------
(* Theorems *)

LEMMA CatalogueInit == Init => CatalogueInv
<1> SUFFICES ASSUME Init PROVE CatalogueInv
  OBVIOUS
<1>1. /\ backend \in Backends /\ due = {} /\ submissions = {} /\ asked = 0 /\ clash = FALSE
      /\ handler = [h \in Handlers |-> Idle] /\ MaxVersions \in Nat \ {0}
  BY CatalogueAssumption DEF Init
<1>2. HandlersKnow
  BY <1>1, IdleKnows DEF HandlersKnow
<1>3. LocksHeld /\ SubmissionsHaveGround
  BY <1>1, IdleKnows DEF LocksHeld, InTransaction, SubmissionsHaveGround
<1>4. /\ roleRows \in [Users -> SUBSET RoleRows]
      /\ \A u \in Users : \A x \in roleRows[u] : x[2] = 0
      /\ MembersTyped
      /\ owner \in [Templates -> Users \cup {None}]
      /\ versions \in [Templates -> [1..MaxVersions -> {None, "draft", "published"}]]
      /\ \A t \in Templates : Numbers(t) = 1..0 \/ Numbers(t) = 1..1
      /\ experiments \in [Experiments -> ExperimentRows]
      /\ ExperimentsBound
  <2>1. CASE Fresh
    <3>1. /\ roleRows \in [Users -> SUBSET RoleRows]
          /\ \A u \in Users : \A x \in roleRows[u] : x[2] = 0
      BY <2>1, CatalogueAssumption DEF Fresh, RoleRows
    <3>2. MembersTyped
      BY <2>1 DEF Fresh, MembersTyped, Unenrolled
    <3>3. /\ owner \in [Templates -> Users \cup {None}]
          /\ versions \in [Templates -> [1..MaxVersions -> {None, "draft", "published"}]]
          /\ \A t \in Templates : Numbers(t) = {}
      BY <2>1 DEF Fresh, Numbers
    <3>4. experiments \in [Experiments -> ExperimentRows] /\ ExperimentsBound
      BY <1>1, <2>1 DEF Fresh, NoExperiment, ExperimentRows, ExperimentsBound
    <3> QED BY <3>1, <3>2, <3>3, <3>4
  <2>2. CASE InTerm
    <3>1. PICK u \in Users \ {Root}, c \in Courses, t \in Templates, k \in Classes, e \in Experiments :
            /\ roleRows = [v \in Users |-> IF v = Root THEN {<<"admin", 0>>}
                                   ELSE IF v = u THEN {<<"teacher", 0>>, <<"student", 0>>} ELSE {}]
            /\ courses = {c} /\ classes = {k} /\ attached = {<<c, k>>}
            /\ teachers = [p \in Courses \X Users |-> IF p = <<c, u>> THEN "editor" ELSE None]
            /\ enrollments = [p \in Courses \X Users |->
                                IF p = <<c, u>> THEN [status |-> "active", class |-> k] ELSE Unenrolled]
            /\ owner = [x \in Templates |-> IF x = t THEN u ELSE None]
            /\ \E s \in {"draft", "published"} :
                 /\ versions = [x \in Templates |-> [n \in 1..MaxVersions |-> IF x = t /\ n = 1 THEN s ELSE None]]
                 /\ experiments = [x \in Experiments |->
                      IF x = e /\ s = "published" THEN [status |-> "draft", course |-> c, template |-> t, no |-> 1]
                      ELSE NoExperiment]
      BY <2>2 DEF InTerm
    <3>2. /\ roleRows \in [Users -> SUBSET RoleRows]
          /\ \A v \in Users : \A x \in roleRows[v] : x[2] = 0
      BY <3>1, CatalogueAssumption DEF RoleRows
    <3>3. MembersTyped
      <4>1. enrollments \in [Courses \X Users -> [status : {None, "active", "dropped"}, class : Classes \cup {None}]]
        BY <3>1 DEF Unenrolled
      <4>2. ASSUME NEW d \in Courses, NEW v \in Users, enrollments[<<d, v>>].class # None
            PROVE  <<d, enrollments[<<d, v>>].class>> \in attached
        BY <3>1, <4>2 DEF Unenrolled
      <4>3. courses \subseteq Courses /\ classes \subseteq Classes /\ attached \subseteq courses \X classes
        BY <3>1
      <4>4. teachers \in [Courses \X Users -> {"owner", "editor", "viewer", None}]
        BY <3>1
      <4> QED BY <4>1, <4>2, <4>3, <4>4 DEF MembersTyped
    <3>4. PICK s \in {"draft", "published"} :
            /\ versions = [x \in Templates |-> [n \in 1..MaxVersions |-> IF x = t /\ n = 1 THEN s ELSE None]]
            /\ experiments = [x \in Experiments |->
                 IF x = e /\ s = "published" THEN [status |-> "draft", course |-> c, template |-> t, no |-> 1]
                 ELSE NoExperiment]
      BY <3>1
    <3>5. /\ owner \in [Templates -> Users \cup {None}]
          /\ versions \in [Templates -> [1..MaxVersions -> {None, "draft", "published"}]]
      BY <3>1, <3>4
    <3>6. \A x \in Templates : Numbers(x) = 1..0 \/ Numbers(x) = 1..1
      <4>1. Numbers(t) = {1}
        BY <1>1, <3>4, CatalogueAssumption DEF Numbers
      <4>2. \A x \in Templates \ {t} : Numbers(x) = {}
        BY <3>4 DEF Numbers
      <4> QED BY <4>1, <4>2
    <3>7. experiments \in [Experiments -> ExperimentRows] /\ ExperimentsBound
      <4>1. /\ [status |-> "draft", course |-> c, template |-> t, no |-> 1] \in ExperimentRows
            /\ NoExperiment \in ExperimentRows /\ NoExperiment.status = None
        BY <1>1 DEF ExperimentRows, NoExperiment
      <4>2. experiments \in [Experiments -> ExperimentRows]
        BY <3>4, <4>1
      <4>3. ASSUME NEW x \in Experiments, experiments[x].status # None
            PROVE  experiments[x] = [status |-> "draft", course |-> c, template |-> t, no |-> 1] /\ s = "published"
        BY <3>4, <4>1, <4>3
      <4>4. s = "published" => versions[t][1] = "published"
        BY <1>1, <3>4
      <4> QED BY <1>1, <4>2, <4>3, <4>4 DEF ExperimentsBound
    <3> QED BY <3>1, <3>2, <3>3, <3>5, <3>6, <3>7
  <2> QED BY <2>1, <2>2 DEF Init
<1>5. VersionsCounted /\ SerialRolesOfOneRequest
  <2>1. 0 \in 0..MaxVersions /\ 1 \in 0..MaxVersions
    BY <1>1
  <2>2. VersionsCounted
    BY <1>1, <1>4, <2>1 DEF VersionsCounted
  <2>3. SerialRolesOfOneRequest
    BY <1>4 DEF SerialRolesOfOneRequest
  <2> QED BY <2>2, <2>3
<1>6. TypeOK
  <2>1. \A h \in Handlers : /\ handler[h].do \in Operations \cup {"Nothing"}
                            /\ handler[h].at \in Places
                            /\ handler[h].who \in Users \cup {None}
    BY <1>2 DEF HandlersKnow, Rows
  <2>2. asked \in 0..MaxRequests /\ clash \in BOOLEAN
    <3>1. 0 \in 0..MaxRequests
      BY CatalogueAssumption
    <3> QED BY <1>1, <3>1
  <2>3. due \subseteq Experiments /\ submissions \subseteq Experiments \X Users
    BY <1>1
  <2>4. backend \in Backends
    BY <1>1
  <2> QED BY <1>4, <2>1, <2>2, <2>3, <2>4 DEF TypeOK, MembersTyped, RoleRows, ExperimentRows, Places
<1> QED BY <1>2, <1>3, <1>4, <1>5, <1>6 DEF CatalogueInv

LEMMA CatalogueNext == CatalogueInv /\ [Next]_vars => CatalogueInv'
<1> SUFFICES ASSUME CatalogueInv, [Next]_vars PROVE CatalogueInv'
  OBVIOUS
<1>1. ASSUME NEW h \in Handlers, HandlerStep(h) PROVE CatalogueInv'
  BY <1>1, RequestKeeps, CheckKeeps, BindKeeps, FailKeeps, CreateUserKeeps, SelectRolesKeeps, DeleteRolesKeeps,
     SetUserRolesKeeps, CourseSteps, AssignKeeps, EnrollKeeps, TemplateKeeps, NumberKeeps, CreateVersionKeeps,
     LockKeeps, PublishVersionKeeps, CreateExperimentKeeps, PublishExperimentKeeps, CreateSubmissionKeeps
     DEF HandlerStep
<1>2. ASSUME NEW e \in Experiments, PassDue(e) PROVE CatalogueInv'
  <2>1. due' \in SUBSET Experiments
    BY <1>2 DEF PassDue, CatalogueInv, TypeOK
  <2> QED BY <1>2, <2>1, UnmovedKeeps DEF PassDue
<1>3. CASE UNCHANGED vars
  <2>1. due' \in SUBSET Experiments /\ UNCHANGED <<backend, members, rubrics, experiments, submissions, handler, asked>>
    BY <1>3 DEF vars, members, rubrics, CatalogueInv, TypeOK
  <2> QED BY <2>1, UnmovedKeeps
<1> QED BY <1>1, <1>2, <1>3 DEF Next

(* The tables and requests keep their types, and what a request was told     *)
(* holds until it acts on it.                                                *)
THEOREM CatalogueInvariance == Spec => []CatalogueInv
  BY CatalogueInit, CatalogueNext, PTL DEF Spec

(* The types of the tables and of the requests.                              *)
THEOREM CatalogueTyped == Spec => []TypeOK
<1>1. CatalogueInv => TypeOK
  BY DEF CatalogueInv
<1> QED BY <1>1, CatalogueInvariance, PTL

(* CreateRubricVersion numbers without gaps, and never meets a number that   *)
(* is taken, however many teachers create versions at once.                  *)
THEOREM NoNumberTwice == Spec => []VersionsNumbered
<1>1. CatalogueInv => VersionsNumbered
  BY CountedIsNumbered DEF CatalogueInv
<1> QED BY <1>1, CatalogueInvariance, PTL

(* CreateExperiment binds a published version: the status it read in an      *)
(* earlier call cannot be taken back.                                        *)
THEOREM BoundIsPublished == Spec => []ExperimentsBindPublished
<1>1. CatalogueInv => ExperimentsBindPublished
  BY DEF CatalogueInv, ExperimentsBound, ExperimentsBindPublished
<1> QED BY <1>1, CatalogueInvariance, PTL

(* CreateSubmission relies on an access check made in an earlier call; its   *)
(* ground, a published experiment and an enrolment, is still there.          *)
THEOREM SubmissionsGrounded == Spec => []SubmissionsHaveGround
<1>1. CatalogueInv => SubmissionsHaveGround
  BY DEF CatalogueInv
<1> QED BY <1>1, CatalogueInvariance, PTL

(* On SQLite a role list is always that of one request.                      *)
THEOREM RolesOfOne == Spec => []SerialRolesOfOneRequest
<1>1. CatalogueInv => SerialRolesOfOneRequest
  BY DEF CatalogueInv
<1> QED BY <1>1, CatalogueInvariance, PTL

=============================================================================
