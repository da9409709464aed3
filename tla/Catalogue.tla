----------------------------- MODULE Catalogue -----------------------------
(***************************************************************************)
(* Users and roles, courses and their members, rubric templates and their   *)
(* versions, experiments, and the opening of submissions: the calls of      *)
(* teaching/service.go over the tables of migration 000002.                 *)
(*                                                                          *)
(* A request resolves its actor, makes the reads its checks need, and then  *)
(* one transaction; nothing holds across these steps.  On Postgres a        *)
(* transaction of several statements meets others at row locks and unique   *)
(* keys (READ COMMITTED); on SQLite the pool has a single connection, so no *)
(* statement runs while a transaction is open.                              *)
(***************************************************************************)
EXTENDS Integers, FiniteSets

CONSTANTS
  Users, Root,     \* accounts; Root is the administrator of the bootstrap
  RoleSets,        \* role lists an administrator may send
  Permissions,     \* permissions of a course teacher
  Courses, Classes, Templates, Experiments, Handlers,
  None,
  Backends,        \* database engines looked at
  MaxVersions,     \* bound: versions of a template
  MaxRequests      \* bound: requests in a behaviour

ASSUME CatalogueAssumption ==
  /\ Root \in Users
  /\ RoleSets \subseteq SUBSET {"admin", "teacher", "student"} \ {{}}
  /\ Permissions \subseteq {"owner", "editor", "viewer"}
  /\ Backends \subseteq {"postgres", "sqlite"}
  /\ None \notin Users \cup Courses \cup Classes \cup Templates \cup Experiments
  /\ None \notin {"draft", "published", "active", "dropped"}
  /\ MaxVersions \in Nat \ {0}
  /\ MaxRequests \in Nat

VARIABLES
  backend,
  roleRows,     \* user_roles: for each user, pairs of a role and the request that wrote it
  courses,      \* courses created
  classes,      \* classes created
  attached,     \* course_classes
  teachers,     \* course_teachers: permission of a user in a course, or None
  enrollments,  \* enrollments: status and class of a user in a course
  owner,        \* rubric_templates: owner, or None before the template exists
  versions,     \* rubric_template_versions: status of each number of a template
  experiments,  \* experiments: course, version, status
  due,          \* experiments whose due_at has passed
  submissions,  \* opened submissions: experiment and student
  handler,      \* requests under way
  asked,        \* number of requests so far
  clash         \* has a creation been refused because its version number was taken?

vars == <<backend, roleRows, courses, classes, attached, teachers, enrollments, owner, versions,
          experiments, due, submissions, handler, asked, clash>>
members == <<roleRows, courses, classes, attached, teachers, enrollments>>
rubrics == <<owner, versions, clash>>
tasks == <<experiments, due, submissions>>

Roles(u) == {row[1] : row \in roleRows[u]}
Unenrolled == [status |-> None, class |-> None]
NoExperiment == [status |-> None, course |-> None, template |-> None, no |-> 0]
Idle == [do |-> "Nothing", at |-> "idle", id |-> 0, who |-> None, on |-> None, arg |-> None, saw |-> {}]

Operations ==
  {"CreateUser", "SetUserRoles", "CreateCourse", "CreateClass", "AddCourseClass", "AssignTeacher",
   "EnrollStudent", "CreateRubricTemplate", "CreateRubricVersion", "PublishRubricVersion",
   "CreateExperiment", "PublishExperiment", "CreateSubmission"}

TypeOK ==
  /\ backend \in Backends
  /\ roleRows \in [Users -> SUBSET ({"admin", "teacher", "student"} \X (0..MaxRequests))]
  /\ courses \subseteq Courses
  /\ classes \subseteq Classes
  /\ attached \subseteq courses \X classes
  /\ teachers \in [Courses \X Users -> {"owner", "editor", "viewer", None}]
  /\ enrollments \in [Courses \X Users -> [status : {None, "active", "dropped"}, class : Classes \cup {None}]]
  /\ \A c \in Courses, u \in Users :
       enrollments[<<c, u>>].class # None => <<c, enrollments[<<c, u>>].class>> \in attached
  /\ owner \in [Templates -> Users \cup {None}]
  /\ versions \in [Templates -> [1..MaxVersions -> {None, "draft", "published"}]]
  /\ experiments \in [Experiments ->
       [status : {None, "draft", "published"}, course : Courses \cup {None},
        template : Templates \cup {None}, no : 0..MaxVersions]]
  /\ due \subseteq Experiments
  /\ submissions \subseteq Experiments \X Users
  /\ \A h \in Handlers :
       /\ handler[h].do \in Operations \cup {"Nothing"}
       /\ handler[h].at \in {"idle", "check", "bind", "call", "deleting", "deleted", "numbered", "locked"}
       /\ handler[h].who \in Users \cup {None}
  /\ asked \in 0..MaxRequests
  /\ clash \in BOOLEAN

(* A new installation with its first administrator.                         *)
Fresh ==
  /\ roleRows = [u \in Users |-> IF u = Root THEN {<<"admin", 0>>} ELSE {}]
  /\ courses = {} /\ classes = {} /\ attached = {}
  /\ teachers = [p \in Courses \X Users |-> None]
  /\ enrollments = [p \in Courses \X Users |-> Unenrolled]
  /\ owner = [t \in Templates |-> None]
  /\ versions = [t \in Templates |-> [n \in 1..MaxVersions |-> None]]
  /\ experiments = [e \in Experiments |-> NoExperiment]

(* What a course looks like in the middle of a term: some user teaches and  *)
(* studies in it, a draft version and perhaps a draft experiment.           *)
InTerm ==
  \E u \in Users \ {Root}, c \in Courses, t \in Templates, k \in Classes, e \in Experiments :
    /\ roleRows = [v \in Users |-> IF v = Root THEN {<<"admin", 0>>}
                                   ELSE IF v = u THEN {<<"teacher", 0>>, <<"student", 0>>} ELSE {}]
    /\ courses = {c} /\ classes = {k} /\ attached = {<<c, k>>}
    /\ teachers = [p \in Courses \X Users |-> IF p = <<c, u>> THEN "editor" ELSE None]
    /\ enrollments = [p \in Courses \X Users |->
                        IF p = <<c, u>> THEN [status |-> "active", class |-> k] ELSE Unenrolled]
    /\ owner = [x \in Templates |-> IF x = t THEN u ELSE None]
    /\ \E s \in {"draft", "published"} :
         /\ versions = [x \in Templates |-> [n \in 1..MaxVersions |-> IF x = t /\ n = 1 THEN s ELSE None]]
         /\ experiments = [x \in Experiments |->
              IF x = e /\ s = "published" THEN [status |-> "draft", course |-> c, template |-> t, no |-> 1]
              ELSE NoExperiment]

Init ==
  /\ backend \in Backends
  /\ Fresh \/ InTerm
  /\ due = {}
  /\ submissions = {}
  /\ handler = [h \in Handlers |-> Idle]
  /\ asked = 0
  /\ clash = FALSE

-----------------------------------------------------------------------------
(* Transactions *)

InTransaction(h) == handler[h].at \in {"deleting", "deleted", "numbered", "locked"}

(* SQLite: the one connection belongs to the open transaction.              *)
Connected(h) == backend = "sqlite" => \A k \in Handlers \ {h} : ~InTransaction(k)

Goto(h, l) == handler' = [handler EXCEPT ![h].at = l]

Finish(h) == handler' = [handler EXCEPT ![h] = Idle]

(* h is about to make its call of an operation.                             *)
Calls(h, op) == Connected(h) /\ handler[h].do = op /\ handler[h].at = "call"

(* An error from the database, the audit row included: rolled back.         *)
Fail(h) == handler[h].at # "idle" /\ Finish(h) /\ UNCHANGED <<backend, members, rubrics, tasks, asked>>

-----------------------------------------------------------------------------
(* Requests.  NewActor and Require look at the roles read on arrival; the   *)
(* reads that follow depend on whether the actor is an administrator.       *)

Staff(u) == Roles(u) \cap {"admin", "teacher"} # {}

MayAsk(u, op) ==
  CASE op \in {"CreateUser", "SetUserRoles", "CreateCourse", "CreateClass", "AddCourseClass",
               "AssignTeacher", "EnrollStudent"} -> "admin" \in Roles(u)
    [] op = "CreateSubmission" -> "student" \in Roles(u)
    [] OTHER -> Staff(u)

FirstStep(u, op) ==
  CASE op \in {"AssignTeacher", "EnrollStudent", "CreateSubmission"} -> "check"
    [] op \in {"CreateRubricVersion", "PublishRubricVersion", "PublishExperiment"} /\ "admin" \notin Roles(u) -> "check"
    [] op = "CreateExperiment" -> IF "admin" \in Roles(u) THEN "bind" ELSE "check"
    [] OTHER -> "call"

Arrive(h, u, op, on, arg) ==
  /\ handler[h] = Idle
  /\ asked < MaxRequests
  /\ MayAsk(u, op)
  /\ asked' = asked + 1
  /\ handler' = [handler EXCEPT ![h] = [do |-> op, at |-> FirstStep(u, op), id |-> asked', who |-> u,
                                        on |-> on, arg |-> arg, saw |-> {}]]
  /\ UNCHANGED <<backend, members, rubrics, tasks>>

UserRequest(h, u) ==
  \E v \in Users \ {Root}, r \in RoleSets, op \in {"CreateUser", "SetUserRoles"} : Arrive(h, u, op, v, r)

CourseRequest(h, u) ==
  \E c \in Courses :
    \/ Arrive(h, u, "CreateCourse", c, None)
    \/ \E k \in Classes : Arrive(h, u, "CreateClass", k, None) \/ Arrive(h, u, "AddCourseClass", c, k)
    \/ \E v \in Users, p \in Permissions : Arrive(h, u, "AssignTeacher", c, <<v, p>>)
    \/ \E v \in Users, s \in {"active", "dropped"}, k \in Classes \cup {None} :
         Arrive(h, u, "EnrollStudent", c, <<v, s, k>>)

RubricRequest(h, u) ==
  \E t \in Templates, op \in {"CreateRubricTemplate", "CreateRubricVersion"} : Arrive(h, u, op, t, None)

(* Publication of a version, and an experiment that is to use it.           *)
VersionRequest(h, u) ==
  \E t \in Templates, n \in 1..MaxVersions :
    \/ Arrive(h, u, "PublishRubricVersion", t, n)
    \/ \E e \in Experiments, c \in Courses : Arrive(h, u, "CreateExperiment", e, <<c, t, n>>)

ExperimentRequest(h, u) ==
  \E e \in Experiments, op \in {"PublishExperiment", "CreateSubmission"} : Arrive(h, u, op, e, None)

Request(h) ==
  \E u \in Users :
    UserRequest(h, u) \/ CourseRequest(h, u) \/ RubricRequest(h, u) \/ VersionRequest(h, u)
      \/ ExperimentRequest(h, u)

-----------------------------------------------------------------------------
(* Reads *)

UserHasRole(u, role) == role \in Roles(u)

TeacherCanEditCourse(c, u) == c # None /\ teachers[<<c, u>>] \in {"owner", "editor"}

RubricTemplateOwner(t) == owner[t]

RubricVersionOwner(t, n) == IF versions[t][n] = None THEN None ELSE owner[t]

(* Variant: any version there is will do. *)
AnyVersionStatus(t, n) == IF versions[t][n] = None THEN None ELSE "published"

RubricVersionStatus(t, n) == versions[t][n]

(* Variant: the status of the experiment is not asked for. *)
AccessByEnrollment(e, u) ==
  /\ experiments[e].status # None
  /\ enrollments[<<experiments[e].course, u>>].status = "active"
  /\ e \notin due

ExperimentSubmissionAccess(e, u) ==
  /\ experiments[e].status = "published"
  /\ enrollments[<<experiments[e].course, u>>].status = "active"
  /\ e \notin due

(* The read each service method makes before its call, of request q.        *)
MayAssign(q) == UserHasRole(q.arg[1], "teacher")

MayEnroll(q) == UserHasRole(q.arg[1], "student")

MayAddVersion(q) == RubricTemplateOwner(q.on) = q.who

MayPublishVersion(q) == RubricVersionOwner(q.on, q.arg) = q.who

MayPublish(q) == TeacherCanEditCourse(experiments[q.on].course, q.who)

Allowed(q) ==
  CASE q.do = "AssignTeacher" -> MayAssign(q)
    [] q.do = "EnrollStudent" -> MayEnroll(q)
    [] q.do = "CreateRubricVersion" -> MayAddVersion(q)
    [] q.do = "PublishRubricVersion" -> MayPublishVersion(q)
    [] q.do = "CreateExperiment" -> TeacherCanEditCourse(q.arg[1], q.who)
    [] q.do = "PublishExperiment" -> MayPublish(q)
    [] q.do = "CreateSubmission" -> ExperimentSubmissionAccess(q.on, q.who)

Check(h) ==
  /\ Connected(h)
  /\ handler[h].at = "check"
  /\ Allowed(handler[h])
  /\ Goto(h, IF handler[h].do = "CreateExperiment" THEN "bind" ELSE "call")
  /\ UNCHANGED <<backend, members, rubrics, tasks, asked>>

BindVersion(h) ==
  /\ Connected(h)
  /\ handler[h].at = "bind"
  /\ RubricVersionStatus(handler[h].arg[2], handler[h].arg[3]) = "published"
  /\ Goto(h, "call")
  /\ UNCHANGED <<backend, members, rubrics, tasks, asked>>

-----------------------------------------------------------------------------
(* Members *)

RowsOf(h) == {<<r, handler[h].id>> : r \in handler[h].arg}

CreateUser(h) ==
  LET u == handler[h].on IN
  /\ Calls(h, "CreateUser")
  /\ roleRows[u] = {}
  /\ roleRows' = [roleRows EXCEPT ![u] = RowsOf(h)]
  /\ Finish(h)
  /\ UNCHANGED <<backend, courses, classes, attached, teachers, enrollments, rubrics, tasks, asked>>

(* DELETE FROM user_roles: the rows to delete are those there are now ...   *)
SelectRoles(h) ==
  LET u == handler[h].on IN
  /\ Calls(h, "SetUserRoles")
  /\ roleRows[u] # {}
  /\ handler' = [handler EXCEPT ![h].at = "deleting", ![h].saw = roleRows[u]]
  /\ UNCHANGED <<backend, members, rubrics, tasks, asked>>

(* ... and they are deleted when no other transaction holds one of them; a  *)
(* row that has gone meanwhile is passed over.                              *)
DeleteRoles(h) ==
  LET u == handler[h].on IN
  /\ handler[h].at = "deleting"
  /\ \A k \in Handlers : handler[k].at = "deleted" /\ handler[k].on = u => handler[k].saw \cap handler[h].saw = {}
  /\ handler' = [handler EXCEPT ![h].at = "deleted", ![h].saw = @ \cap roleRows[u]]
  /\ UNCHANGED <<backend, members, rubrics, tasks, asked>>

(* Variant: the old rows are not deleted. *)
AddRoles(h) ==
  LET u == handler[h].on IN
  /\ handler[h].at = "deleted"
  /\ roleRows' = [roleRows EXCEPT ![u] = @ \cup RowsOf(h)]
  /\ Finish(h)
  /\ UNCHANGED <<backend, courses, classes, attached, teachers, enrollments, rubrics, tasks, asked>>

(* A role that is still there under the key of a new row is an error.       *)
SetUserRoles(h) ==
  LET u == handler[h].on
      kept == roleRows[u] \ handler[h].saw
  IN
  /\ handler[h].at = "deleted"
  /\ {row[1] : row \in kept} \cap handler[h].arg = {}
  /\ roleRows' = [roleRows EXCEPT ![u] = kept \cup RowsOf(h)]
  /\ Finish(h)
  /\ UNCHANGED <<backend, courses, classes, attached, teachers, enrollments, rubrics, tasks, asked>>

CreateCourse(h) ==
  /\ Calls(h, "CreateCourse")
  /\ handler[h].on \notin courses
  /\ courses' = courses \cup {handler[h].on}
  /\ Finish(h)
  /\ UNCHANGED <<backend, roleRows, classes, attached, teachers, enrollments, rubrics, tasks, asked>>

CreateClass(h) ==
  /\ Calls(h, "CreateClass")
  /\ handler[h].on \notin classes
  /\ classes' = classes \cup {handler[h].on}
  /\ Finish(h)
  /\ UNCHANGED <<backend, roleRows, courses, attached, teachers, enrollments, rubrics, tasks, asked>>

AddCourseClass(h) ==
  /\ Calls(h, "AddCourseClass")
  /\ handler[h].on \in courses
  /\ handler[h].arg \in classes
  /\ attached' = attached \cup {<<handler[h].on, handler[h].arg>>}
  /\ Finish(h)
  /\ UNCHANGED <<backend, roleRows, courses, classes, teachers, enrollments, rubrics, tasks, asked>>

AssignTeacher(h) ==
  /\ Calls(h, "AssignTeacher")
  /\ handler[h].on \in courses
  /\ teachers' = [teachers EXCEPT ![<<handler[h].on, handler[h].arg[1]>>] = handler[h].arg[2]]
  /\ Finish(h)
  /\ UNCHANGED <<backend, roleRows, courses, classes, attached, enrollments, rubrics, tasks, asked>>

EnrollStudent(h) ==
  LET q == handler[h] IN
  /\ Calls(h, "EnrollStudent")
  /\ q.on \in courses
  /\ q.arg[3] # None => <<q.on, q.arg[3]>> \in attached
  /\ enrollments' = [enrollments EXCEPT ![<<q.on, q.arg[1]>>] = [status |-> q.arg[2], class |-> q.arg[3]]]
  /\ Finish(h)
  /\ UNCHANGED <<backend, roleRows, courses, classes, attached, teachers, rubrics, tasks, asked>>

-----------------------------------------------------------------------------
(* Rubrics *)

CreateRubricTemplate(h) ==
  /\ Calls(h, "CreateRubricTemplate")
  /\ owner[handler[h].on] = None
  /\ owner' = [owner EXCEPT ![handler[h].on] = handler[h].who]
  /\ Finish(h)
  /\ UNCHANGED <<backend, members, versions, clash, tasks, asked>>

NextNo(t) == Cardinality({n \in 1..MaxVersions : versions[t][n] # None}) + 1

(* Variant: the template is read without FOR UPDATE. *)
NumberWithoutLock(h) ==
  /\ Calls(h, "CreateRubricVersion")
  /\ owner[handler[h].on] # None
  /\ NextNo(handler[h].on) <= MaxVersions
  /\ handler' = [handler EXCEPT ![h].at = "numbered", ![h].arg = NextNo(handler[h].on)]
  /\ UNCHANGED <<backend, members, rubrics, tasks, asked>>

(* SELECT ... FOR UPDATE on the template, then MAX(version_no) + 1.         *)
NumberVersion(h) ==
  LET t == handler[h].on IN
  /\ Calls(h, "CreateRubricVersion")
  /\ owner[t] # None
  /\ \A k \in Handlers : ~(handler[k].at = "numbered" /\ handler[k].on = t)
  /\ NextNo(t) <= MaxVersions
  /\ handler' = [handler EXCEPT ![h].at = "numbered", ![h].arg = NextNo(t)]
  /\ UNCHANGED <<backend, members, rubrics, tasks, asked>>

(* The version and its metrics; UNIQUE (template_id, version_no).           *)
CreateRubricVersion(h) ==
  LET t == handler[h].on
      n == handler[h].arg
  IN
  /\ handler[h].at = "numbered"
  /\ IF versions[t][n] = None
     THEN versions' = [versions EXCEPT ![t][n] = "draft"] /\ UNCHANGED clash
     ELSE clash' = TRUE /\ UNCHANGED versions
  /\ Finish(h)
  /\ UNCHANGED <<backend, members, owner, tasks, asked>>

(* SELECT ... FOR UPDATE on the version, which must be a draft.             *)
LockVersion(h) ==
  LET t == handler[h].on
      n == handler[h].arg
  IN
  /\ Calls(h, "PublishRubricVersion")
  /\ \A k \in Handlers : ~(handler[k].at = "locked" /\ handler[k].on = t /\ handler[k].arg = n)
  /\ versions[t][n] = "draft"
  /\ Goto(h, "locked")
  /\ UNCHANGED <<backend, members, rubrics, tasks, asked>>

PublishRubricVersion(h) ==
  /\ handler[h].at = "locked"
  /\ versions' = [versions EXCEPT ![handler[h].on][handler[h].arg] = "published"]
  /\ Finish(h)
  /\ UNCHANGED <<backend, members, owner, clash, tasks, asked>>

-----------------------------------------------------------------------------
(* Experiments and submissions *)

CreateExperiment(h) ==
  LET e == handler[h].on
      a == handler[h].arg
  IN
  /\ Calls(h, "CreateExperiment")
  /\ experiments[e] = NoExperiment
  /\ a[1] \in courses
  /\ experiments' = [experiments EXCEPT ![e] = [status |-> "draft", course |-> a[1], template |-> a[2], no |-> a[3]]]
  /\ Finish(h)
  /\ UNCHANGED <<backend, members, rubrics, due, submissions, asked>>

PublishExperiment(h) ==
  LET e == handler[h].on IN
  /\ Calls(h, "PublishExperiment")
  /\ experiments[e].status = "draft"
  /\ experiments' = [experiments EXCEPT ![e].status = "published"]
  /\ Finish(h)
  /\ UNCHANGED <<backend, members, rubrics, due, submissions, asked>>

CreateSubmission(h) ==
  LET s == <<handler[h].on, handler[h].who>> IN
  /\ Calls(h, "CreateSubmission")
  /\ s \notin submissions
  /\ submissions' = submissions \cup {s}
  /\ Finish(h)
  /\ UNCHANGED <<backend, members, rubrics, experiments, due, asked>>

(* Time: the due_at of an experiment passes.                                *)
PassDue(e) ==
  /\ experiments[e].status # None
  /\ e \notin due
  /\ due' = due \cup {e}
  /\ UNCHANGED <<backend, members, rubrics, experiments, submissions, handler, asked>>

-----------------------------------------------------------------------------

HandlerStep(h) ==
  \/ Request(h) \/ Check(h) \/ BindVersion(h) \/ Fail(h)
  \/ CreateUser(h) \/ SelectRoles(h) \/ DeleteRoles(h) \/ SetUserRoles(h)
  \/ CreateCourse(h) \/ CreateClass(h) \/ AddCourseClass(h) \/ AssignTeacher(h) \/ EnrollStudent(h)
  \/ CreateRubricTemplate(h) \/ NumberVersion(h) \/ CreateRubricVersion(h)
  \/ LockVersion(h) \/ PublishRubricVersion(h)
  \/ CreateExperiment(h) \/ PublishExperiment(h) \/ CreateSubmission(h)

Next == (\E h \in Handlers : HandlerStep(h)) \/ (\E e \in Experiments : PassDue(e))

Spec == Init /\ [][Next]_vars

-----------------------------------------------------------------------------
(* Properties *)

(* Concurrent creations number the versions of a template 1, 2, 3, ... and  *)
(* none of them is refused because another took its number.                 *)
VersionsNumbered ==
  /\ ~clash
  /\ \A t \in Templates, n \in 1..MaxVersions :
       versions[t][n] # None => \A m \in 1..n : versions[t][m] # None

(* An experiment binds a published version of a rubric, although the status *)
(* was read in an earlier call and a publication may still roll back.       *)
ExperimentsBindPublished ==
  \A e \in Experiments :
    LET x == experiments[e] IN
    x.status # None => versions[x.template][x.no] = "published"

(* A submission belongs to a published experiment of a course its student   *)
(* is or was enrolled in, although both were read in an earlier call: the   *)
(* student may have been dropped, and due_at passed, since that read.       *)
SubmissionsHaveGround ==
  \A s \in submissions :
    LET e == experiments[s[1]] IN
    /\ e.status = "published"
    /\ enrollments[<<e.course, s[2]>>].status # None

(* The roles of a user are those of one request, because setting them       *)
(* replaces all: with the single connection of SQLite, that is.  Two        *)
(* requests at once on Postgres may leave the union of both.                *)
SerialRolesOfOneRequest ==
  backend = "sqlite" => \A u \in Users : \A x, y \in roleRows[u] : x[2] = y[2]

=============================================================================
