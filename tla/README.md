# Verification of the teaching platform server

TLA+ modules, TLC configurations and TLAPS proofs about the Go server of this
repository: a platform on which teachers set experiments, students submit
artifacts, an evaluation is drafted by rules and a language model, a teacher
reviews it and publishes a score.

`PROJECT.json` lists components, runs, the definitions' places in the source,
one faulty variant per property, findings, hazards and theorems. A module's
header says what part of the code it stands for.

## 1. The system

One server process (`cmd/server`) with a PostgreSQL or SQLite database, a
directory of files (`STORAGE_ROOT`), a browser console, and optionally a Python
gateway for parsing and language-model calls. Everything below is in
`internal/` unless another path is given.

| Component | State | Operations | Correct when |
|---|---|---|---|
| Evaluation job queue (`teaching/evaluation_service.go`, `postgres.go`) | `jobs` rows, `evaluation_results` and its children, the buffered channel `evaluationQueue`, worker goroutines | request, claim by id, claim the oldest, run, complete, fail, poll | a requested job is picked up and run once, ends once, answers with its own result |
| AI worker API (`api/ai_worker.go`, `evaluation_service.go:157-256`) | the same rows; what worker processes were handed | claim, complete, fail over HTTP | a job is handed to one party; late or repeated calls do not restart it |
| Teacher review (`teaching/review_service.go`, `postgres.go:1330-1460`) | `teacher_reviews`, `teacher_metric_scores`, `audit_logs`, row locks | save a draft, publish, read | one review per submission, its scores those of its last save, published once and then unchangeable |
| Review scoring (`review_service.go:96-149`) | none | accept scores, weighted total | complete, and within rounding of the weighted mean |
| Submissions and uploads (`submission_service.go`, `submission_parser.go`, `artifact_parser.go`) | `submissions`, `artifacts`, `extracted_contents` rows, files | open, upload, link, read | rows have files, files have rows, the limit of artifacts |
| Catalogue (`teaching/service.go`, `domain.go`) | users, roles, courses, classes, members, rubric templates and versions, experiments | create, assign, enrol, number and publish versions, publish experiments | versions numbered without gaps; an experiment binds a published one; a submission has a published experiment and a row of enrolment |
| Bootstrap (`service.go:399-446`, `api/bootstrap.go`) | `users` | first administrator | no administrator is made this way for someone who came after there was a user |
| Sessions (`authn/`) | `auth_sessions`, password hashes | login, touch, refresh, logout, change password, purge | an expired, deleted or rotated-away session does not come back |
| Deployment assistant (`assistant/`) | conversations, messages, context snapshots, tool calls | open a conversation, send a message, confirm a tool call | a tool runs after a confirmation only, in its scope |
| Reports (`report_service.go`, `report_binary.go`) | `report_exports`, files | summaries, exports, download | an export that says succeeded has its file; summaries add up |
| Evaluation rules and engines (`evaluation_rules.go`, `evaluation_service.go:290-660`) | one evaluation being made | findings, penalties, rule scores; the answers of gateway, model or worker | scores within range; suggestions of one whole valid answer; completed only on sound evidence |
| Gateway and model clients (`aigateway/`, `llm/`) | none | HTTP calls with timeouts | a failure is an error, not a result |
| Configuration (`config/`, `runtimecfg/`) | environment, `runtime.json` | load at start, save | a restart runs on what was saved |
| Upgrade runner (`upgrade/`, `cmd/upgrade`) | `system_upgrades`, an older `schema_migrations`, the schema | import, skip, apply | each version once, in order, its journal true |
| HTTP, database access, storage, health | - | - | adapters |
| `jobs/` (in-memory runner) | - | - | not used by the server |
| `python-ai-gateway/`, `web/`, `deploy/`, `scripts/` | - | - | separate programs |

How they interact:

- Every HTTP handler is a goroutine that makes one service call, and a service
  call is a sequence of repository calls. Most repository calls are one
  statement or one READ COMMITTED transaction; nothing locks across two of them.
- The queue couples the request handlers, the pool and the AI worker API
  through `jobs` rows. The channel is only a hint; the one-second ticker of
  every worker finds what the channel lost.
- Uploads write a file, then a row; reviews read the evaluation, then lock and
  write their own rows; exports write a row, a file and the row again.
- A crash loses goroutines and channel and keeps rows and files. The only
  recovery at start is the upgrade of the schema, which the upgrade command may
  be making at the same time.
- The configuration file is written by a request and read at the next start; it
  decides which database the server opens, and whether it upgrades it.
- SQLite is opened with a single connection (`database/database.go:75`), so its
  transactions run one after the other: a subset of the interleavings modelled
  for PostgreSQL.

What is hard here is in `hazards`: check-then-act across two repository calls,
replies that are lost after a commit, processes that die between two writes,
two parties that take work from one queue, locks of concurrent saves, two
processes that upgrade one schema, answers that end in the middle, and integer
rounding.

## 2. Modules

| Module | Stands for | Kind |
|---|---|---|
| `EvaluationJobs` | queue, pool, run of a job | state machine |
| `EvaluationJobContract` | what `GetEvaluationJob` promises a polling client | abstract specification |
| `ExternalWorkers` | AI worker API, extends `EvaluationJobs` | composition |
| `TeacherReview` | save, publish, read at the level of row and key locks | state machine |
| `RubricScale` | metrics and the 100 percent that `ReviewScores` and `ReportSummaries` share | constants |
| `ReviewScores` | `buildTeacherMetricScores` | algorithm, input by input |
| `Submissions` | open, upload, link: file, parser, transaction, clean-up | state machine |
| `AuthSessions` | login, renewal, use and end of sessions, rotation of passwords | state machine |
| `Catalogue` | users, roles, courses, rubrics, experiments, opening of submissions, on both databases | state machine |
| `Upgrades` | the upgrade runner: journal, schema, several runners | state machine |
| `Deployment` | server starts and stops, configuration file, bootstrap, assistant, extends `Upgrades` | composition |
| `ReportSummaries` | statistics of an experiment and of a course, read by read | algorithm over changing rows |
| `ReportExports` | row, file and download of an export, extends `ReportSummaries` | composition |
| `InitialEvaluation` | rules, scores and the answer of an engine in one evaluation | state machine with pure functions |
| `EvaluationJobs_proofs` | theorems about `EvaluationJobs` and `ExternalWorkers` | proofs |
| `Deployment_proofs` | theorems about `Upgrades` and `Deployment` | proofs |
| `ReportExports_proofs` | theorems about `ReportSummaries`, `ReportExports` and `ReviewScores`; uses the lemmas on sums of `InitialEvaluation_proofs` | proofs |
| `Submissions_proofs`, `AuthSessions_proofs`, `TeacherReview_proofs`, `Catalogue_proofs`, `InitialEvaluation_proofs` | theorems about the module of that name | proofs |
| `MC*` | symmetry sets and small sets of inputs for TLC | instances |

### EvaluationJobs

`jobs`, `results` and `evidence` are database tables: rows by id, rows of
`evaluation_results` in the order of `created_at`, and the number of artifacts
of each submission. `wake` is `evaluationQueue`. `runner[w]` is the program
counter and the locals of a goroutine. One action is one repository call:
`WakeUp`, `Tick`, `MarkEvaluationJobRunning`, `DrainQueuedEvaluationJobs`,
`ReadContext`, `InsertResult`, `Complete`, `Fail`. Each call may succeed, fail,
or succeed and lose its reply; `Crash` restarts the process. The code drops the
errors of the last two calls, and so do the actions. What the rules and the
model find is data: only how much evidence they saw is kept, because the
promises depend on that. `asked` is a history field. The retry and backoff
columns of `jobs` are not used by the code for this job type.

`ImplementsContract` maps the rows to the answers of `GetEvaluationJob` and
shows that all of this looks like `EvaluationJobContract`: queued, running,
then one of two final answers, a success naming an evaluation of its own.

### ExternalWorkers

Handlers of the worker API run the same calls as the pool. `handed` is what the
worker processes have received and may post about, once or repeatedly. A posted
completion reads the job's status in one call and writes in later ones. No
setting stops the in-process pool: `EVALUATION_WORKER_MODE` is read by
`config/config.go:100` and applied nowhere, so both take part.

### TeacherReview

A transaction's writes are private until its commit, so steps are where
transactions meet: `SelectForUpdate` (wait for the row lock; nothing to lock
before the first insert), `InsertReview` (wait for a pending insert of the same
`submission_id`, fail if there is a row), `CommitSave`, `UpdatePublished`,
`CommitPublish`, `Rollback`. Reading is two statements, row then scores. The
triggers of migration 000005 that refuse to change published rows are left out
on purpose: the properties hold by the transactions alone.

### ReviewScores

One step per input of the request: `Score` is the body of the loop,
`Finish` the checks after it. `Weighted` and `TotalScoreBPS` are the integer
divisions of the code; `Above` and `Below` are the exact mean as a fraction.

### Submissions

`rows` and `files` are the two stores, `handler` the requests on their way
through `UploadArtifact`, `OpenFile`, `KeepFile`,
`MaybeParseWithArtifactParser`, `CreateArtifact`, `CleanupStoredArtifact` (or
`CreateGitLinkArtifact`, `CreateArtifact`). `faults` remembers which kinds of
failure have happened, so that a property can say which of them it survives.
What makes the code refuse a file (kind, name, size, container) is a free
choice before or after the file exists.

### AuthSessions

`rows` is `auth_sessions`, `password` counts the changes of a user's hash,
`lastCleanup` is the service's field of that name, `handler` holds the copy of
the row a request has read. Each action is one statement with the code after it
up to the next one. A request with a cookie passes `RefreshSessionIfDue` first
(`ReadForRefresh`, then renew, discard or leave alone) and then its own call:
`ResolveRequestActor` (read, then touch or discard), `ChangePassword`, `Logout`,
`Login`. `CleanupIfDue` is the test and the update under `cleanupMu`, `Sweep`
the DELETE after it. `RotatePassword` is the one transaction; an administrator's
reset ends in the same one. The code reads the clock between a statement and the next, so
an action that uses it draws the time from the interval since the handler's
last step (`stamp`). `issued` and `used` are history: when and under which
password a session was created, and when the middleware last found it valid.

### Catalogue

`roleRows`, `courses`, `classes`, `attached`, `teachers`, `enrollments`,
`owner`, `versions`, `experiments` and `submissions` are the tables of migration
000002 (a submission as the pair of experiment and student that its unique key
names). A request is `Arrive` (the actor and roles as the middleware read them:
they are not read again), `Check` (the question the service asks before its
call: `MayAssign`, `MayPublishVersion`, `ExperimentSubmissionAccess`, ...),
`BindVersion`, and then one transaction. Transactions with more than one
statement that can meet others are split at the meeting point: `SelectRoles`,
`DeleteRoles` and `SetUserRoles`; `NumberVersion` (lock of the template) and
`CreateRubricVersion`; `LockVersion` and `PublishRubricVersion`. `backend`
chooses the database: on SQLite no step runs while another handler is in a
transaction (`Connected`). A role row carries the request that wrote it, a
history field, so that a list left by two requests can be told from that of one.
The listings change nothing and are left out: that a student finds an experiment
in `ListStudentExperiments` is no property, since the list is ordered by
`published_at` and cut at `clampLimit`, 50 by default and 200 at most
(`service.go:935`, `postgres.go:731`). `ReportSummaries`, whose results depend on
which rows a listing returns, does model that limit.

### Upgrades and Deployment

`Upgrades` is `upgrade.go` for any number of processes: `Up`,
`ImportLegacyJournal`, `ReadApplied` (once, before the first step),
`SkipApplied`, `ExecuteStep`, `ApplyOne` (SQL and journal row in one
transaction, refused by the key when another runner has the row), `Complete`,
and `Exit` for every way to stop. `schema[d][v]` is the history of what was
committed for a version, with its content, so that applying a version twice or
with another content is visible. Releases are sequences of checksums; an older
tool may have left its own journal.

`Deployment` adds the process around it. `env`, `file` and `config` are the
environment, `runtime.json` and the running configuration; `LoadConfig` decides
driver and automatic upgrades as `config.Load` does, an unreadable file counting
as none. `StartServer` opens the database and starts an upgrade if it should;
`Serving` holds when that is done, or at once with automatic upgrades off: such a
server serves whatever schema it finds. A save truncates the file and then writes it,
so that a crash leaves it empty and two saves may mix (`Garbled`). Requests
resolve their scope on arrival and go on statement by statement; `admins`
remembers whether there was no user when a creation was asked for, `runs` how
often a tool ran. The model of a language model is that it may propose any tool
of the conversation's scope.

### ReportSummaries and ReportExports

A summary lists submissions and then reads each on its own (`ReadSubmission`),
while submissions are opened and reviews are saved and published. `part` and
`whole` are the accumulators of the code, with its integer divisions
(`RoundedDivide`, `Merge`, `AddReview`); `before` and `counted` are history: what
was published when the list was read, and what was added up. An export is a row
(`CreateReportExport`), a file opened and written in place, and the row again;
`End` cuts a request off after any step. A payload stands for its own digest.

### InitialEvaluation

The run of `createInitialEvaluation` for one submission: `GetEvaluationContext`
reads the evidence, later uploads change nothing; the rules are functions of it
(`CollectRuleFindings`, `Penalty`, `RuleScore`). An answer of a worker, the
gateway or the model arrives entry by entry (`ValidateLLMOutput`): the first
entry that does not fit, or the end of an empty answer, is an error, after which
the model is asked if the gateway failed. A text is the set of phrases in it
that a rule looks for. Kinds are the six the table admits; a specification may
also require a name that is no kind but speaks of code (`CodeNames`).

## 3. Runs and bounds

| Run | Instance | Shows |
|---|---|---|
| `jobs_safety` | 2 jobs, 1 submission, 2 workers, channel of 1, 2 faults, no symmetry | no double run, one result per job, success is its own; refinement of the contract, pick-up, end without faults |
| `external_safety` | 2 jobs, 1 worker, 2 handlers, 1 fault | one party per job, snapshot holds what was scored, no restart |
| `review_safety` | 1 submission, 3 handlers, 3 saves, no symmetry | the four safety properties, published rows stay, no handler waits for ever |
| `scores_total` | 2 metrics, maxima 1-3, weights 0, 1, 5000, up to 2 inputs | acceptance and error bound of the total |
| `uploads_safety` | 3 handlers, 2 submissions, 4 artifacts, limit 1, every kind of fault, repeatedly | rows, files and how far the limit can be passed |
| `uploads_leak` | 1 handler, parser on | a file left behind |
| `sessions_safety` | 2 handlers, 2 users, 1 session, TTL 2, intervals 1, clock to 4, calls fail, restarts | a rotation revokes, an idle session ends, a live one is kept, an ended one stays ended |
| `catalogue_safety` | 2 users, 1 course, class, template and experiment, 2 versions, 2 handlers, 3 requests, both databases, a fresh installation or a term under way | versions numbered, experiments bind published versions, submissions have a published experiment and a row of enrolment, role lists on SQLite whole |
| `deployment_safety` | 2 databases, server and command, 2 releases of 2 versions and older journals, 2 upgrade runs, 2 handlers, 3 requests, 2 names, 1 conversation, 1 tool call | journal and schema agree, upgrades are complete and ordered, requests meet the whole release (with automatic upgrades), no late administrator, no tool before its confirmation |
| `reports_safety` | 2 experiments with 3 submissions, lists of 1 or 2, one builder of reports, one downloader, 1 export | what is counted, how close averages are, downloads are whole |
| `report_minimum` | the same with a review of 0 points, one handler | a course's minimum that is not the lowest score |
| `evaluation_safety` | 6 artifacts, 4 specifications, 2 metrics, every set of engines, scores in and out of range | when an evaluation is completed, whose suggestions it has, range of the rules' scores |

Why the bounds are enough. Two workers and a channel of one give every race
between channel and table and every dropped wake-up; a job interacts with other
jobs only through the choice of the oldest and the order of results, for which
two are enough. Two faults allow a fault in the handling of a fault. Three
handlers on one submission's review are a holder of the lock, one that waits
and one that reads. Three upload handlers against a limit of one pass it by
two, the most `OverflowBounded` allows. Submissions do not interact in
`TeacherReview`; the second one in `Submissions` is there to be confused with
the first. Two jobs of one submission compete for the same evidence and the
same latest result. Sessions meet only in the sweep and in a rotation, which
treat each row by itself, so one session and a user who is not its owner show
every interaction, and the theorems cover any number. A clock to 4 with a TTL
of 2 lets a session be renewed, expire and be swept with room for a stale
copy. Two requests that race and one before them to set the
scene make the three of `Catalogue` and `Deployment`; the initial states of
`Catalogue` put a course in the middle of a term, so that the three are spent
where they meet. Two upgrade runs on releases that differ in their first file
are a race, a continuation after a stop, and a changed checksum. Lists of one and
two over three submissions cut a list short; scores of 1/3 and 2/3 round both
ways. Six artifacts reach the cap of the penalty. `MaxEvidence`, `MaxFaults`,
`MaxSaves`, `MaxInputs`, `MaxTime`, `MaxRotations`, `MaxVersions`, `NVersions`,
`MaxStarts`, `MaxRequests` and `Builders` are the only bounds on behaviours;
where a module has theorems, they hold for every value of its bounds.

`ReviewScores` and `InitialEvaluation` end in a final state, and `Catalogue` and
`Deployment` stop when their requests are used up, so these runs do not look for
deadlocks. All others do.

Each module has a type invariant. In the runs is that of `EvaluationJobs`, where a
mutant of the code breaks it (a status of another table); the others (`TypeOK`,
`ScoreTypeOK`, `EvaluationTypeOK`, `SummaryTypeOK`, `UpgradeTypeOK`) were checked on
the same instances and describe the variables to the reader.

Symmetry is used for safety only. Runs with liveness properties have none.

Fairness. `EvaluationJobs!Spec` has weak fairness on the step of each worker: a
goroutine runs, its ticker fires every second, and every call it makes has a
timeout (`evaluation_service.go:97-109`). Nothing is assumed of teachers,
students or faults. `TeacherReview!Spec` has strong fairness on the steps of
each handler, since the database grants a lock in the order of requests and a
handler that waits for it is enabled again and again, not continuously; no
request has to arrive and none has to roll back.

Each passing property comes with a variant of one definition (the comments
`Variant:` in the modules) under which TLC finds it violated: an update without
its status test, a retried insert, a kept lock, a forgotten clean-up.

## 4. Findings

Two runs show the code doing what it is there to prevent. `uploads_leak`: a
refused artifact's file stays because the clean-up is given an empty key.
`report_minimum`: the minimum of a course takes 0 for "none yet", so an
experiment whose lowest score is 0 is forgotten when the next is merged.

Seen while modelling, without a run:

- Jobs: a job stays running after a crash or a lost reply, and nothing looks at
  it again. With two workers `GetLatestEvaluation` may show the older evidence
  of two parallel jobs. The check "evaluation job is not running"
  (`evaluation_service.go:190`, `:234`) and the write after it are two calls, so
  two external completions can store two results and change a final answer.
- Review: the audit row of a second save names the id of no review
  (`review_service.go:53`). A teacher may publish a colleague's newer draft. The
  total is rounded per metric, so two metrics can give 4999 where the formula in
  `docs/TEACHER_REVIEW.md:30` gives 5000.
- Uploads: the artifact limit is tested before the file is read, so requests at
  once pass it. When the reply of a commit is lost, the clean-up removes the
  file of a stored row. Uploads do not ask whether the experiment is still open,
  and `start_at` is tested nowhere.
- Sessions: one that is used more often than the refresh interval is never
  renewed, because every request moves the time the interval is measured from. A
  login that compared the old password may insert its session after a rotation.
  A touch may undo a renewal. `ChangePassword` does not test the expiry itself
  and relies on the middleware having discarded the row.
- Catalogue: two `SetUserRoles` at once on Postgres may leave the union of both
  lists, since neither locks the user and rows inserted meanwhile are not seen
  by the other's DELETE.
- Deployment: two bootstrap requests at once may both create an administrator;
  two confirmations at once may run a tool twice; a call whose process died stays
  running. A `runtime.json` cut off by a crash, or mixed by two saves, is passed
  over at the next start: a server whose database was named there comes up on an
  empty SQLite database, where the bootstrap is open.
- Reports: an export cut off stays queued, and its report job is taken by nobody.
  A course's metric averages are rounded twice.
- Evaluation: nothing moves the extraction of an upload on from queued, so each
  upload costs every metric 15 percent, and six bring every rule score to its
  lowest. A worker's failed answer is stored as "not configured" where the server
  has no engine of its own.

## 5. What is proved

`EvaluationJobs_proofs`, from `QueueAssumption` only (bounds are naturals, no
job is called `None`, pool and handlers are different goroutines):

- `TypeCorrect`, `JobsRunByOne`, `JobsLeaveOneResult`, `SuccessIsOwn`: the
  invariants, for any sets of jobs, submissions and workers, any channel and
  any number of faults.
- `FinishedStays`: the action property `TerminalIsFinal`.
- `QueueKeepsContract`: every step of the queue is a step of
  `EvaluationJobContract` or leaves its variables alone.

The argument is the inductive invariant `IInv`. "One runner per job" alone is
not inductive: that a completed job is not overwritten follows from the row
being running while somebody holds it, and that a job leaves one result from
the absence of a result before `insert` (`RunOnCourse`) and before the claim
(`UnstartedHasNoResult`). `RequestsCovered` carries the amount of evidence from
the request to the result, `NoEarlyResult` is what the contract needs to know
about unfinished rows. Lemmas: one per action, each split by conjunct.

The last part of the module is about `ExternalWorkers`, from the same assumption:

- `OnePartyPerJob`, `SnapshotCoversScores`: the invariants, for any pool, any
  worker processes and any number of repeated or late calls.
- `FinishedIsNotRestarted`: the action property `NeverRestarted`.

`IInv` does not survive here: two completions of one job may both be writing.
`ExtInv` keeps what does. Rows only advance (`RowsAdvance`), so a job leaves the
queue once; whoever runs it since then got it first hand (`FirstHand`) or posts
about what it was handed, and of the first kind there is one (`OneParty`).
Evidence only grows, so what a worker scored stays below what a completion reads
later (`HandedFits`, `RunnerFits`).

`TeacherReview_proofs`, from `ReviewAssumption` (no handler is called `None`):

- `OneReview`, `ScoresOfLastSave`, `PublicationLogged`: what the tables hold, for
  any number of submissions, handlers and saves.
- `StudentSeesOneReview`: what a student is shown.
- `PublishedNeverChanges`: the action property `PublishedStays`.

The tables are right because a transaction that is about to commit relies only
on what its lock protects: `OnCourse` says that such a handler holds the lock of
its submission, and that the draft it found, or the absence of any review, is
still so. New ids belong to one save (`ContentsApart`) and to no row. A student's
answer is tied to a published row, which no step can touch.

`Catalogue_proofs`, from `CatalogueAssumption`:

- `NoNumberTwice`, `BoundIsPublished`, `SubmissionsGrounded`, `RolesOfOne`: the
  invariants, for any number of users, courses, templates, experiments and
  requests, on both databases; `CatalogueTyped`: the types.

A request acts on what an earlier call told it (`Knows`). Each part of `Knows` is
kept by the steps of the others for a reason of its own: published versions stay
published (`BindingKnown`), a published experiment and a row of enrolment stay
(`AccessKnown`), the next number of a template belongs to the holder of its lock
(`NumberKnown`, `LocksHeld`), and the role rows a transaction has seen are those
in the table as long as it has the one connection (`RolesKnown`, on SQLite only).
`VersionsCounted` says that the numbers of a template are 1 to k, which is what
`NextNo` needs to give k + 1.

`Submissions_proofs`, from `SubmissionAssumption` (the limit is positive,
handlers and artifacts are finite sets):

- `TypeCorrect`, and `Ownership`: an artifact id is in the hands of the handler
  that drew it (`OwnArtifact`).
- `FilesBehindRows`: rows have files until a commit's reply is lost. Needs
  `Undecided`: a handler that may still remove its file has no row.
- `StoreStaysClean`: files have a row or a handler until a crash, a failing
  disk or a refusing parser.
- `LimitNearlyKept`: the limit is passed by less than the number of handlers.
  Rows alone are not inductive; rows and pending handlers together
  (`RoomReserved`) are, because a handler joins only while rows are below the
  limit, and a row takes the place of the handler that stored it.

`AuthSessions_proofs`, from `SessionAssumption` (the TTL is positive, `None` is
no user, session or row):

- `TypeCorrect`, `RotationRevokes` and `IdleExpires`: the invariants, for any
  sets of handlers, users and sessions, any intervals, calls that fail or not.
- `EndedForGood`, `LivesForTTL`: the action properties.

The inductive invariant `SessionInv` is `TypeOK` with `RequestsInOrder`,
`IssuedInThePast` and `RowsInOrder`. A bound on the expiry in the table is not
inductive, since a late write puts an old copy back: copies in flight must keep
the bounds of the rows they came from (`Bounded`), and the history they are
compared with only grows. That a discard or a sweep cannot come early follows
from the lower bound and from stamps lying in the past. `RowStep` says once, for
all actions, what a step may do to a row.

`Deployment_proofs`, its first part from `UpgradesAssumption` (releases are sequences of at most
`NVersions` checksums, `Nothing` is no checksum):

- `JournalIsTrue`, `FinishedIsComplete`: the invariants of `Upgrades`, for any number of
  runners, releases and databases.

That journal and schema agree is not inductive with runners that read the
journal once: what a runner believes must be below what is there (`Imported`,
`Remembered`, `DoneSoFar`, `Placed` in `RunnersKnow`). Rows never change once
written (`RowsStay`), so what one runner knows survives the steps of the others
(`OthersKnow`). Order (`InOrder`) needs that a runner executes a version only
when it has passed the ones before.

Its second part, from `DeploymentAssumption`, and for upgrades by refinement:

- `DeploymentUpgrades`: every step of a deployment is a step of `Upgrades` or
  leaves its variables alone, so `DeployedJournalIsTrue` follows from the first
  of the theorems above.
- `DeployedIsComplete`: the invariant `RequestsMeetRelease`, about servers with
  automatic upgrades only. What a runner that is up left behind is known from
  `UpgradeIInv`, through the refinement; `ServerIInv` ties requests to it: a
  request is under way only while the server serves, and the server's runner is
  of the database the server works on, with a release.
- `NoAdminComesLate`, `PendingIsUntouched`: for any names, calls, handlers and
  number of requests. `ServingIInv` says where a request can be (`OnCourse`),
  that a request running a tool has changed the status of its call
  (`Confirmed`), and that one about to create an administrator came in while
  there was no user (`CameEarly`): the counting step proves it, because
  administrators are never deleted and a server stays with one database.
  `HandlerSteps` says once what a step of a handler must keep.

`InitialEvaluation_proofs`, from `EvaluationAssumption` (finitely many artifacts
with unique ids and of the six kinds, finite lists in a specification, positive
maxima):

- `AnswerIsWhole`, `CompletedAsEvidenceAllows`: for any artifacts,
  specifications, rubrics and answers. `OnCourse` follows the answer: until it
  ends, its suggestions are of the engine being asked (`OfEngine`); what is
  stored is one of three cases (`Settled`). `SevereFindings` is the lemma about
  the rules: what makes a finding severe, for every evidence.
- `RuleScoresAreInRange`: the invariant `RuleScoresFit`, for any artifacts,
  specification and rubric.
- `MoreFindingsNoHigherScore`: more findings never raise a score of a metric.

The module starts with folds over finite sets (`FoldRemove`, `FoldAgrees`), of
which sums (`SumUnion`, `SumOfParts`) and products are two. The library takes the
elements in the order of a CHOOSE, and that the order does not matter is proved by
taking a smallest set for which it would (`SmallestSubset`). For the scores the
inductive part is small (`EvidenceKept`); the weight is on the rules. There
are finitely many findings (`FindingsTyped`), the library's sum of their
penalties is a fold (`PenaltyIsSum`), and missing kinds and queued uploads are
two disjoint parts of it, as large as the sets they are made from
(`FindingsCost`). `LessShare` and `ShareMonotonic` carry that through the cap and
the division.

`ReportExports_proofs`, from `SummaryAssumption` and `ExportAssumption` (finite
sets of submissions and experiments, totals up to `WeightTotalBPS`, `None` is no
review, status, format or payload):

- `SummariesCountPublished`, `AveragesAreClose`: the invariants about summaries,
  for any reviews, any number of experiments and submissions, any order of reads,
  saves and publications.
- `DownloadsAreWhole`: for any number of exports and requests, cut off anywhere.

The module has the folds of `InitialEvaluation_proofs` by extending it. On sums
(`SumOneMore`, `SumTwo`), greatest elements (`MaxIn`) and rounding follow
the operators of the code: what adding a review (`AddReviewCounts`), taking
averages (`AveragedShows`, with the bound of one division from `Rounded`),
finishing a course (`CourseShows`) and merging an experiment (`MergeJoins`) make
of a part that stands for given reviews. Metric averages of a course are off by
half a point per review once for each of the two roundings, which is the factor
of two in the property. `SummaryInv` says what a request has counted and has left:
while it reads experiment e, its part is that of the reviews of e it has seen
(`AddedUp`), the rest is merged already (`Merged`), and what was published at
the listing is counted or still to come (`Reading`). `ExportInv` gives each
queued row one writer (`OneWriter`), whose payload is in the file when it
completes the row (`WriterFits`); a row that succeeded has no writer any more.

Its last section is about the scores that go into a report, from
`ScoreAssumption` and `ScaleAssumption` (finitely many metrics, maxima and the
full total are positive, weights are naturals):

- `AcceptedReviewsAreComplete`, `TotalsAreCloseToMean`: the invariants of
  `ReviewScores`, for any rubric and any inputs.
- `AcceptedFitsSummary`: an accepted review is as `SummaryAssumption` wants the
  reviews that statistics read (`ReviewsFitSummary`).

`ScoringInv` follows the loop. The metrics seen are those of the positions
scored, one each (`SeenScored`); as many as there are metrics, they are all of
them. No metric gives more points than its weight, and the points reach the
weights only with full marks (`PointsWithinWeight`), which is what a total of
10000 means. `PointsCloseToShares` is the error: over the product of the maxima,
the points of the metrics seen are at most the sum of their shares and miss it by
less than their weight. It holds although weights may be zero, since a metric
without weight has no points and no share (`OneMoreShare`); the division by the
weights at the end costs the second basis point.

Only model-checked is liveness (`QueuedIsPickedUp`, `JobFinishesWithoutFault`,
`RequestsEnd`, and the fairness of `ImplementsContract`, whose steps are proved in
`QueueKeepsContract`), which the proof system does not do under fairness. Every
invariant and every action property of a passing run is a theorem.

Theorems of the library that take an operator as a parameter (induction over
naturals or finite sets) cannot be instantiated by the provers at hand. Where an
induction is needed, a smallest counterexample takes its place.

## 6. Not modelled, and the plan

Not modelled because there is nothing to check: HTTP routing and encoding,
connection pools and health probes, rendering of documents, the console,
scripts, the unused `jobs/` package. The Python gateway is a program of its own
without state: what it answers is any answer, in `InitialEvaluation` and
`Submissions`.

Left out of modelled parts: which files are refused and what is extracted from
them; metrics and weights of a rubric version while it is written; the
assistant's messages, snapshots and read-only probes; count maps of reports; the
session that a bootstrap starts; the triggers of migration 000005.

What is left: weights of a rubric version normalized to 100 percent, as a
function with its reference definition, and uploads composed with `Catalogue` for
experiments that close meanwhile.
