---------------------------- MODULE ReportExports ----------------------------
(***************************************************************************)
(* Exports of reports: a request builds its report, commits a row with a    *)
(* queued job nobody takes, renders, writes the file and completes the row. *)
(* It can end after any of these steps, by an error, a crash, or because    *)
(* its client went away.  A payload stands for its own digest.              *)
(***************************************************************************)
EXTENDS ReportSummaries

CONSTANTS
  Exports,   \* ids of exports
  Formats,   \* formats a client may ask for
  Users,     \* teachers and administrators
  Builders   \* bound: handlers that are asked for reports; the others send downloads only

KnownFormats == {"html", "csv", "xlsx", "pdf"}

(* What is rendered: the format, the kind of the report and its figures.    *)
Payloads == KnownFormats \X {"submission", "experiment", "course"} \X Parts

ASSUME ExportAssumption ==
  /\ Builders \subseteq Handlers
  /\ None \notin {"queued", "succeeded", "failed"} \cup KnownFormats \cup Exports
  /\ None \notin Payloads

VARIABLES
  exports,   \* report_exports
  files,     \* the file of an export in the store, or None
  exporter   \* for each request: what is exported, for whom, in which format

exportVars == <<exports, files, exporter>>
vars == <<summaryVars, exportVars>>

NoExport == [status |-> None, by |-> None, digest |-> None]
NotExporting == [id |-> None, by |-> None, payload |-> None]
Partial == <<None>>   \* what is left of a file that was not written to its end

TypeOK ==
  /\ SummaryTypeOK
  /\ \A x \in Exports :
       /\ exports[x].status \in {None, "queued", "succeeded", "failed"}
       /\ exports[x].digest \in Payloads \cup {None}
       /\ exports[x].digest # None <=> exports[x].status = "succeeded"
       /\ exports[x] = NoExport <=> exports[x].by = None
       /\ files[x] # None => exports[x] # NoExport
  /\ \A h, k \in Handlers : exporter[h].id # None /\ exporter[h].id = exporter[k].id => h = k

Init ==
  /\ SummaryInit
  /\ exports = [x \in Exports |-> NoExport]
  /\ files = [x \in Exports |-> None]
  /\ exporter = [h \in Handlers |-> NotExporting]

-----------------------------------------------------------------------------

(* An empty format is HTML.                                                 *)
NormalizeReportFormat(f) == IF f = "" THEN "html" ELSE f

(* The built report is the answer of a GET, ... *)
Answer(h) ==
  /\ request[h].at = "built"
  /\ request' = [request EXCEPT ![h] = NoRequest]
  /\ UNCHANGED <<opened, reviews, exportVars>>

(* ... or, for a teacher, goes into an export: the row and a report job.    *)
CreateReportExport(h, x, u, f) ==
  LET format == NormalizeReportFormat(f) IN
  /\ request[h].at = "built" /\ request[h].do # "own"
  /\ format \in KnownFormats
  /\ exports[x] = NoExport
  /\ exports' = [exports EXCEPT ![x] = [status |-> "queued", by |-> u, digest |-> None]]
  /\ exporter' = [exporter EXCEPT ![h] = [id |-> x, by |-> u, payload |-> <<format, request[h].do, Summary(h)>>]]
  /\ Goto(h, "render")
  /\ UNCHANGED <<opened, reviews, files>>

(* Rendering has no effect but its payload; os.WriteFile truncates ...      *)
OpenFile(h) ==
  /\ request[h].at = "render"
  /\ files' = [files EXCEPT ![exporter[h].id] = Partial]
  /\ Goto(h, "write")
  /\ UNCHANGED <<opened, reviews, exports, exporter>>

(* ... and writes to the end.                                               *)
WriteFile(h) ==
  /\ request[h].at = "write"
  /\ files' = [files EXCEPT ![exporter[h].id] = exporter[h].payload]
  /\ Goto(h, "complete")
  /\ UNCHANGED <<opened, reviews, exports, exporter>>

(* Variant: the row is completed while the file is being written. *)
CompleteEarly(h) ==
  /\ request[h].at \in {"write", "complete"}
  /\ exports' = [exports EXCEPT ![exporter[h].id].status = "succeeded", ![exporter[h].id].digest = exporter[h].payload]
  /\ Goto(h, "answer")
  /\ UNCHANGED <<opened, reviews, files, exporter>>

(* The row of a finished file.                                              *)
CompleteReportExport(h) ==
  /\ request[h].at = "complete"
  /\ exports' = [exports EXCEPT ![exporter[h].id].status = "succeeded", ![exporter[h].id].digest = exporter[h].payload]
  /\ Goto(h, "answer")
  /\ UNCHANGED <<opened, reviews, files, exporter>>

(* Rendering or the file system refused.                                    *)
CompleteFailedExport(h) ==
  /\ request[h].at \in {"render", "write"}
  /\ exports' = [exports EXCEPT ![exporter[h].id].status = "failed", ![exporter[h].id].digest = None]
  /\ Goto(h, "answer")
  /\ UNCHANGED <<opened, reviews, files, exporter>>

(* The request is over: answered, refused, failed, or gone with its process.*)
End(h) ==
  /\ request[h].at \notin {"idle", "built"}
  /\ request' = [request EXCEPT ![h] = NoRequest]
  /\ exporter' = [exporter EXCEPT ![h] = NotExporting]
  /\ UNCHANGED <<opened, reviews, exports, files>>

-----------------------------------------------------------------------------
(* Download: the row is read, then the file is sent with the digest of the  *)
(* row.  A teacher gets their own exports.                                  *)

MayRead(u, x) == u = "admin" \/ exports[x].by = u

OpenReportExport(h, u, x) ==
  /\ request[h] = NoRequest
  /\ exports[x] # NoExport /\ MayRead(u, x)
  /\ exports[x].status = "succeeded"
  /\ request' = [request EXCEPT ![h].do = "download", ![h].at = "send", ![h].on = x]
  /\ exporter' = [exporter EXCEPT ![h].by = u, ![h].payload = exports[x].digest]
  /\ UNCHANGED <<opened, reviews, exports, files>>

ExportStep(h) ==
  \/ \E x \in Exports, u \in Users, f \in Formats : CreateReportExport(h, x, u, f)
  \/ OpenFile(h) \/ WriteFile(h) \/ CompleteReportExport(h) \/ CompleteFailedExport(h)
  \/ \E x \in Exports, u \in Users : OpenReportExport(h, u, x)
  \/ Answer(h) \/ End(h)

Next ==
  \/ (Others \/ \E h \in Builders : BuildReport(h)) /\ UNCHANGED exportVars
  \/ \E h \in Handlers : ExportStep(h)

Spec == Init /\ [][Next]_vars

-----------------------------------------------------------------------------
(* A file that is sent is, from its first byte to its last, the one whose   *)
(* digest goes with it, was written for the user or is sent to an           *)
(* administrator, and stays so while it is sent, wherever its request and   *)
(* others were cut off.                                                     *)
DownloadIsWhole ==
  \A h \in Handlers : request[h].at = "send" =>
    LET x == request[h].on IN
    /\ files[x] = exporter[h].payload
    /\ files[x] \notin {None, Partial}
    /\ exports[x].status = "succeeded" /\ exports[x].digest = files[x]

=============================================================================
