------------------------------ MODULE Upgrades ------------------------------
(***************************************************************************)
(* The upgrade runner (upgrade/upgrade.go): the numbered SQL files of a     *)
(* release are applied to a database in order, each in one transaction with *)
(* its row in the journal system_upgrades; a journal of an older tool,      *)
(* schema_migrations, is imported first.  The server and the upgrade        *)
(* command may both run it on one database, of different releases.          *)
(***************************************************************************)
EXTENDS Integers, Sequences

CONSTANTS
  Databases,   \* the databases a configuration can name
  Runners,     \* processes that run upgrades
  Releases,    \* upgrade directories: the checksums of versions 1, 2, ...
  Sums,        \* checksums
  NVersions,   \* highest version of a release
  MaxStarts,   \* bound: upgrade runs in a behaviour
  Nothing

ASSUME UpgradesAssumption ==
  /\ Databases \subseteq {"sqlite", "postgres"}
  /\ Releases \subseteq Seq(Sums)
  /\ NVersions \in Nat
  /\ \A f \in Releases : Len(f) <= NVersions
  /\ MaxStarts \in Nat
  /\ Nothing \notin Sums \cup Databases

Versions == 1..NVersions

VARIABLES
  legacy,   \* schema_migrations: checksum of a version, or Nothing
  journal,  \* system_upgrades: checksum of a version, or Nothing
  schema,   \* the SQL committed for a version, each time it was
  runner,   \* runs under way
  starts    \* number of runs so far

upgradeVars == <<legacy, journal, schema, runner, starts>>

Out == [at |-> "out", db |-> Nothing, files |-> <<>>, applied |-> [v \in Versions |-> Nothing], next |-> 1]

RunnerRows ==
  [at : {"out", "journal", "applied", "step", "executed", "up"}, db : Databases \cup {Nothing},
   files : Releases \cup {<<>>}, applied : [Versions -> Sums \cup {Nothing}], next : 1..(NVersions + 1)]

UpgradeTypeOK ==
  /\ legacy \in [Databases -> [Versions -> Sums \cup {Nothing}]]
  /\ journal \in [Databases -> [Versions -> Sums \cup {Nothing}]]
  /\ schema \in [Databases -> [Versions -> Seq(Sums)]]
  /\ runner \in [Runners -> RunnerRows]
  /\ \A r \in Runners : runner[r].at # "out" => runner[r].db \in Databases
  /\ starts \in 0..MaxStarts

Rows(f) == [v \in Versions |-> IF v <= Len(f) THEN f[v] ELSE Nothing]

(* Empty databases, or databases an older tool brought to some release.     *)
UpgradeInit ==
  /\ \E f \in Releases \cup {<<>>} : legacy = [d \in Databases |-> Rows(f)]
  /\ journal = [d \in Databases |-> Rows(<<>>)]
  /\ schema = [d \in Databases |-> [v \in Versions |-> IF legacy[d][v] = Nothing THEN <<>> ELSE <<legacy[d][v]>>]]
  /\ runner = [r \in Runners |-> Out]
  /\ starts = 0

Up(r, d, f) ==
  /\ runner[r].at = "out"
  /\ starts < MaxStarts
  /\ starts' = starts + 1
  /\ runner' = [runner EXCEPT ![r] = [Out EXCEPT !.at = "journal", !.db = d, !.files = f]]
  /\ UNCHANGED <<legacy, journal, schema>>

(* INSERT ... SELECT FROM schema_migrations ON CONFLICT DO NOTHING.         *)
ImportLegacyJournal(r) ==
  LET d == runner[r].db IN
  /\ runner[r].at = "journal"
  /\ journal' = [journal EXCEPT ![d] = [v \in Versions |-> IF @[v] = Nothing THEN legacy[d][v] ELSE @[v]]]
  /\ runner' = [runner EXCEPT ![r].at = "applied"]
  /\ UNCHANGED <<legacy, schema, starts>>

(* The rows are read once, before the first step. *)
ReadApplied(r) ==
  /\ runner[r].at = "applied"
  /\ runner' = [runner EXCEPT ![r].at = "step", ![r].applied = journal[runner[r].db]]
  /\ UNCHANGED <<legacy, journal, schema, starts>>

HasNext(r) == runner[r].at = "step" /\ runner[r].next <= Len(runner[r].files)

(* Variant: an applied version is passed over whatever its checksum. *)
SkipVersion(r) ==
  /\ HasNext(r)
  /\ runner[r].applied[runner[r].next] # Nothing
  /\ runner' = [runner EXCEPT ![r].next = @ + 1]
  /\ UNCHANGED <<legacy, journal, schema, starts>>

SkipApplied(r) ==
  LET n == runner[r].next IN
  /\ HasNext(r)
  /\ runner[r].applied[n] = runner[r].files[n]
  /\ runner' = [runner EXCEPT ![r].next = @ + 1]
  /\ UNCHANGED <<legacy, journal, schema, starts>>

(* The transaction begins and runs the SQL; SQLite has one writer at a time. *)
ExecuteStep(r) ==
  /\ HasNext(r)
  /\ runner[r].applied[runner[r].next] = Nothing
  /\ runner[r].db = "sqlite" => \A s \in Runners : ~(runner[s].at = "executed" /\ runner[s].db = "sqlite")
  /\ runner' = [runner EXCEPT ![r].at = "executed"]
  /\ UNCHANGED <<legacy, journal, schema, starts>>

(* Variant: the row is written whether or not there is one. *)
OverwriteRow(r) ==
  LET d == runner[r].db
      n == runner[r].next
  IN
  /\ runner[r].at = "executed"
  /\ journal' = [journal EXCEPT ![d][n] = runner[r].files[n]]
  /\ schema' = [schema EXCEPT ![d][n] = Append(@, runner[r].files[n])]
  /\ runner' = [runner EXCEPT ![r].at = "step", ![r].next = n + 1]
  /\ UNCHANGED <<legacy, starts>>

(* The journal row, whose key must be new, and the commit of both. *)
ApplyOne(r) ==
  LET d == runner[r].db
      n == runner[r].next
  IN
  /\ runner[r].at = "executed"
  /\ journal[d][n] = Nothing
  /\ journal' = [journal EXCEPT ![d][n] = runner[r].files[n]]
  /\ schema' = [schema EXCEPT ![d][n] = Append(@, runner[r].files[n])]
  /\ runner' = [runner EXCEPT ![r].at = "step", ![r].next = n + 1]
  /\ UNCHANGED <<legacy, starts>>

Complete(r) ==
  /\ runner[r].at = "step"
  /\ runner[r].next > Len(runner[r].files)
  /\ runner' = [runner EXCEPT ![r].at = "up"]
  /\ UNCHANGED <<legacy, journal, schema, starts>>

(* The process ends: finished, killed, refused by a changed checksum, or    *)
(* after an error of a statement, a row that is already there included.     *)
Exit(r) ==
  /\ runner[r].at # "out"
  /\ runner' = [runner EXCEPT ![r] = Out]
  /\ UNCHANGED <<legacy, journal, schema, starts>>

RunnerStep(r) ==
  \/ ImportLegacyJournal(r) \/ ReadApplied(r) \/ SkipApplied(r) \/ ExecuteStep(r) \/ ApplyOne(r) \/ Complete(r)

UpgradeNext ==
  \E r \in Runners : RunnerStep(r) \/ Exit(r) \/ (\E d \in Databases, f \in Releases : Up(r, d, f))

UpgradeSpec == UpgradeInit /\ [][UpgradeNext]_upgradeVars

-----------------------------------------------------------------------------
(* Properties *)

Recorded(d, v) == IF journal[d][v] = Nothing THEN legacy[d][v] ELSE journal[d][v]

(* The journal tells what the database holds: every recorded version was    *)
(* applied exactly once, with the content of its checksum, and nothing else *)
(* was, whichever runners race, stop half-way, or come from other releases. *)
JournalMatchesSchema ==
  \A d \in Databases, v \in Versions :
    schema[d][v] = IF Recorded(d, v) = Nothing THEN <<>> ELSE <<Recorded(d, v)>>

(* Versions are applied in order, none is left out, and a runner that has   *)
(* finished leaves every version of its release with the release's content. *)
UpIsComplete ==
  /\ \A d \in Databases, v, w \in Versions : w < v /\ schema[d][v] # <<>> => schema[d][w] # <<>>
  /\ \A r \in Runners : runner[r].at = "up" =>
       \A v \in 1..Len(runner[r].files) : schema[runner[r].db][v] = <<runner[r].files[v]>>

=============================================================================
