-------------------------- MODULE Deployment_proofs --------------------------
(***************************************************************************)
(* Proofs about Upgrades and Deployment for any databases, releases,        *)
(* runners, names, conversations, tool calls, handlers and bounds.          *)
(*                                                                          *)
(* Upgrades.  The rows of a journal never change once they are written, so  *)
(* what a runner read before its first step stays true while others write;  *)
(* and a runner that has steps to apply has the older journal behind it.    *)
(*                                                                          *)
(* Deployment.  It is one use of Upgrades, so what is proved there holds.   *)
(* For the assistant and the bootstrap the argument is about the requests   *)
(* under way: one that is about to create an administrator came in while    *)
(* there was no user, since users are never deleted and the server serves   *)
(* one database; and one that is running a tool has changed the status of   *)
(* its call, which no step changes back.                                    *)
(***************************************************************************)
EXTENDS Deployment, TLAPS

USE UpgradesAssumption

Applying == {"step", "executed", "up"}

Imported ==
  \A r \in Runners : runner[r].at \in {"applied"} \cup Applying =>
    \A v \in Versions : legacy[runner[r].db][v] # Nothing => journal[runner[r].db][v] # Nothing

Remembered ==
  \A r \in Runners : runner[r].at \in Applying =>
    \A v \in Versions : runner[r].applied[v] # Nothing => journal[runner[r].db][v] = runner[r].applied[v]

DoneSoFar ==
  \A r \in Runners : runner[r].at \in Applying =>
    \A v \in Versions : v < runner[r].next =>
      v <= Len(runner[r].files) /\ journal[runner[r].db][v] = runner[r].files[v]

Placed ==
  \A r \in Runners :
    /\ runner[r].at \in {"journal", "applied"} => runner[r].next = 1
    /\ runner[r].at = "executed" => runner[r].next <= Len(runner[r].files)
    /\ runner[r].at = "up" => runner[r].next > Len(runner[r].files)

InOrder ==
  \A d \in Databases, v, w \in Versions : w < v /\ schema[d][v] # <<>> => schema[d][w] # <<>>

RunnersKnow == Imported /\ Remembered /\ DoneSoFar /\ Placed

UpgradeIInv == UpgradeTypeOK /\ RunnersKnow /\ JournalMatchesSchema /\ InOrder

-----------------------------------------------------------------------------
(* Facts about releases *)

LEMMA ReleaseFacts ==
  ASSUME NEW f \in Releases \cup {<<>>}
  PROVE  /\ Len(f) \in 0..NVersions
         /\ \A v \in 1..Len(f) : f[v] \in Sums /\ v \in Versions /\ f[v] # Nothing
  BY DEF Versions

LEMMA RowsFacts ==
  ASSUME NEW f \in Releases \cup {<<>>}
  PROVE  /\ Rows(f) \in [Versions -> Sums \cup {Nothing}]
         /\ \A v, w \in Versions : w < v /\ Rows(f)[v] # Nothing => Rows(f)[w] # Nothing
  BY ReleaseFacts DEF Rows, Versions

-----------------------------------------------------------------------------
(* The initial states *)

LEMMA InitHolds == UpgradeInit => UpgradeIInv
  <1> SUFFICES ASSUME UpgradeInit PROVE UpgradeIInv
    OBVIOUS
  <1>1. PICK f \in Releases \cup {<<>>} : legacy = [d \in Databases |-> Rows(f)]
    BY DEF UpgradeInit
  <1>2. \A v \in Versions : Rows(<<>>)[v] = Nothing
    BY DEF Rows, Versions
  <1>3. /\ Rows(f) \in [Versions -> Sums \cup {Nothing}]
        /\ Rows(<<>>) \in [Versions -> Sums \cup {Nothing}]
    BY RowsFacts
  <1>4. UpgradeTypeOK
    <2>1. schema \in [Databases -> [Versions -> Seq(Sums)]]
      BY <1>1, <1>3 DEF UpgradeInit
    <2>2. Out \in RunnerRows
      BY DEF Out, RunnerRows
    <2> QED BY <1>1, <1>3, <2>1, <2>2 DEF UpgradeInit, UpgradeTypeOK, Out
  <1>5. RunnersKnow
    BY DEF UpgradeInit, Out, RunnersKnow, Imported, Remembered, DoneSoFar, Placed, Applying
  <1>6. JournalMatchesSchema
    BY <1>2 DEF UpgradeInit, JournalMatchesSchema, Recorded
  <1>7. InOrder
    <2> SUFFICES ASSUME NEW d \in Databases, NEW v \in Versions, NEW w \in Versions,
                        w < v, schema[d][v] # <<>>
                 PROVE  schema[d][w] # <<>>
      BY DEF InOrder
    <2>1. legacy[d][v] # Nothing
      BY DEF UpgradeInit
    <2>2. legacy[d][w] # Nothing
      BY <1>1, <2>1, RowsFacts
    <2>3. schema[d][w] = <<legacy[d][w]>>
      BY <2>2 DEF UpgradeInit
    <2> QED BY <2>3
  <1> QED BY <1>4, <1>5, <1>6, <1>7 DEF UpgradeIInv

-----------------------------------------------------------------------------
(* Types *)

LEMMA MoveTyped ==
  ASSUME UpgradeTypeOK, NEW r \in Runners, NEW x \in RunnerRows,
         runner' = [runner EXCEPT ![r] = x], x.at # "out" => x.db \in Databases
  PROVE  /\ runner' \in [Runners -> RunnerRows]
         /\ \A s \in Runners : runner'[s].at # "out" => runner'[s].db \in Databases
  BY DEF UpgradeTypeOK

LEMMA StepTyped ==
  ASSUME UpgradeTypeOK, NEW r \in Runners, runner[r].at # "out",
         NEW p \in {"journal", "applied", "step", "executed", "up"}, NEW n \in 1..(NVersions + 1),
         NEW a \in [Versions -> Sums \cup {Nothing}],
         runner' = [runner EXCEPT ![r] = [runner[r] EXCEPT !.at = p, !.applied = a, !.next = n]]
  PROVE  /\ runner' \in [Runners -> RunnerRows]
         /\ \A s \in Runners : runner'[s].at # "out" => runner'[s].db \in Databases
  <1> DEFINE x == [runner[r] EXCEPT !.at = p, !.applied = a, !.next = n]
  <1>1. runner[r] \in RunnerRows /\ runner[r].db \in Databases
    BY DEF UpgradeTypeOK
  <1>2. x \in RunnerRows /\ x.db \in Databases
    BY <1>1 DEF RunnerRows
  <1> QED BY <1>2, MoveTyped

LEMMA NextTyped ==
  ASSUME UpgradeTypeOK, Placed, [UpgradeNext]_upgradeVars
  PROVE  UpgradeTypeOK'
  <1> DEFINE Rest == /\ legacy' \in [Databases -> [Versions -> Sums \cup {Nothing}]]
                     /\ journal' \in [Databases -> [Versions -> Sums \cup {Nothing}]]
                     /\ schema' \in [Databases -> [Versions -> Seq(Sums)]]
                     /\ starts' \in 0..MaxStarts
  <1> USE DEF UpgradeTypeOK
  <1>0. \A r \in Runners : /\ runner[r] \in RunnerRows
                           /\ runner[r].next \in 1..(NVersions + 1)
                           /\ runner[r].applied \in [Versions -> Sums \cup {Nothing}]
                           /\ runner[r].files \in Releases \cup {<<>>}
    BY DEF RunnerRows
  <1>1. ASSUME NEW r \in Runners, NEW d \in Databases, NEW f \in Releases, Up(r, d, f)
        PROVE  UpgradeTypeOK'
    <2> DEFINE x == [Out EXCEPT !.at = "journal", !.db = d, !.files = f]
    <2>1. Out \in RunnerRows
      BY DEF Out, RunnerRows, Versions
    <2>3. x \in RunnerRows /\ x.db \in Databases
      BY <2>1 DEF RunnerRows
    <2>2. runner' = [runner EXCEPT ![r] = x] /\ Rest
      BY <1>1 DEF Up
    <2> QED BY <2>2, <2>3, MoveTyped
  <1>2. ASSUME NEW r \in Runners, ImportLegacyJournal(r)
        PROVE  UpgradeTypeOK'
    <2>1. runner' = [runner EXCEPT ![r] = [runner[r] EXCEPT !.at = "applied", !.applied = runner[r].applied,
                                                            !.next = runner[r].next]]
      BY <1>0, <1>2 DEF ImportLegacyJournal, RunnerRows
    <2>2. Rest /\ runner[r].at # "out"
      BY <1>2 DEF ImportLegacyJournal
    <2> QED BY <1>0, <2>1, <2>2, StepTyped
  <1>3. ASSUME NEW r \in Runners, ReadApplied(r)
        PROVE  UpgradeTypeOK'
    <2>1. runner' = [runner EXCEPT ![r] = [runner[r] EXCEPT !.at = "step", !.applied = journal[runner[r].db],
                                                            !.next = runner[r].next]]
      BY <1>0, <1>3 DEF ReadApplied, RunnerRows
    <2>2. Rest /\ runner[r].at # "out"
      BY <1>3 DEF ReadApplied
    <2>3. journal[runner[r].db] \in [Versions -> Sums \cup {Nothing}]
      BY <2>2
    <2> QED BY <1>0, <2>1, <2>2, <2>3, StepTyped
  <1>4. ASSUME NEW r \in Runners, SkipApplied(r)
        PROVE  UpgradeTypeOK'
    <2> DEFINE x == [runner[r] EXCEPT !.next = runner[r].next + 1]
    <2>1. runner' = [runner EXCEPT ![r] = x]
      BY <1>4 DEF SkipApplied
    <2>2. Rest /\ runner[r].at # "out" /\ runner[r].next <= Len(runner[r].files)
      BY <1>4 DEF SkipApplied, HasNext
    <2>3. runner[r].next + 1 \in 1..(NVersions + 1)
      BY <1>0, <2>2, ReleaseFacts
    <2>4. x \in RunnerRows /\ x.db \in Databases
      <3> HIDE DEF Rest
      <3>1. PICK q \in RunnerRows, k \in 1..(NVersions + 1) : q = runner[r] /\ k = runner[r].next + 1
        BY <1>0, <2>3
      <3>2. [q EXCEPT !.next = k] \in RunnerRows /\ [q EXCEPT !.next = k].db = q.db
        BY DEF RunnerRows
      <3>3. q.db \in Databases
        BY <1>0, <2>2, <3>1
      <3> QED BY <3>1, <3>2, <3>3
    <2> QED BY <2>1, <2>2, <2>4, MoveTyped
  <1>5. ASSUME NEW r \in Runners, ExecuteStep(r)
        PROVE  UpgradeTypeOK'
    <2>1. runner' = [runner EXCEPT ![r] = [runner[r] EXCEPT !.at = "executed", !.applied = runner[r].applied,
                                                            !.next = runner[r].next]]
      BY <1>0, <1>5 DEF ExecuteStep, RunnerRows
    <2>2. Rest /\ runner[r].at # "out"
      BY <1>5 DEF ExecuteStep, HasNext
    <2> QED BY <1>0, <2>1, <2>2, StepTyped
  <1>6. ASSUME NEW r \in Runners, ApplyOne(r)
        PROVE  UpgradeTypeOK'
    <2> DEFINE x == [runner[r] EXCEPT !.at = "step", !.next = runner[r].next + 1]
    <2>1. runner' = [runner EXCEPT ![r] = x]
      BY <1>6 DEF ApplyOne
    <2>2. runner[r].at # "out" /\ runner[r].next <= Len(runner[r].files)
      BY <1>6 DEF ApplyOne, Placed
    <2>3. runner[r].next + 1 \in 1..(NVersions + 1) /\ runner[r].files[runner[r].next] \in Sums
      BY <1>0, <2>2, ReleaseFacts
    <2>4. runner[r].db \in Databases
      BY <2>2
    <2>5. Rest
      <3> DEFINE d == runner[r].db
                 n == runner[r].next
                 c == runner[r].files[n]
      <3>0. n \in 1..Len(runner[r].files)
        BY <1>0, <2>2, ReleaseFacts
      <3>4. n \in Versions
        BY <1>0, <3>0, ReleaseFacts
      <3>5. schema[d] \in [Versions -> Seq(Sums)]
        BY <2>4
      <3>1. Append(schema[d][n], c) \in Seq(Sums)
        BY <2>3, <3>4, <3>5
      <3>2. /\ journal' = [journal EXCEPT ![d] = [journal[d] EXCEPT ![n] = c]]
            /\ schema' = [schema EXCEPT ![d] = [schema[d] EXCEPT ![n] = Append(schema[d][n], c)]]
            /\ UNCHANGED <<legacy, starts>>
        BY <1>6 DEF ApplyOne
      <3>3. /\ d \in Databases
            /\ [journal[d] EXCEPT ![n] = c] \in [Versions -> Sums \cup {Nothing}]
            /\ [schema[d] EXCEPT ![n] = Append(schema[d][n], c)] \in [Versions -> Seq(Sums)]
        BY <2>3, <2>4, <3>1
      <3> HIDE DEF c
      <3> HIDE DEF d, n
      <3> QED BY <3>2, <3>3
    <2>6. x \in RunnerRows /\ x.db \in Databases
      BY <1>0, <2>3, <2>4 DEF RunnerRows
    <2> QED BY <2>1, <2>5, <2>6, MoveTyped
  <1>7. ASSUME NEW r \in Runners, Complete(r)
        PROVE  UpgradeTypeOK'
    <2>1. runner' = [runner EXCEPT ![r] = [runner[r] EXCEPT !.at = "up", !.applied = runner[r].applied,
                                                            !.next = runner[r].next]]
      BY <1>0, <1>7 DEF Complete, RunnerRows
    <2>2. Rest /\ runner[r].at # "out"
      BY <1>7 DEF Complete
    <2> QED BY <1>0, <2>1, <2>2, StepTyped
  <1>8. ASSUME NEW r \in Runners, Exit(r)
        PROVE  UpgradeTypeOK'
    <2>1. Out \in RunnerRows /\ Out.at = "out"
      BY DEF Out, RunnerRows, Versions
    <2>2. runner' = [runner EXCEPT ![r] = Out] /\ Rest
      BY <1>8 DEF Exit
    <2> QED BY <2>1, <2>2, MoveTyped
  <1>9. CASE UNCHANGED upgradeVars
    BY <1>9 DEF upgradeVars
  <1> QED BY <1>1, <1>2, <1>3, <1>4, <1>5, <1>6, <1>7, <1>8, <1>9 DEF UpgradeNext, RunnerStep

-----------------------------------------------------------------------------
(* Rows that are written stay: what a runner knows of the journal survives  *)
(* the steps of others.                                                     *)

LEMMA RowsStay ==
  ASSUME UpgradeTypeOK, [UpgradeNext]_upgradeVars
  PROVE  /\ legacy' = legacy
         /\ \A d \in Databases, v \in Versions : journal[d][v] # Nothing => journal'[d][v] = journal[d][v]
  <1>1. ASSUME NEW r \in Runners, ImportLegacyJournal(r)
        PROVE  \A d \in Databases, v \in Versions : journal[d][v] # Nothing => journal'[d][v] = journal[d][v]
    BY <1>1 DEF UpgradeTypeOK, ImportLegacyJournal
  <1>2. ASSUME NEW r \in Runners, ApplyOne(r)
        PROVE  \A d \in Databases, v \in Versions : journal[d][v] # Nothing => journal'[d][v] = journal[d][v]
    BY <1>2 DEF UpgradeTypeOK, ApplyOne
  <1> QED
    BY <1>1, <1>2 DEF UpgradeNext, RunnerStep, Up, ImportLegacyJournal, ReadApplied, SkipApplied, ExecuteStep,
       ApplyOne, Complete, Exit, upgradeVars

(* What a single runner knows. *)
Knows(r) ==
  /\ runner[r].at \in {"applied"} \cup Applying =>
       \A v \in Versions : legacy[runner[r].db][v] # Nothing => journal[runner[r].db][v] # Nothing
  /\ runner[r].at \in Applying =>
       /\ \A v \in Versions : runner[r].applied[v] # Nothing => journal[runner[r].db][v] = runner[r].applied[v]
       /\ \A v \in Versions : v < runner[r].next =>
            v <= Len(runner[r].files) /\ journal[runner[r].db][v] = runner[r].files[v]
  /\ runner[r].at \in {"journal", "applied"} => runner[r].next = 1
  /\ runner[r].at = "executed" => runner[r].next <= Len(runner[r].files)
  /\ runner[r].at = "up" => runner[r].next > Len(runner[r].files)

LEMMA KnowsAll == RunnersKnow <=> \A r \in Runners : Knows(r)
  BY DEF RunnersKnow, Imported, Remembered, DoneSoFar, Placed, Knows

LEMMA OthersKnow ==
  ASSUME UpgradeTypeOK, RunnersKnow, [UpgradeNext]_upgradeVars,
         NEW s \in Runners, runner'[s] = runner[s]
  PROVE  Knows(s)'
  <1>1. Knows(s)
    BY KnowsAll
  <1>2. CASE runner[s].at \in {"applied"} \cup Applying
    <2>1. runner[s].db \in Databases
      BY <1>2 DEF UpgradeTypeOK, Applying
    <2>2. runner[s].files \in Releases \cup {<<>>}
      BY DEF UpgradeTypeOK, RunnerRows
    <2>3. \A v \in Versions : v <= Len(runner[s].files) => runner[s].files[v] # Nothing
      BY <2>2, ReleaseFacts DEF Versions
    <2> DEFINE d == runner[s].db
    <2>4. \A v \in Versions : journal[d][v] # Nothing => journal'[d][v] = journal[d][v]
      BY <2>1, RowsStay
    <2>5. legacy' = legacy
      BY RowsStay
    <2>6. runner[s].at \in {"applied"} \cup Applying =>
            \A v \in Versions : legacy'[d][v] # Nothing => journal'[d][v] # Nothing
      BY <1>1, <2>4, <2>5 DEF Knows
    <2>7. runner[s].at \in Applying =>
            /\ \A v \in Versions : runner[s].applied[v] # Nothing => journal'[d][v] = runner[s].applied[v]
            /\ \A v \in Versions : v < runner[s].next =>
                 v <= Len(runner[s].files) /\ journal'[d][v] = runner[s].files[v]
      BY <1>1, <2>3, <2>4 DEF Knows
    <2> QED BY <1>1, <2>6, <2>7 DEF Knows
  <1>3. CASE runner[s].at \notin {"applied"} \cup Applying
    BY <1>1, <1>3 DEF Knows, Applying
  <1> QED BY <1>2, <1>3

LEMMA NextKnows ==
  ASSUME UpgradeTypeOK, RunnersKnow, [UpgradeNext]_upgradeVars
  PROVE  RunnersKnow'
  <1> SUFFICES ASSUME NEW r \in Runners,
                      runner' = [runner EXCEPT ![r] = runner'[r]],
                      \/ RunnerStep(r) \/ Exit(r) \/ (\E d \in Databases, f \in Releases : Up(r, d, f))
               PROVE  Knows(r)'
    <2>1. ASSUME NEW r \in Runners, NEW s \in Runners \ {r},
                 \/ RunnerStep(r) \/ Exit(r) \/ (\E d \in Databases, f \in Releases : Up(r, d, f))
          PROVE  runner'[s] = runner[s]
      BY <2>1 DEF RunnerStep, Up, ImportLegacyJournal, ReadApplied, SkipApplied, ExecuteStep, ApplyOne, Complete,
                  Exit, UpgradeTypeOK
    <2>2. ASSUME NEW r \in Runners,
                 \/ RunnerStep(r) \/ Exit(r) \/ (\E d \in Databases, f \in Releases : Up(r, d, f))
          PROVE  runner' = [runner EXCEPT ![r] = runner'[r]]
      BY <2>2 DEF RunnerStep, Up, ImportLegacyJournal, ReadApplied, SkipApplied, ExecuteStep, ApplyOne, Complete,
                  Exit, UpgradeTypeOK
    <2>3. CASE UNCHANGED upgradeVars
      <3>1. \A s \in Runners : Knows(s)'
        BY <2>3, OthersKnow DEF upgradeVars
      <3> QED BY <3>1 DEF RunnersKnow, Imported, Remembered, DoneSoFar, Placed, Knows
    <2>4. CASE UpgradeNext
      <3>1. PICK r \in Runners : \/ RunnerStep(r) \/ Exit(r) \/ (\E d \in Databases, f \in Releases : Up(r, d, f))
        BY <2>4 DEF UpgradeNext
      <3>2. \A s \in Runners \ {r} : Knows(s)'
        BY <2>1, <3>1, OthersKnow
      <3>3. Knows(r)'
        BY <2>2, <3>1
      <3>4. \A s \in Runners : Knows(s)'
        BY <3>2, <3>3
      <3> QED BY <3>4 DEF RunnersKnow, Imported, Remembered, DoneSoFar, Placed, Knows
    <2> QED BY <2>3, <2>4
  <1>0. /\ runner[r] \in RunnerRows /\ Knows(r)
        /\ runner[r].next \in 1..(NVersions + 1)
        /\ runner[r].files \in Releases \cup {<<>>}
        /\ runner[r].at # "out" => runner[r].db \in Databases
        /\ Len(runner[r].files) \in Nat
        /\ Versions \subseteq Nat \ {0}
    BY KnowsAll, ReleaseFacts DEF UpgradeTypeOK, RunnerRows, Versions
  <1>1. ASSUME NEW d \in Databases, NEW f \in Releases, Up(r, d, f)
        PROVE  Knows(r)'
    BY <1>1 DEF Up, Out, Knows, Applying, UpgradeTypeOK
  <1>2. CASE ImportLegacyJournal(r)
    <2>1. /\ runner'[r].at = "applied" /\ runner'[r].db = runner[r].db /\ runner[r].db \in Databases
          /\ runner'[r].next = 1
      BY <1>0, <1>2 DEF ImportLegacyJournal, UpgradeTypeOK, RunnerRows, Knows
    <2>2. \A v \in Versions : legacy'[runner[r].db][v] # Nothing => journal'[runner[r].db][v] # Nothing
      BY <1>2, <2>1 DEF ImportLegacyJournal, UpgradeTypeOK
    <2> QED BY <2>1, <2>2 DEF Knows, Applying
  <1>3. CASE ReadApplied(r)
    <2>1. /\ runner'[r].at = "step" /\ runner'[r].db = runner[r].db
          /\ runner'[r].applied = journal[runner[r].db]
          /\ runner'[r].next = runner[r].next /\ runner'[r].files = runner[r].files
      BY <1>0, <1>3 DEF ReadApplied, UpgradeTypeOK, RunnerRows
    <2>2. runner[r].next = 1 /\ journal' = journal /\ legacy' = legacy
      BY <1>0, <1>3 DEF Knows, ReadApplied
    <2>3. \A v \in Versions : legacy[runner[r].db][v] # Nothing => journal[runner[r].db][v] # Nothing
      BY <1>0, <1>3 DEF Knows, ReadApplied
    <2> QED BY <1>0, <2>1, <2>2, <2>3 DEF Knows, Applying
  <1>4. CASE SkipApplied(r)
    <2> DEFINE n == runner[r].next
               d == runner[r].db
    <2>1. /\ runner'[r].at = "step" /\ runner'[r].db = d
          /\ runner'[r].applied = runner[r].applied
          /\ runner'[r].next = n + 1 /\ runner'[r].files = runner[r].files
          /\ journal' = journal /\ legacy' = legacy
      BY <1>0, <1>4 DEF SkipApplied, HasNext, UpgradeTypeOK, RunnerRows
    <2>2. runner[r].at = "step" /\ n <= Len(runner[r].files) /\ runner[r].applied[n] = runner[r].files[n]
      BY <1>4 DEF SkipApplied, HasNext
    <2>3. n \in Versions /\ runner[r].files[n] # Nothing
      BY <1>0, <2>2, ReleaseFacts
    <2>4. journal[d][n] = runner[r].files[n]
      BY <1>0, <2>2, <2>3 DEF Knows, Applying
    <2>5. \A v \in Versions : v < n + 1 => v < n \/ v = n
      BY <1>0, <2>3
    <2>6. \A v \in Versions : v < n + 1 => v <= Len(runner[r].files) /\ journal[d][v] = runner[r].files[v]
      BY <1>0, <2>2, <2>4, <2>5 DEF Knows, Applying
    <2> HIDE DEF n
    <2> QED BY <1>0, <2>1, <2>2, <2>6 DEF Knows, Applying
  <1>5. CASE ExecuteStep(r)
    BY <1>0, <1>5 DEF Knows, Applying, ExecuteStep, HasNext
  <1>6. CASE ApplyOne(r)
    <2> DEFINE n == runner[r].next
               d == runner[r].db
    <2>1. /\ runner'[r].at = "step" /\ runner'[r].db = d
          /\ runner'[r].applied = runner[r].applied
          /\ runner'[r].next = n + 1 /\ runner'[r].files = runner[r].files
      BY <1>0, <1>6 DEF ApplyOne, UpgradeTypeOK, RunnerRows
    <2>2. runner[r].at = "executed" /\ n <= Len(runner[r].files) /\ d \in Databases
      BY <1>0, <1>6 DEF ApplyOne, Knows
    <2>3. n \in Versions
      BY <1>0, <2>2, ReleaseFacts
    <2>4. /\ legacy' = legacy
          /\ journal'[d][n] = runner[r].files[n]
          /\ journal[d][n] = Nothing
          /\ \A v \in Versions : journal[d][v] # Nothing => journal'[d][v] = journal[d][v]
      BY <1>6, <2>2, <2>3, RowsStay DEF ApplyOne, UpgradeTypeOK
    <2>5. \A v \in Versions : v < n + 1 => v < n \/ v = n
      BY <1>0, <2>3
    <2>6. \A v \in Versions : v <= Len(runner[r].files) => runner[r].files[v] # Nothing
      BY <1>0, ReleaseFacts DEF Versions
    <2>7. \A v \in Versions : v < n + 1 => v <= Len(runner[r].files) /\ journal'[d][v] = runner[r].files[v]
      <3>1. \A v \in Versions : v < n => v <= Len(runner[r].files) /\ journal[d][v] = runner[r].files[v]
        BY <1>0, <2>2 DEF Knows, Applying
      <3> HIDE DEF n, d
      <3>2. \A v \in Versions : v < n => v <= Len(runner[r].files) /\ journal'[d][v] = runner[r].files[v]
        BY <2>4, <2>6, <3>1
      <3> QED BY <2>2, <2>4, <2>5, <3>2
    <2>8. \A v \in Versions : legacy'[d][v] # Nothing => journal'[d][v] # Nothing
      BY <1>0, <2>2, <2>4 DEF Knows, Applying
    <2>9. \A v \in Versions : runner[r].applied[v] # Nothing => journal'[d][v] = runner[r].applied[v]
      BY <1>0, <2>2, <2>4 DEF Knows, Applying
    <2> HIDE DEF n, d
    <2> QED BY <2>1, <2>7, <2>8, <2>9 DEF Knows, Applying
  <1>7. CASE Complete(r)
    BY <1>0, <1>7 DEF Knows, Applying, Complete
  <1>8. CASE Exit(r)
    BY <1>8 DEF Exit, Out, Knows, Applying, UpgradeTypeOK
  <1> QED BY <1>1, <1>2, <1>3, <1>4, <1>5, <1>6, <1>7, <1>8 DEF RunnerStep

-----------------------------------------------------------------------------
(* The journal and the schema *)

LEMMA NextSchema ==
  ASSUME UpgradeTypeOK, RunnersKnow, JournalMatchesSchema, InOrder, [UpgradeNext]_upgradeVars
  PROVE  JournalMatchesSchema' /\ InOrder'
  <1>1. ASSUME NEW r \in Runners, ImportLegacyJournal(r)
        PROVE  JournalMatchesSchema' /\ InOrder'
    <2>1. legacy' = legacy /\ schema' = schema
      BY <1>1 DEF ImportLegacyJournal
    <2>2. \A d \in Databases, v \in Versions : Recorded(d, v)' = Recorded(d, v)
      BY <1>1, <2>1 DEF ImportLegacyJournal, Recorded, UpgradeTypeOK
    <2> QED BY <2>1, <2>2 DEF JournalMatchesSchema, InOrder
  <1>2. ASSUME NEW r \in Runners, ApplyOne(r)
        PROVE  JournalMatchesSchema' /\ InOrder'
    <2> DEFINE n == runner[r].next
               d == runner[r].db
               c == runner[r].files[n]
    <2>1. runner[r].at = "executed" /\ d \in Databases /\ runner[r].files \in Releases \cup {<<>>}
          /\ n \in Nat \ {0}
      BY <1>2 DEF ApplyOne, UpgradeTypeOK, RunnerRows
    <2>2. n <= Len(runner[r].files)
      BY <2>1, KnowsAll DEF Knows
    <2>3. n \in Versions /\ c # Nothing
      BY <2>1, <2>2, ReleaseFacts
    <2>4. journal[d][n] = Nothing /\ legacy[d][n] = Nothing
      BY <1>2, <2>1, <2>3, KnowsAll DEF ApplyOne, Knows, Applying
    <2>5. schema[d][n] = <<>>
      BY <2>1, <2>3, <2>4 DEF JournalMatchesSchema, Recorded
    <2>6. /\ legacy' = legacy
          /\ journal'[d][n] = c /\ schema'[d][n] = <<c>>
          /\ \A e \in Databases, v \in Versions : ~(e = d /\ v = n) =>
               journal'[e][v] = journal[e][v] /\ schema'[e][v] = schema[e][v]
      BY <1>2, <2>1, <2>3, <2>5 DEF ApplyOne, UpgradeTypeOK
    <2>7. \A v \in Versions : v < n => schema[d][v] # <<>>
      <3> SUFFICES ASSUME NEW v \in Versions, v < n PROVE schema[d][v] # <<>>
        OBVIOUS
      <3>1. v <= Len(runner[r].files) /\ journal[d][v] = runner[r].files[v]
        BY <2>1, KnowsAll DEF Knows, Applying
      <3>2. journal[d][v] # Nothing
        BY <2>1, <3>1, ReleaseFacts DEF Versions
      <3>3. schema[d][v] = <<journal[d][v]>>
        BY <2>1, <3>2 DEF JournalMatchesSchema, Recorded
      <3> QED BY <3>3
    <2> HIDE DEF n, d, c
    <2>8. JournalMatchesSchema'
      BY <2>1, <2>3, <2>6 DEF JournalMatchesSchema, Recorded
    <2>9. InOrder'
      <3> SUFFICES ASSUME NEW e \in Databases, NEW v \in Versions, NEW w \in Versions,
                          w < v, schema'[e][v] # <<>>
                   PROVE  schema'[e][w] # <<>>
        BY DEF InOrder
      <3>1. CASE e = d /\ v = n
        <4>1. schema[d][w] # <<>> /\ w # n
          BY <2>7, <3>1 DEF Versions
        <4> QED BY <2>6, <3>1, <4>1
      <3>2. CASE ~(e = d /\ v = n)
        <4>1. schema[e][w] # <<>>
          BY <2>6, <3>2 DEF InOrder
        <4>2. CASE e = d /\ w = n
          BY <2>6, <4>2
        <4>3. CASE ~(e = d /\ w = n)
          BY <2>6, <4>1, <4>3
        <4> QED BY <4>2, <4>3
      <3> QED BY <3>1, <3>2
    <2> QED BY <2>8, <2>9
  <1>3. ASSUME UNCHANGED <<legacy, journal, schema>>
        PROVE  JournalMatchesSchema' /\ InOrder'
    BY <1>3 DEF JournalMatchesSchema, Recorded, InOrder
  <1> QED
    BY <1>1, <1>2, <1>3 DEF UpgradeNext, RunnerStep, Up, ReadApplied, SkipApplied, ExecuteStep, Complete, Exit,
       upgradeVars

LEMMA NextHolds ==
  ASSUME UpgradeIInv, [UpgradeNext]_upgradeVars
  PROVE  UpgradeIInv'
  BY NextTyped, NextKnows, NextSchema DEF UpgradeIInv, RunnersKnow

LEMMA CompleteUp ==
  ASSUME UpgradeIInv
  PROVE  UpIsComplete
  <1> SUFFICES ASSUME NEW r \in Runners, runner[r].at = "up", NEW v \in 1..Len(runner[r].files)
               PROVE  schema[runner[r].db][v] = <<runner[r].files[v]>>
    BY DEF UpgradeIInv, UpIsComplete, InOrder
  <1>1. /\ runner[r].files \in Releases \cup {<<>>} /\ runner[r].db \in Databases
        /\ runner[r].next \in Nat
    BY DEF UpgradeIInv, UpgradeTypeOK, RunnerRows
  <1>2. v \in Versions /\ runner[r].files[v] # Nothing /\ v < runner[r].next
    BY <1>1, ReleaseFacts, KnowsAll DEF UpgradeIInv, Knows
  <1>3. journal[runner[r].db][v] = runner[r].files[v]
    BY <1>2, KnowsAll DEF UpgradeIInv, Knows, Applying
  <1> QED BY <1>1, <1>2, <1>3 DEF UpgradeIInv, JournalMatchesSchema, Recorded

(* Whichever runners race, stop half-way or come from other releases, the   *)
(* journal records exactly what was applied, each version once.             *)
THEOREM JournalIsTrue == UpgradeSpec => []JournalMatchesSchema
  <1>1. UpgradeIInv => JournalMatchesSchema
    BY DEF UpgradeIInv
  <1> QED BY <1>1, InitHolds, NextHolds, PTL DEF UpgradeSpec

(* Versions are applied in order and a finished runner's release is there   *)
(* in full, although it read the journal once, before its first step.       *)
THEOREM FinishedIsComplete == UpgradeSpec => []UpIsComplete
  BY CompleteUp, InitHolds, NextHolds, PTL DEF UpgradeSpec

-----------------------------------------------------------------------------
(* The upgrades of a deployment *)

HIDE UpgradesAssumption
USE DeploymentAssumption

LEMMA StepsUpgrade ==
  ASSUME Next
  PROVE  UpgradeNext \/ UNCHANGED upgradeVars
  <1>1. CASE StartServer
    BY <1>1 DEF StartServer, CanOpen, UpgradeNext
  <1>2. CASE RunUpgradeCommand
    BY <1>2 DEF RunUpgradeCommand, CanOpen, UpgradeNext
  <1>3. CASE Upgrading
    BY <1>3 DEF Upgrading, UpgradeNext
  <1>4. CASE StopServer
    BY <1>4 DEF StopServer, UpgradeNext
  <1>5. ASSUME NEW h \in Handlers, HandlerStep(h)
        PROVE  UNCHANGED upgradeVars
    BY <1>5 DEF HandlerStep, Request, BootstrapRequest, PutRequest, AssistantRequest, Arrive, Fail, CountUsers,
       CreateAdmin, TruncateFile, SaveConfig, WriteFile, CreateConversation, BuildContext, ProposeTool,
       ReadToolCall, MarkRunning, Inspect, StoreOutcome
  <1> QED BY <1>1, <1>2, <1>3, <1>4, <1>5 DEF Next

(* A deployment's upgrades, at a start of the server or by the command,     *)
(* are runs of the upgrade runner.                                          *)
THEOREM DeploymentUpgrades == Spec => UpgradeSpec
  <1>1. Init => UpgradeInit
    BY DEF Init
  <1>2. [Next]_vars => [UpgradeNext]_upgradeVars
    BY StepsUpgrade DEF vars
  <1> QED BY <1>1, <1>2, PTL DEF Spec, UpgradeSpec

(* The journal of every database of a deployment records what was applied.  *)
THEOREM DeployedJournalIsTrue == Spec => []JournalMatchesSchema
  BY DeploymentUpgrades, JournalIsTrue, PTL

(* When a request is under way the server serves; its upgrade is of the     *)
(* database it serves, and none is under way while it is down.              *)
ServerIInv ==
  /\ config = Down => runner[Server].at = "out"
  /\ runner[Server].at # "out" => runner[Server].db = config.driver /\ runner[Server].files \in Releases
  /\ \A h \in Handlers : handler[h] # Idle => Serving

LEMMA ServerInit == Init => ServerIInv
  BY DEF Init, UpgradeInit, ServerIInv, Out

(* Only a server that serves takes a step of a request, and it goes on to.  *)
LEMMA HandlerServes ==
  ASSUME ServerIInv, NEW h \in Handlers, HandlerStep(h)
  PROVE  ServerIInv'
  <1>1. UNCHANGED <<upgradeVars, config>>
    BY DEF HandlerStep, Request, BootstrapRequest, PutRequest, AssistantRequest, Arrive, Fail, CountUsers,
       CreateAdmin, TruncateFile, SaveConfig, WriteFile, CreateConversation, BuildContext, ProposeTool,
       ReadToolCall, MarkRunning, Inspect, StoreOutcome
  <1>2. Request(h) \/ handler[h] # Idle
    <2>1. Idle.at = "idle" /\ Idle.do \notin Operations
      BY DEF Idle
    <2>2. CASE Request(h) \/ Fail(h)
      BY <2>2 DEF Fail
    <2>3. CASE CountUsers(h) \/ CreateAdmin(h) \/ TruncateFile(h)
      BY <2>1, <2>3 DEF CountUsers, CreateAdmin, TruncateFile
    <2>4. CASE SaveConfig(h) \/ Inspect(h)
      BY <2>1, <2>4 DEF SaveConfig, WriteFile, Inspect
    <2>5. CASE CreateConversation(h) \/ BuildContext(h) \/ ProposeTool(h)
      BY <2>1, <2>5 DEF CreateConversation, BuildContext, ProposeTool, Operations
    <2>6. CASE ReadToolCall(h) \/ MarkRunning(h) \/ StoreOutcome(h)
      BY <2>1, <2>6 DEF ReadToolCall, MarkRunning, StoreOutcome, Operations
    <2> QED BY <2>2, <2>3, <2>4, <2>5, <2>6 DEF HandlerStep
  <1>3. Serving
    BY <1>2 DEF Request, ServerIInv
  <1> QED BY <1>1, <1>3 DEF ServerIInv, Serving, upgradeVars

(* A runner's step leaves the others alone, and none is left to one that is *)
(* up.                                                                      *)
LEMMA RunnerMoves ==
  ASSUME UpgradeTypeOK, NEW r \in Runners, RunnerStep(r)
  PROVE  /\ runner[r].at \notin {"out", "up"}
         /\ runner'[r].at # "out" /\ runner'[r].db = runner[r].db /\ runner'[r].files = runner[r].files
         /\ \A s \in Runners \ {r} : runner'[s] = runner[s]
  <1>1. runner \in [Runners -> RunnerRows]
    BY DEF UpgradeTypeOK
  <1>2. runner[r] \in RunnerRows
    BY <1>1
  <1>3. CASE ImportLegacyJournal(r) \/ ReadApplied(r)
    BY <1>1, <1>2, <1>3 DEF ImportLegacyJournal, ReadApplied, RunnerRows
  <1>4. CASE SkipApplied(r) \/ ExecuteStep(r)
    BY <1>1, <1>2, <1>4 DEF SkipApplied, ExecuteStep, HasNext, RunnerRows
  <1>5. CASE ApplyOne(r) \/ Complete(r)
    BY <1>1, <1>2, <1>5 DEF ApplyOne, Complete, RunnerRows
  <1> QED BY <1>3, <1>4, <1>5 DEF RunnerStep

LEMMA NextServer == UpgradeIInv /\ ServerIInv /\ [Next]_vars => ServerIInv'
  <1> SUFFICES ASSUME UpgradeIInv, ServerIInv, [Next]_vars PROVE ServerIInv'
    OBVIOUS
  <1>1. UpgradeTypeOK /\ runner \in [Runners -> RunnerRows] /\ Server \in Runners
    BY DEF UpgradeIInv, UpgradeTypeOK
  <1>2. CASE StartServer
    <2>1. config = Down /\ handler' = handler /\ runner[Server].at = "out"
      BY <1>2 DEF StartServer, ServerIInv
    <2>2. \A h \in Handlers : handler'[h] = Idle
      BY <2>1 DEF ServerIInv, Serving
    <2>3. PICK c : c = LoadConfig(env, file)
      OBVIOUS
    <2>4. c.driver \in Databases /\ config' = [driver |-> c.driver, migrate |-> c.migrate] /\ config' # Down
      <3>1. Nothing \notin Databases
        BY UpgradesAssumption
      <3> QED BY <1>2, <2>3, <3>1 DEF StartServer, CanOpen, Down
    <2>5. CASE c.migrate = "on"
      <3>1. PICK f \in Releases : Up(Server, c.driver, f)
        BY <1>2, <2>3, <2>5 DEF StartServer
      <3>2. runner'[Server].at # "out" /\ runner'[Server].db = c.driver /\ runner'[Server].files = f
        BY <1>1, <3>1 DEF Up, Out
      <3> QED BY <2>2, <2>4, <3>2 DEF ServerIInv
    <2>6. CASE c.migrate # "on"
      <3>1. runner' = runner
        BY <1>2, <2>3, <2>6 DEF StartServer, upgradeVars
      <3> QED BY <2>1, <2>2, <2>4, <3>1 DEF ServerIInv
    <2> QED BY <2>5, <2>6
  <1>3. CASE RunUpgradeCommand
    <2>1. UNCHANGED <<config, handler>> /\ runner'[Server] = runner[Server]
      BY <1>1, <1>3 DEF RunUpgradeCommand, Up, servingVars
    <2> QED BY <2>1 DEF ServerIInv, Serving
  <1>4. CASE Upgrading
    <2>1. UNCHANGED <<config, handler>>
      BY <1>4 DEF Upgrading, servingVars
    <2>2. PICK r \in Runners : RunnerStep(r) \/ (r # Server /\ Exit(r))
      BY <1>4 DEF Upgrading
    <2>3. CASE r # Server
      <3>1. runner'[Server] = runner[Server]
        BY <1>1, <2>2, <2>3, RunnerMoves DEF Exit
      <3> QED BY <2>1, <3>1 DEF ServerIInv, Serving
    <2>4. CASE r = Server
      <3>1. /\ runner[Server].at \notin {"out", "up"}
            /\ runner'[Server].at # "out"
            /\ runner'[Server].db = runner[Server].db /\ runner'[Server].files = runner[Server].files
        BY <1>1, <2>2, <2>4, RunnerMoves
      <3>2. ASSUME NEW h \in Handlers, handler'[h] # Idle
            PROVE  Serving'
        BY <2>1, <3>1, <3>2 DEF ServerIInv, Serving
      <3> QED BY <2>1, <3>1, <3>2 DEF ServerIInv
    <2> QED BY <2>3, <2>4
  <1>5. CASE StopServer
    <2>1. config' = Down /\ \A h \in Handlers : handler'[h] = Idle
      BY <1>5 DEF StopServer
    <2>2. runner'[Server].at = "out"
      BY <1>1, <1>5 DEF StopServer, Exit, Out, upgradeVars
    <2> QED BY <2>1, <2>2 DEF ServerIInv
  <1>6. ASSUME NEW h \in Handlers, HandlerStep(h)
        PROVE  ServerIInv'
    BY <1>6, HandlerServes
  <1>7. CASE UNCHANGED vars
    BY <1>7 DEF vars, upgradeVars, servingVars, ServerIInv, Serving
  <1> QED BY <1>2, <1>3, <1>4, <1>5, <1>6, <1>7 DEF Next

(* A server that upgrades its database itself takes requests only when that *)
(* database has every version of its release (cmd/server/main.go).          *)
THEOREM DeployedIsComplete == Spec => []RequestsMeetRelease
  <1>1. Init => UpgradeInit
    BY DEF Init
  <1>2. [Next]_vars => [UpgradeNext]_upgradeVars
    BY StepsUpgrade DEF vars
  <1>3. UpgradeIInv /\ ServerIInv => RequestsMeetRelease
    <2> SUFFICES ASSUME UpgradeIInv, ServerIInv, config.migrate = "on", NEW h \in Handlers, handler[h] # Idle
                 PROVE  /\ runner[Server].files \in Releases
                        /\ \A v \in 1..Len(runner[Server].files) : schema[DB][v] = <<runner[Server].files[v]>>
      BY DEF RequestsMeetRelease
    <2>1. runner[Server].at = "up"
      BY DEF ServerIInv, Serving
    <2>2. runner[Server].db = DB /\ runner[Server].files \in Releases
      BY <2>1 DEF ServerIInv, DB
    <2> QED BY <2>1, <2>2, CompleteUp DEF UpIsComplete
  <1> QED BY <1>1, <1>2, <1>3, InitHolds, NextHolds, ServerInit, NextServer, PTL DEF Spec

-----------------------------------------------------------------------------
(* Types *)

Places == {"idle", "count", "create", "open", "write", "call", "context", "plan", "confirm", "inspect", "ran"}

Subjects == Names \cup Conversations \cup ToolCalls \cup Settings \cup {Nothing}

HandlerRows ==
  [do : Operations \cup {Nothing}, at : Places, who : Names \cup {Bootstrap}, on : Subjects, fresh : BOOLEAN]

CallRows ==
  [in : Conversations \cup {Nothing}, tool : Tools \cup {Nothing}, status : CallStatuses \cup {Nothing}, runs : Nat]

ServingTypeOK ==
  /\ handler \in [Handlers -> HandlerRows]
  /\ admins \in [Databases -> SUBSET (Names \X BOOLEAN)]
  /\ talks \in [Databases -> [Conversations -> Names \cup {Bootstrap, Nothing}]]
  /\ calls \in [Databases -> [ToolCalls -> CallRows]]
  /\ config # Down => config.driver \in Databases

Running == {"count", "create", "open", "write", "inspect", "ran"}

(* Where a request can be, and what its call's status is when it is there.  *)
OnCourse(q) ==
  /\ q.do = Nothing => q.at = "idle"
  /\ q.do \in Operations => config # Down
  /\ q.at \in {"inspect", "ran", "confirm"} => q.do = "ConfirmToolCall"
  /\ q.at \in {"open", "write"} => q.do \in {"Save", "ConfirmToolCall"}
  /\ q.at \in {"count", "create"} => q.do \in {"BootstrapCreateAdmin", "ConfirmToolCall"}
  /\ q.do = "ConfirmToolCall" => q.on \in ToolCalls
  /\ q.do = "BootstrapCreateAdmin" => q.on \in Names
  /\ q.do \in {"CreateConversation", "SendMessage"} => q.on \in Conversations

Confirmed(q) ==
  q.do = "ConfirmToolCall" /\ q.at \in Running => calls[DB][q.on].status \in {"running", "succeeded", "failed"}

CameEarly(q) ==
  /\ q.do \in Operations /\ ~q.fresh => admins[DB] # {}
  /\ q.at = "create" => q.fresh

ServingIInv ==
  /\ ServingTypeOK
  /\ \A h \in Handlers : OnCourse(handler[h]) /\ Confirmed(handler[h]) /\ CameEarly(handler[h])
  /\ NoLateAdmin
  /\ PendingHasNotRun

LEMMA SettingsMade ==
  ASSUME NEW x \in Inputs
  PROVE  NormalizeUpdate(x) \in Settings
  BY DEF NormalizeUpdate, Choose, Sources, Settings, Drivers, Flags, Unset

LEMMA IdleRow == Idle \in HandlerRows
  BY DEF Idle, HandlerRows, Places, Subjects

LEMMA IdleKnows == OnCourse(Idle) /\ Confirmed(Idle) /\ CameEarly(Idle)
  <1>1. Idle.do = Nothing /\ Idle.at = "idle" /\ Nothing \notin Operations
    BY DEF Idle
  <1> QED BY <1>1 DEF OnCourse, Confirmed, CameEarly, Operations

LEMMA ServingInit == Init => ServingIInv
  <1> SUFFICES ASSUME Init PROVE ServingIInv
    OBVIOUS
  <1>1. ServingTypeOK
    <2>1. NoCall \in CallRows
      BY DEF NoCall, CallRows
    <2>2. PICK A \in {{}, Names}, o \in Names \cup {Bootstrap, Nothing} :
             /\ admins = [d \in Databases |-> A \X {TRUE}]
             /\ talks = [d \in Databases |-> [c \in Conversations |-> o]]
      BY DEF Init
    <2>3. A \X {TRUE} \subseteq Names \X BOOLEAN
      OBVIOUS
    <2> QED BY <2>1, <2>2, <2>3, IdleRow DEF Init, ServingTypeOK
  <1>2. \A h \in Handlers : OnCourse(handler[h]) /\ Confirmed(handler[h]) /\ CameEarly(handler[h])
    BY IdleKnows DEF Init
  <1>3. NoLateAdmin
    <2>1. PICK A \in {{}, Names} : admins = [d \in Databases |-> A \X {TRUE}]
      BY DEF Init
    <2> QED BY <2>1 DEF NoLateAdmin
  <1>4. PendingHasNotRun
    BY DEF Init, PendingHasNotRun, NoCall
  <1> QED BY <1>1, <1>2, <1>3, <1>4 DEF ServingIInv

-----------------------------------------------------------------------------
(* Steps of the server: its handlers start and end idle. *)

LEMMA ServerSteps ==
  ASSUME ServingIInv, StartServer \/ RunUpgradeCommand \/ Upgrading \/ StopServer \/ UNCHANGED vars
  PROVE  ServingIInv'
  <1>1. UNCHANGED <<admins, talks, calls>>
    BY DEF StartServer, RunUpgradeCommand, Upgrading, StopServer, vars, servingVars
  <1>2. NoLateAdmin' /\ PendingHasNotRun'
    BY <1>1 DEF ServingIInv, NoLateAdmin, PendingHasNotRun
  <1>3. CASE StartServer
    <2>1. config'.driver \in Databases /\ handler' = handler /\ config = Down
      BY <1>3 DEF StartServer, CanOpen
    <2>2. \A h \in Handlers : handler[h].do = Nothing /\ handler[h].at = "idle"
      BY <2>1 DEF ServingIInv, ServingTypeOK, HandlerRows, OnCourse
    <2>3. \A h \in Handlers : OnCourse(handler[h])' /\ Confirmed(handler[h])' /\ CameEarly(handler[h])'
      BY <2>1, <2>2 DEF OnCourse, Confirmed, CameEarly, Operations
    <2> QED BY <1>1, <1>2, <2>1, <2>3 DEF ServingIInv, ServingTypeOK
  <1>4. CASE StopServer
    <2>1. config' = Down /\ handler' = [h \in Handlers |-> Idle]
      BY <1>4 DEF StopServer
    <2>2. \A h \in Handlers : OnCourse(handler[h])' /\ Confirmed(handler[h])' /\ CameEarly(handler[h])'
      BY <2>1 DEF OnCourse, Confirmed, CameEarly, Idle, Operations
    <2> QED BY <1>1, <1>2, <2>1, <2>2, IdleRow DEF ServingIInv, ServingTypeOK
  <1>5. CASE RunUpgradeCommand \/ Upgrading \/ UNCHANGED vars
    <2>1. UNCHANGED <<config, handler>>
      BY <1>5 DEF RunUpgradeCommand, Upgrading, vars, servingVars
    <2> QED BY <1>1, <1>2, <2>1 DEF ServingIInv, ServingTypeOK, OnCourse, Confirmed, CameEarly, DB
  <1> QED BY <1>3, <1>4, <1>5

-----------------------------------------------------------------------------
(* Steps of a handler.  Only one changes; the others keep what they know,   *)
(* because no administrator goes and no call turns pending again.           *)

LEMMA HandlerSteps ==
  ASSUME ServingIInv, NEW h \in Handlers, NEW q \in HandlerRows,
         handler' = [handler EXCEPT ![h] = q], config' = config,
         OnCourse(q)', Confirmed(q)', CameEarly(q)',
         talks' \in [Databases -> [Conversations -> Names \cup {Bootstrap, Nothing}]],
         admins' \in [Databases -> SUBSET (Names \X BOOLEAN)],
         calls' \in [Databases -> [ToolCalls -> CallRows]],
         NoLateAdmin', PendingHasNotRun',
         \A d \in Databases : admins[d] \subseteq admins'[d],
         \A d \in Databases, k \in ToolCalls :
           calls[d][k].status \in {"running", "succeeded", "failed"} =>
             calls'[d][k].status \in {"running", "succeeded", "failed"}
  PROVE  ServingIInv'
  <1>1. ServingTypeOK'
    BY DEF ServingIInv, ServingTypeOK
  <1>2. ASSUME NEW g \in Handlers \ {h}
        PROVE  OnCourse(handler[g])' /\ Confirmed(handler[g])' /\ CameEarly(handler[g])'
    <2>1. handler'[g] = handler[g] /\ handler[g] \in HandlerRows
      BY DEF ServingIInv, ServingTypeOK
    <2>2. OnCourse(handler[g]) /\ Confirmed(handler[g]) /\ CameEarly(handler[g])
      BY DEF ServingIInv
    <2>3. OnCourse(handler[g])'
      BY <2>1, <2>2 DEF OnCourse
    <2>4. handler[g].do \in Operations => DB \in Databases /\ DB' = DB
      BY <2>2 DEF OnCourse, DB, ServingIInv, ServingTypeOK
    <2>5. Confirmed(handler[g])'
      BY <2>1, <2>2, <2>4 DEF Confirmed, OnCourse, Operations
    <2>6. CameEarly(handler[g])'
      BY <2>1, <2>2, <2>4 DEF CameEarly, OnCourse, Operations
    <2> QED BY <2>3, <2>5, <2>6
  <1>3. handler'[h] = q
    BY DEF ServingIInv, ServingTypeOK
  <1>4. \A g \in Handlers : OnCourse(handler[g])' /\ Confirmed(handler[g])' /\ CameEarly(handler[g])'
    <2>1. OnCourse(handler[h])' /\ Confirmed(handler[h])' /\ CameEarly(handler[h])'
      BY <1>3 DEF OnCourse, Confirmed, CameEarly
    <2> QED BY <1>2, <2>1
  <1> QED BY <1>1, <1>4 DEF ServingIInv

(* A handler that changes no row. *)
LEMMA MovesOn ==
  ASSUME ServingIInv, NEW h \in Handlers, NEW q \in HandlerRows,
         handler' = [handler EXCEPT ![h] = q], UNCHANGED <<config, admins, talks, calls>>,
         OnCourse(q), Confirmed(q), CameEarly(q)
  PROVE  ServingIInv'
  <1>1. OnCourse(q)' /\ Confirmed(q)' /\ CameEarly(q)'
    BY DEF OnCourse, Confirmed, CameEarly, DB
  <1>2. NoLateAdmin' /\ PendingHasNotRun'
    BY DEF ServingIInv, NoLateAdmin, PendingHasNotRun
  <1>3. /\ talks' \in [Databases -> [Conversations -> Names \cup {Bootstrap, Nothing}]]
        /\ admins' \in [Databases -> SUBSET (Names \X BOOLEAN)]
        /\ calls' \in [Databases -> [ToolCalls -> CallRows]]
    BY DEF ServingIInv, ServingTypeOK
  <1> QED BY <1>1, <1>2, <1>3, HandlerSteps

LEMMA Arrivals ==
  ASSUME ServingIInv, NEW h \in Handlers, Request(h)
  PROVE  ServingIInv'
  <1>1. PICK op \in Operations, l \in Places, u \in Names \cup {Bootstrap}, x \in Subjects :
          /\ Arrive(h, op, l, u, x)
          /\ op = "ConfirmToolCall" => x \in ToolCalls
          /\ op = "BootstrapCreateAdmin" => x \in Names
          /\ op \in {"CreateConversation", "SendMessage"} => x \in Conversations
          /\ <<op, l>> \in {<<"BootstrapCreateAdmin", "count">>, <<"Save", "open">>, <<"CreateConversation", "call">>,
                            <<"SendMessage", "context">>, <<"ConfirmToolCall", "call">>}
    <2>1. CASE BootstrapRequest(h)
      BY <2>1 DEF BootstrapRequest, Operations, Places, Subjects
    <2>2. CASE PutRequest(h)
      BY <2>2, SettingsMade DEF PutRequest, Operations, Places, Subjects
    <2>3. CASE AssistantRequest(h)
      BY <2>3 DEF AssistantRequest, Operations, Places, Subjects
    <2> QED BY <2>1, <2>2, <2>3 DEF Request
  <1>2. PICK q \in HandlerRows : q = [do |-> op, at |-> l, who |-> u, on |-> x, fresh |-> admins[DB] = {}]
    <2>1. (admins[DB] = {}) \in BOOLEAN
      OBVIOUS
    <2>2. [do |-> op, at |-> l, who |-> u, on |-> x, fresh |-> admins[DB] = {}] \in HandlerRows
      BY <1>1, <2>1, Zenon DEF HandlerRows
    <2> QED BY <2>2
  <1>3. handler' = [handler EXCEPT ![h] = q] /\ UNCHANGED <<config, admins, talks, calls>>
    BY <1>1, <1>2 DEF Arrive
  <1>4. config # Down
    BY DEF Request, Serving
  <1>5. OnCourse(q) /\ Confirmed(q) /\ CameEarly(q)
    BY <1>1, <1>2, <1>4 DEF OnCourse, Confirmed, CameEarly, Operations, Running
  <1> QED BY <1>3, <1>5, MovesOn

LEMMA EndsIdle ==
  ASSUME ServingIInv, NEW h \in Handlers, Fail(h)
  PROVE  ServingIInv'
  <1>1. PICK q \in HandlerRows : q = Idle
    BY IdleRow
  <1> QED BY <1>1, IdleKnows, MovesOn DEF Fail, Finish

(* The steps of a request that only go to its next place. *)
LEMMA Advances ==
  ASSUME ServingIInv, NEW h \in Handlers,
         CountUsers(h) \/ TruncateFile(h) \/ BuildContext(h) \/ ReadToolCall(h)
  PROVE  ServingIInv'
  <1>1. PICK l \in {"create", "write", "plan", "confirm"} :
          /\ Goto(h, l) /\ UNCHANGED <<config, admins, talks, calls>>
          /\ l = "create" => handler[h].at = "count" /\ admins[DB] = {}
          /\ l = "write" => handler[h].at = "open"
          /\ l = "plan" => handler[h].do = "SendMessage"
          /\ l = "confirm" => handler[h].do = "ConfirmToolCall"
    BY DEF CountUsers, NoUsers, TruncateFile, BuildContext, ReadToolCall
  <1>2. handler[h] \in HandlerRows
    BY DEF ServingIInv, ServingTypeOK
  <1>3. PICK q \in HandlerRows : q = [handler[h] EXCEPT !.at = l]
    BY <1>2 DEF HandlerRows, Places
  <1>4. handler' = [handler EXCEPT ![h] = q]
    BY <1>1, <1>3 DEF Goto
  <1>5. /\ q.at = l /\ q.do = handler[h].do /\ q.on = handler[h].on /\ q.fresh = handler[h].fresh
        /\ handler[h].do \in Operations \cup {Nothing}
    BY <1>2, <1>3 DEF HandlerRows
  <1>6. OnCourse(handler[h]) /\ Confirmed(handler[h]) /\ CameEarly(handler[h])
    BY DEF ServingIInv
  <1>7. OnCourse(q)
    BY <1>1, <1>5, <1>6 DEF OnCourse, Operations
  <1>8. Confirmed(q)
    BY <1>1, <1>5, <1>6 DEF OnCourse, Confirmed, Running
  <1>9. CameEarly(q)
    BY <1>1, <1>5, <1>6 DEF OnCourse, CameEarly, Operations
  <1> QED BY <1>1, <1>4, <1>7, <1>8, <1>9, MovesOn

-----------------------------------------------------------------------------
(* The steps that write rows *)

(* A handler at a place where its request runs a tool goes on to "ran", the *)
(* tool having run once more.                                               *)
Ran(h) ==
  /\ calls' = [calls EXCEPT ![DB][handler[h].on].runs = @ + 1]
  /\ Goto(h, "ran")

LEMMA CallAtWork ==
  ASSUME ServingIInv, NEW h \in Handlers, handler[h].do = "ConfirmToolCall"
  PROVE  DB \in Databases /\ handler[h].on \in ToolCalls /\ handler[h] \in HandlerRows
  BY DEF ServingIInv, ServingTypeOK, OnCourse, DB, Operations

LEMMA RunsTool ==
  ASSUME ServingIInv, NEW h \in Handlers, Ran(h),
         handler[h].do = "ConfirmToolCall", handler[h].at \in Running,
         UNCHANGED <<config, talks>>,
         admins' \in [Databases -> SUBSET (Names \X BOOLEAN)], NoLateAdmin',
         \A d \in Databases : admins[d] \subseteq admins'[d]
  PROVE  ServingIInv'
  <1> DEFINE k == handler[h].on
  <1>1. DB \in Databases /\ k \in ToolCalls /\ handler[h] \in HandlerRows
    BY CallAtWork
  <1>2. calls[DB][k] \in CallRows /\ calls[DB][k].status \in {"running", "succeeded", "failed"}
    BY <1>1 DEF ServingIInv, ServingTypeOK, Confirmed
  <1>3. PICK x \in CallRows : x = [calls[DB][k] EXCEPT !.runs = @ + 1]
    <2>1. PICK c \in CallRows : c = calls[DB][k]
      BY <1>2
    <2>2. [c EXCEPT !.runs = c.runs + 1] \in CallRows
      BY DEF CallRows
    <2> QED BY <2>1, <2>2
  <1>4. calls' = [calls EXCEPT ![DB] = [calls[DB] EXCEPT ![k] = x]]
    BY <1>3 DEF Ran
  <1>5. x.status = calls[DB][k].status
    BY <1>2, <1>3 DEF CallRows
  <1>6. PICK q \in HandlerRows : q = [handler[h] EXCEPT !.at = "ran"]
    BY <1>1 DEF HandlerRows, Places
  <1>7. handler' = [handler EXCEPT ![h] = q]
    BY <1>6 DEF Ran, Goto
  <1>8. q.at = "ran" /\ q.do = handler[h].do /\ q.on = k /\ q.fresh = handler[h].fresh
    BY <1>1, <1>6 DEF HandlerRows
  <1>9. OnCourse(handler[h]) /\ CameEarly(handler[h])
    BY DEF ServingIInv
  <1>10. OnCourse(q)'
    BY <1>8, <1>9 DEF OnCourse, Operations
  <1>11. CameEarly(q)'
    BY <1>1, <1>8, <1>9 DEF CameEarly, DB
  <1>12. /\ calls' \in [Databases -> [ToolCalls -> CallRows]]
         /\ calls'[DB][k] = x
         /\ \A e \in Databases, j \in ToolCalls : ~(e = DB /\ j = k) => calls'[e][j] = calls[e][j]
    <2>1. PICK d \in Databases, j \in ToolCalls : d = DB /\ j = k
      BY <1>1
    <2>2. calls' = [calls EXCEPT ![d] = [calls[d] EXCEPT ![j] = x]]
      BY <1>4, <2>1
    <2>3. /\ calls' \in [Databases -> [ToolCalls -> CallRows]]
          /\ calls'[d][j] = x
          /\ \A e \in Databases, i \in ToolCalls : ~(e = d /\ i = j) => calls'[e][i] = calls[e][i]
      BY <2>2 DEF ServingIInv, ServingTypeOK
    <2> QED BY <2>1, <2>3
  <1>13. Confirmed(q)'
    BY <1>2, <1>5, <1>8, <1>12 DEF Confirmed, DB
  <1> HIDE DEF k
  <1>14. PendingHasNotRun'
    BY <1>2, <1>5, <1>12 DEF PendingHasNotRun, ServingIInv
  <1>15. \A d \in Databases, j \in ToolCalls :
           calls[d][j].status \in {"running", "succeeded", "failed"} =>
             calls'[d][j].status \in {"running", "succeeded", "failed"}
    BY <1>2, <1>5, <1>12
  <1>16. talks' \in [Databases -> [Conversations -> Names \cup {Bootstrap, Nothing}]]
    BY DEF ServingIInv, ServingTypeOK
  <1> QED BY <1>7, <1>10, <1>11, <1>12, <1>13, <1>14, <1>15, <1>16, HandlerSteps

LEMMA Inspects ==
  ASSUME ServingIInv, NEW h \in Handlers, Inspect(h)
  PROVE  ServingIInv'
  <1>1. handler[h].at = "inspect" /\ Ran(h) /\ UNCHANGED <<config, talks, admins>>
    BY DEF Inspect, Ran
  <1>2. handler[h].do = "ConfirmToolCall"
    BY <1>1 DEF ServingIInv, OnCourse
  <1>3. admins' \in [Databases -> SUBSET (Names \X BOOLEAN)] /\ NoLateAdmin'
    BY <1>1 DEF ServingIInv, ServingTypeOK, NoLateAdmin
  <1> QED BY <1>1, <1>2, <1>3, RunsTool DEF Running

LEMMA Saves ==
  ASSUME ServingIInv, NEW h \in Handlers, SaveConfig(h)
  PROVE  ServingIInv'
  <1>1. handler[h].at = "write" /\ UNCHANGED <<config, talks, admins>>
    BY DEF SaveConfig, WriteFile
  <1>2. admins' \in [Databases -> SUBSET (Names \X BOOLEAN)] /\ NoLateAdmin'
    BY <1>1 DEF ServingIInv, ServingTypeOK, NoLateAdmin
  <1>3. CASE handler[h].do = "Save"
    <2>1. Finish(h) /\ UNCHANGED calls
      BY <1>3 DEF SaveConfig, WriteFile
    <2>2. PICK q \in HandlerRows : q = Idle
      BY IdleRow
    <2> QED BY <1>1, <2>1, <2>2, IdleKnows, MovesOn DEF Finish
  <1>4. CASE handler[h].do # "Save"
    <2>1. handler[h].do = "ConfirmToolCall"
      BY <1>1, <1>4 DEF ServingIInv, OnCourse
    <2>2. Ran(h)
      BY <1>4 DEF SaveConfig, WriteFile, Ran
    <2> QED BY <1>1, <1>2, <2>1, <2>2, RunsTool DEF Running
  <1> QED BY <1>3, <1>4

LEMMA Creates ==
  ASSUME ServingIInv, NEW h \in Handlers, CreateAdmin(h)
  PROVE  ServingIInv'
  <1>1. handler[h].at = "create" /\ UNCHANGED <<config, talks>>
    BY DEF CreateAdmin
  <1>2. /\ handler[h].do \in {"BootstrapCreateAdmin", "ConfirmToolCall"} /\ handler[h].fresh = TRUE
        /\ handler[h] \in HandlerRows
    BY <1>1 DEF ServingIInv, OnCourse, CameEarly, ServingTypeOK, HandlerRows
  <1>3. DB \in Databases
    BY <1>2 DEF ServingIInv, ServingTypeOK, OnCourse, DB, Operations
  <1>4. PICK n \in Names : admins' = [admins EXCEPT ![DB] = @ \cup {<<n, TRUE>>}]
    <2>1. CASE handler[h].do = "ConfirmToolCall"
      BY <1>2, <2>1 DEF CreateAdmin
    <2>2. CASE handler[h].do = "BootstrapCreateAdmin"
      <3>1. handler[h].on \in Names
        BY <2>2 DEF ServingIInv, OnCourse
      <3> QED BY <1>2, <2>2, <3>1 DEF CreateAdmin
    <2> QED BY <1>2, <2>1, <2>2
  <1>5. /\ admins' \in [Databases -> SUBSET (Names \X BOOLEAN)]
        /\ \A d \in Databases : admins[d] \subseteq admins'[d]
        /\ \A d \in Databases : admins'[d] \subseteq admins[d] \cup {<<n, TRUE>>}
    <2>1. PICK e \in Databases : e = DB
      BY <1>3
    <2>2. /\ admins' = [admins EXCEPT ![e] = admins[e] \cup {<<n, TRUE>>}]
          /\ admins \in [Databases -> SUBSET (Names \X BOOLEAN)]
          /\ <<n, TRUE>> \in Names \X BOOLEAN
      BY <1>4, <2>1 DEF ServingIInv, ServingTypeOK
    <2>3. \A d \in Databases : admins'[d] = IF d = e THEN admins[e] \cup {<<n, TRUE>>} ELSE admins[d]
      BY <2>2
    <2>4. admins[e] \cup {<<n, TRUE>>} \in SUBSET (Names \X BOOLEAN)
      BY <2>2
    <2>5. admins' \in [Databases -> SUBSET (Names \X BOOLEAN)]
      BY <2>2, <2>4
    <2> QED BY <2>3, <2>5
  <1>6. NoLateAdmin'
    <2> SUFFICES ASSUME NEW d \in Databases, NEW x \in admins'[d] PROVE x[2]
      BY DEF NoLateAdmin
    <2>1. x \in admins[d] \/ x = <<n, TRUE>>
      BY <1>5
    <2>2. CASE x \in admins[d]
      BY <2>2 DEF ServingIInv, NoLateAdmin
    <2>3. CASE x = <<n, TRUE>>
      BY <2>3
    <2> QED BY <2>1, <2>2, <2>3
  <1>7. CASE handler[h].do = "ConfirmToolCall"
    <2>1. Ran(h)
      BY <1>7 DEF CreateAdmin, Ran
    <2> QED BY <1>1, <1>5, <1>6, <1>7, <2>1, RunsTool DEF Running
  <1>8. CASE handler[h].do = "BootstrapCreateAdmin"
    <2>1. Finish(h) /\ UNCHANGED calls
      BY <1>8 DEF CreateAdmin
    <2>2. PICK q \in HandlerRows : q = Idle
      BY IdleRow
    <2>3. OnCourse(q)' /\ Confirmed(q)' /\ CameEarly(q)'
      BY <2>2 DEF OnCourse, Confirmed, CameEarly, Idle, Operations
    <2>4. PendingHasNotRun'
      BY <2>1 DEF ServingIInv, PendingHasNotRun
    <2>5. /\ talks' \in [Databases -> [Conversations -> Names \cup {Bootstrap, Nothing}]]
          /\ calls' \in [Databases -> [ToolCalls -> CallRows]]
      BY <1>1, <2>1 DEF ServingIInv, ServingTypeOK
    <2> QED BY <1>1, <1>5, <1>6, <2>1, <2>2, <2>3, <2>4, <2>5, HandlerSteps DEF Finish
  <1> QED BY <1>2, <1>7, <1>8

LEMMA Opens ==
  ASSUME ServingIInv, NEW h \in Handlers, CreateConversation(h)
  PROVE  ServingIInv'
  <1>1. /\ handler[h].do = "CreateConversation"
        /\ UNCHANGED <<config, admins, calls>> /\ handler' = [handler EXCEPT ![h] = Idle]
        /\ talks' = [talks EXCEPT ![DB][handler[h].on] = handler[h].who]
    BY DEF CreateConversation, Finish
  <1>2. handler[h] \in HandlerRows
    BY DEF ServingIInv, ServingTypeOK
  <1>3. PICK u \in Names \cup {Bootstrap} : u = handler[h].who
    BY <1>2 DEF HandlerRows
  <1>4. talks' \in [Databases -> [Conversations -> Names \cup {Bootstrap, Nothing}]]
    <2>1. talks \in [Databases -> [Conversations -> Names \cup {Bootstrap, Nothing}]]
      BY DEF ServingIInv, ServingTypeOK
    <2> QED BY <1>1, <1>3, <2>1
  <1>5. PICK q \in HandlerRows : q = Idle
    BY IdleRow
  <1>6. OnCourse(q)' /\ Confirmed(q)' /\ CameEarly(q)'
    BY <1>5 DEF OnCourse, Confirmed, CameEarly, Idle, Operations
  <1>7. NoLateAdmin' /\ PendingHasNotRun'
    BY <1>1 DEF ServingIInv, NoLateAdmin, PendingHasNotRun
  <1>8. /\ admins' \in [Databases -> SUBSET (Names \X BOOLEAN)]
        /\ calls' \in [Databases -> [ToolCalls -> CallRows]]
    BY <1>1 DEF ServingIInv, ServingTypeOK
  <1> QED BY <1>1, <1>4, <1>5, <1>6, <1>7, <1>8, HandlerSteps

(* A change of one call, by a handler that then is where q says: the call   *)
(* may not become pending again once it ran.                                *)
LEMMA ChangesCall ==
  ASSUME ServingIInv, NEW h \in Handlers, NEW q \in HandlerRows,
         NEW d \in Databases, NEW k \in ToolCalls, NEW x \in CallRows,
         handler' = [handler EXCEPT ![h] = q], UNCHANGED <<config, admins, talks>>,
         calls' = [calls EXCEPT ![d] = [calls[d] EXCEPT ![k] = x]],
         OnCourse(q), CameEarly(q),
         calls'[d][k] = x => Confirmed(q)',
         x.status = "pending_confirmation" => x.runs = 0,
         calls[d][k].status \in {"running", "succeeded", "failed"} => x.status \in {"running", "succeeded", "failed"}
  PROVE  ServingIInv'
  <1>1. /\ calls' \in [Databases -> [ToolCalls -> CallRows]]
        /\ calls'[d][k] = x
        /\ \A e \in Databases, j \in ToolCalls : ~(e = d /\ j = k) => calls'[e][j] = calls[e][j]
    BY DEF ServingIInv, ServingTypeOK
  <1>2. PendingHasNotRun'
    BY <1>1 DEF ServingIInv, PendingHasNotRun
  <1>3. \A e \in Databases, j \in ToolCalls :
          calls[e][j].status \in {"running", "succeeded", "failed"} =>
            calls'[e][j].status \in {"running", "succeeded", "failed"}
    BY <1>1
  <1>4. OnCourse(q)' /\ CameEarly(q)' /\ Confirmed(q)'
    BY <1>1 DEF OnCourse, CameEarly, DB
  <1>5. NoLateAdmin'
    BY DEF ServingIInv, NoLateAdmin
  <1>6. /\ talks' \in [Databases -> [Conversations -> Names \cup {Bootstrap, Nothing}]]
        /\ admins' \in [Databases -> SUBSET (Names \X BOOLEAN)]
        /\ \A e \in Databases : admins[e] \subseteq admins'[e]
    BY DEF ServingIInv, ServingTypeOK
  <1> QED BY <1>1, <1>2, <1>3, <1>4, <1>5, <1>6, HandlerSteps

(* A tool call is proposed on a row that had no status.                     *)
LEMMA Proposes ==
  ASSUME ServingIInv, NEW h \in Handlers, ProposeTool(h)
  PROVE  ServingIInv'
  <1>1. handler[h].do = "SendMessage" /\ handler' = [handler EXCEPT ![h] = Idle] /\ UNCHANGED <<config, admins, talks>>
    BY DEF ProposeTool, Finish
  <1>2. PICK d \in Databases, c \in Conversations : d = DB /\ c = handler[h].on
    BY <1>1 DEF ServingIInv, ServingTypeOK, OnCourse, DB, Operations
  <1>3. PICK k \in ToolCalls, t \in AllowedTools(talks[d][c]) :
          /\ calls[d][k] = NoCall
          /\ calls' = [calls EXCEPT ![d][k] = [in |-> c, tool |-> t, status |-> "pending_confirmation", runs |-> 0]]
    BY <1>2 DEF ProposeTool
  <1>4. PICK x \in CallRows : x = [in |-> c, tool |-> t, status |-> "pending_confirmation", runs |-> 0]
    <2>1. t \in Tools
      BY DEF AllowedTools, Tools
    <2> QED BY <2>1 DEF CallRows, CallStatuses
  <1>5. calls' = [calls EXCEPT ![d] = [calls[d] EXCEPT ![k] = x]]
    BY <1>3, <1>4
  <1>6. x.runs = 0 /\ x.status = "pending_confirmation" /\ calls[d][k].status = Nothing
    BY <1>3, <1>4 DEF NoCall
  <1>7. PICK q \in HandlerRows : q = Idle
    BY IdleRow
  <1>8. OnCourse(q) /\ CameEarly(q) /\ Confirmed(q)'
    BY <1>7, IdleKnows DEF Confirmed, Idle, Operations
  <1>9. Nothing \notin {"running", "succeeded", "failed"}
    BY DEF CallStatuses
  <1> QED BY <1>1, <1>5, <1>6, <1>7, <1>8, <1>9, ChangesCall

(* A request marks its call as running, and goes where its tool starts.     *)
LEMMA Marks ==
  ASSUME ServingIInv, NEW h \in Handlers, MarkRunning(h)
  PROVE  ServingIInv'
  <1>1. handler[h].do = "ConfirmToolCall" /\ handler[h].at = "confirm" /\ UNCHANGED <<config, admins, talks>>
    BY DEF MarkRunning
  <1>2. handler[h] \in HandlerRows
    BY <1>1, CallAtWork
  <1>3. PICK d \in Databases, k \in ToolCalls : d = DB /\ k = handler[h].on
    BY <1>1, CallAtWork
  <1>4. PICK l \in {"count", "open", "inspect"} : Goto(h, l)
    BY DEF MarkRunning, FirstOf
  <1>5. PICK x \in CallRows : x = [calls[d][k] EXCEPT !.status = "running"]
    <2>1. calls[d][k] \in CallRows
      BY DEF ServingIInv, ServingTypeOK
    <2> QED BY <2>1 DEF CallRows, CallStatuses
  <1>6. x.status = "running"
    <2>1. calls[d][k] \in CallRows
      BY DEF ServingIInv, ServingTypeOK
    <2> QED BY <1>5, <2>1 DEF CallRows
  <1>7. calls' = [calls EXCEPT ![d] = [calls[d] EXCEPT ![k] = x]]
    BY <1>3, <1>5 DEF MarkRunning
  <1>8. PICK q \in HandlerRows : q = [handler[h] EXCEPT !.at = l]
    BY <1>2 DEF HandlerRows, Places
  <1>9. q.at = l /\ q.do = "ConfirmToolCall" /\ q.on = k /\ q.fresh = handler[h].fresh
    BY <1>1, <1>2, <1>3, <1>8 DEF HandlerRows
  <1>10. handler' = [handler EXCEPT ![h] = q]
    BY <1>4, <1>8 DEF Goto
  <1>11. OnCourse(handler[h]) /\ CameEarly(handler[h])
    BY DEF ServingIInv
  <1>12. OnCourse(q) /\ CameEarly(q)
    BY <1>1, <1>3, <1>9, <1>11 DEF OnCourse, CameEarly, Operations
  <1>13. calls'[d][k] = x => Confirmed(q)'
    BY <1>1, <1>3, <1>6, <1>9 DEF Confirmed, DB
  <1> QED BY <1>1, <1>6, <1>7, <1>10, <1>12, <1>13, ChangesCall

LEMMA Stores ==
  ASSUME ServingIInv, NEW h \in Handlers, StoreOutcome(h)
  PROVE  ServingIInv'
  <1>1. handler[h].do = "ConfirmToolCall" /\ handler' = [handler EXCEPT ![h] = Idle] /\ UNCHANGED <<config, admins, talks>>
    BY DEF StoreOutcome, Finish
  <1>2. PICK d \in Databases, k \in ToolCalls : d = DB /\ k = handler[h].on
    BY <1>1, CallAtWork
  <1>3. PICK e \in {"succeeded", "failed"} : calls' = [calls EXCEPT ![d][k].status = e]
    BY <1>2 DEF StoreOutcome
  <1>4. calls[d][k] \in CallRows
    BY DEF ServingIInv, ServingTypeOK
  <1>5. PICK x \in CallRows : x = [calls[d][k] EXCEPT !.status = e] /\ x.status = e
    <2>1. PICK y \in CallRows : y = calls[d][k]
      BY <1>4
    <2>2. e \in CallStatuses \cup {Nothing}
      BY DEF CallStatuses
    <2>3. [y EXCEPT !.status = e] \in CallRows /\ [y EXCEPT !.status = e].status = e
      BY <2>2 DEF CallRows
    <2> QED BY <2>1, <2>3
  <1>6. calls' = [calls EXCEPT ![d] = [calls[d] EXCEPT ![k] = x]]
    BY <1>3, <1>5
  <1>7. PICK q \in HandlerRows : q = Idle
    BY IdleRow
  <1>8. OnCourse(q) /\ CameEarly(q) /\ Confirmed(q)'
    BY <1>7, IdleKnows DEF Confirmed, Idle, Operations
  <1> QED BY <1>1, <1>5, <1>6, <1>7, <1>8, ChangesCall

LEMMA NextServing == ServingIInv /\ [Next]_vars => ServingIInv'
  <1> SUFFICES ASSUME ServingIInv, [Next]_vars PROVE ServingIInv'
    OBVIOUS
  <1>1. CASE StartServer \/ RunUpgradeCommand \/ Upgrading \/ StopServer \/ UNCHANGED vars
    BY <1>1, ServerSteps
  <1>2. ASSUME NEW h \in Handlers, HandlerStep(h)
        PROVE  ServingIInv'
    BY <1>2, Arrivals, EndsIdle, Advances, Inspects, Saves, Creates, Opens, Proposes, Marks, Stores DEF HandlerStep
  <1> QED BY <1>1, <1>2 DEF Next

(* No administrator is created by the bootstrap, asked for directly or      *)
(* through the assistant, once there was a user when the request came.      *)
THEOREM NoAdminComesLate == Spec => []NoLateAdmin
  <1>1. ServingIInv => NoLateAdmin
    BY DEF ServingIInv
  <1> QED BY <1>1, ServingInit, NextServing, PTL DEF Spec

(* A tool call that still awaits its confirmation has never run its tool.   *)
THEOREM PendingIsUntouched == Spec => []PendingHasNotRun
  <1>1. ServingIInv => PendingHasNotRun
    BY DEF ServingIInv
  <1> QED BY <1>1, ServingInit, NextServing, PTL DEF Spec

=============================================================================
