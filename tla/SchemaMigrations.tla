-------------------------- MODULE SchemaMigrations --------------------------
(***************************************************************************)
(* The migration runner.  Every deployment runs it with the files of its   *)
(* own release, which may miss the newest ones or hold an edited one.  A   *)
(* run takes a session lock, compares the files with schema_migrations     *)
(* and executes what is missing, each file in a transaction with its row.  *)
(* A run may stop at any point; its transaction and lock go with it.       *)
(***************************************************************************)
EXTENDS Naturals, FiniteSets

CONSTANTS
  Versions,     \* the newest version of a migration
  Deployments,  \* concurrent runs of the command
  MaxRollbacks  \* bound: files that are rolled back

ASSUME MigrationBounds == Versions \in Nat /\ MaxRollbacks \in Nat

VARIABLES
  run,       \* the runs
  migrated,  \* schema_migrations, by version
  schema,    \* how often the SQL of a file is in effect
  rollbacks  \* how often a file was rolled back

migrationVars == <<run, migrated, schema, rollbacks>>

Files == 1..Versions

\* What a file holds; a row without checksum comes from an older runner.
Texts     == {"written", "edited"}

Releases == [newest : Files, edited : 0..Versions]
Idle     == [step |-> "idle", command |-> "none", release |-> [newest |-> 0, edited |-> 0],
             applied |-> {}]

TextOf(release, v) == IF v = release.edited THEN "edited" ELSE "written"

\* The database is new, or was migrated by an older runner.
MigrationInit ==
  /\ run = [d \in Deployments |-> Idle]
  /\ \E n \in 0..Versions, checksum \in {"unknown", "written"} :
       /\ migrated = [v \in Files |-> IF v <= n THEN checksum ELSE "none"]
       /\ schema   = [v \in Files |-> IF v <= n THEN 1 ELSE 0]
  /\ rollbacks = 0

Applied == {v \in Files : migrated[v] # "none"}

RunEnds(d) == run' = [run EXCEPT ![d] = Idle]
-----------------------------------------------------------------------------
\* Mutant: runs do not wait for each other.
NoLockTaken(d) == TRUE

\* pg_advisory_lock on the runner's key, held by the connection.
LockFree(d) == \A e \in Deployments \ {d} : run[e].step = "idle"

\* prepare creates the table; the command is chosen.
Lock(d, command, release) ==
  /\ run[d].step = "idle" /\ LockFree(d)
  /\ run' = [run EXCEPT ![d] = [Idle EXCEPT !.step = "locked", !.command = command,
                                           !.release = release]]
  /\ UNCHANGED <<migrated, schema, rollbacks>>

\* The file's checksum is the recorded one, if there is one.
Unedited(d, v) == migrated[v] \in {"none", "unknown", TextOf(run[d].release, v)}

\* verifyApplied, file by file: a row without checksum gets that of the file.  The rows are read
\* once, before the first file.
VerifyApplied(d) ==
  /\ run[d].step = "locked"
  /\ LET mine  == 1..run[d].release.newest
         wrong == {v \in mine : ~Unedited(d, v)} IN
     /\ migrated' = [v \in Files |->
                  IF v \in mine \cap Applied /\ \A w \in wrong : v < w
                  THEN TextOf(run[d].release, v) ELSE migrated[v]]
     /\ IF wrong # {} \/ run[d].command = "status" THEN RunEnds(d)
        ELSE run' = [run EXCEPT ![d].step = "verified", ![d].applied = Applied]
  /\ UNCHANGED <<schema, rollbacks>>

\* INSERT INTO schema_migrations, in the transaction of the SQL.
InsertRow(d, v) == migrated' = [migrated EXCEPT ![v] = TextOf(run[d].release, v)]

\* up: the first file that had no row; BEGIN, its SQL, its row, COMMIT.  A row that appeared
\* since makes the INSERT fail.
Up(d) ==
  LET missing == (1..run[d].release.newest) \ run[d].applied IN
  /\ run[d].step = "verified" /\ run[d].command = "up"
  /\ IF missing \ Applied # missing \/ missing = {}
     THEN RunEnds(d) /\ UNCHANGED <<migrated, schema>>
     ELSE \E v \in missing :
            /\ \A w \in missing : v <= w
            /\ schema' = [schema EXCEPT ![v] = @ + 1]
            /\ InsertRow(d, v)
            /\ run' = [run EXCEPT ![d].applied = @ \cup {v}]
  /\ UNCHANGED rollbacks

\* down: the latest of the run's own files that had a row, if a reviewed .down.sql exists.
Down(d) ==
  LET mine == (1..run[d].release.newest) \cap run[d].applied IN
  /\ run[d].step = "verified" /\ run[d].command = "down" /\ RunEnds(d)
  /\ \E v \in mine :
       /\ \A w \in mine : w <= v
       /\ rollbacks < MaxRollbacks /\ rollbacks' = rollbacks + 1
       /\ schema'   = [schema EXCEPT ![v] = @ - 1]
       /\ migrated' = [migrated EXCEPT ![v] = "none"]

\* The SQL fails and is rolled back, or the process stops.
Fails(d) ==
  /\ run[d].step # "idle" /\ RunEnds(d)
  /\ UNCHANGED <<migrated, schema, rollbacks>>

MigrationNext ==
  \E d \in Deployments :
    \/ \E command \in {"up", "down", "status"}, release \in Releases : Lock(d, command, release)
    \/ VerifyApplied(d) \/ Up(d) \/ Down(d) \/ Fails(d)

MigrationSpec == MigrationInit /\ [][MigrationNext]_migrationVars
-----------------------------------------------------------------------------
\* The rows tell what the schema is: a file's SQL is in effect exactly once when it has a row and
\* not at all when it has none, whichever releases ran and wherever they stopped (up, down).
RowsMatchSchema == \A v \in Files : schema[v] = IF migrated[v] = "none" THEN 0 ELSE 1
=============================================================================
