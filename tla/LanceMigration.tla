--------------------------- MODULE LanceMigration ---------------------------
(***************************************************************************)
(* Opening the Lance store (memory/lance_store.py): the recreate-and-copy  *)
(* migration of a table without vector columns, its JSONL backup and its   *)
(* staging table, and the recovery of a migration that was interrupted.    *)
(*                                                                         *)
(* The process may die between any two steps, and any table operation may  *)
(* raise; creating a table may then leave an empty one behind.  Rows are   *)
(* put while the store is open, also when it runs without vectors.         *)
(***************************************************************************)
EXTENDS Integers, FiniteSets

CONSTANTS
  Rows,       \* atoms
  Corpus,     \* the ones in the table before the upgrade
  MaxDeaths,  \* bound on process deaths
  MaxRaises   \* bound on table and file operations that raise

ASSUME MigrationOK == Corpus \subseteq Rows

VARIABLES
  table,    \* atoms: there, its rows, does it have the vector columns?
  staging,  \* atoms__migrating: there, its rows
  bak,      \* the newest atoms-*.jsonl: there, its rows
  step,     \* where the open is: "down", "running", or the next step
  path,     \* who called the recovery: "open" or the failed "migration"
  ok,       \* _vector_schema_ok
  kept,     \* history: rows that were put and acknowledged
  astray,   \* history: an empty stand-in took puts, or a thin backup was restored
  deaths, raises   \* bounds

disk == <<table, staging, bak>>
vars == <<disk, step, path, ok, kept, astray, deaths, raises>>

Missing == [there |-> FALSE, rows |-> {}, emb |-> FALSE]
Gone    == [there |-> FALSE, rows |-> {}]
Empty   == [there |-> TRUE, rows |-> {}, emb |-> TRUE]
Filled(rs) == [there |-> TRUE, rows |-> rs, emb |-> TRUE]

Artifacts == staging.there \/ bak.there
Blank == ~table.there \/ table.rows = {}

-----------------------------------------------------------------------------
(* _open_db                                                                *)

Open ==
  /\ step = "down" /\ path' = "open"
  /\ \/ /\ ~table.there /\ ~Artifacts          \* fresh install
        /\ table' = Empty /\ step' = "running" /\ ok' = TRUE
     \/ /\ Blank /\ Artifacts                  \* a migration was interrupted
        /\ step' = IF staging.there THEN "promote" ELSE "restore"
        /\ UNCHANGED <<table, ok>>
     \/ /\ table.there /\ (table.rows # {} \/ ~Artifacts)
        /\ step' = IF table.emb THEN "running" ELSE "backup"
        /\ ok' = (IF table.emb THEN TRUE ELSE ok)
        /\ UNCHANGED table
  /\ UNCHANGED <<staging, bak, kept, astray, deaths, raises>>

-----------------------------------------------------------------------------
(* _migrate_vector_schema                                                  *)

\* _write_migration_backup never raises: it may leave part of the rows, or no file.
Backup ==
  /\ step = "backup"
  /\ \/ bak' = [there |-> TRUE, rows |-> table.rows] /\ UNCHANGED raises
     \/ /\ raises < MaxRaises /\ raises' = raises + 1
        /\ \/ UNCHANGED bak
           \/ \E part \in SUBSET table.rows : bak' = [there |-> TRUE, rows |-> part]
  /\ step' = "stage"
  /\ UNCHANGED <<table, staging, path, ok, kept, astray, deaths>>

StageLate ==   \* mutant: the old table is dropped before the staging table is written
  /\ step = "stage"
  /\ table' = Missing /\ staging' = Gone
  /\ step' = "create"
  /\ UNCHANGED <<bak, path, ok, kept, astray, deaths, raises>>

\* A stale staging table is dropped and a full copy written.
Stage ==
  /\ step = "stage"
  /\ staging' = [there |-> TRUE, rows |-> table.rows]
  /\ step' = "dropOld"
  /\ UNCHANGED <<table, bak, path, ok, kept, astray, deaths, raises>>

DropOld ==
  /\ step = "dropOld"
  /\ table' = Missing
  /\ step' = "create"
  /\ UNCHANGED <<staging, bak, path, ok, kept, astray, deaths, raises>>

Create ==
  /\ step = "create"
  /\ table' = Filled(staging.rows)
  /\ step' = "unstage"
  /\ UNCHANGED <<staging, bak, path, ok, kept, astray, deaths, raises>>

\* The staging table is dropped, or left where it is.
Unstage ==
  /\ step = "unstage"
  /\ \/ staging' = Gone /\ UNCHANGED raises
     \/ raises < MaxRaises /\ raises' = raises + 1 /\ UNCHANGED staging
  /\ step' = "running" /\ ok' = TRUE
  /\ UNCHANGED <<table, bak, path, kept, astray, deaths>>

-----------------------------------------------------------------------------
(* _recover_interrupted_migration                                          *)

\* _promote_staging_table: the blank table goes, the staging copy takes its place.
PromoteDrop ==
  /\ step = "promote"
  /\ table' = Missing /\ step' = "promoteCreate"
  /\ UNCHANGED <<staging, bak, path, ok, kept, astray, deaths, raises>>

PromoteCreate ==
  /\ step = "promoteCreate"
  /\ table' = Filled(staging.rows) /\ step' = "unstage"
  /\ UNCHANGED <<staging, bak, path, ok, kept, astray, deaths, raises>>

RestoreDrop ==
  /\ step = "restore"
  /\ table' = Missing /\ step' = "restoreCreate"
  /\ UNCHANGED <<staging, bak, path, ok, kept, astray, deaths, raises>>

\* _restore_from_migration_backup: the lines that can be read.
RestoreCreate ==
  /\ step = "restoreCreate"
  /\ table' = Filled(bak.rows)
  /\ astray' = (astray \/ ~(kept \subseteq bak.rows))
  /\ step' = "running" /\ ok' = TRUE
  /\ UNCHANGED <<staging, bak, path, kept, deaths, raises>>

\* Neither copy could be brought back: an empty stand-in for the open, an
\* error for the open that was migrating (its table is gone).
GiveUp ==
  /\ step = "giveUp" /\ ok' = FALSE
  /\ IF table.there THEN step' = "running" /\ UNCHANGED table
     ELSE IF path = "open" THEN step' = "running" /\ table' = Empty
     ELSE step' = "down" /\ UNCHANGED table
  /\ UNCHANGED <<staging, bak, path, kept, astray, deaths, raises>>

-----------------------------------------------------------------------------
(* Faults                                                                  *)

Creating == {"stage", "create", "promoteCreate", "restoreCreate"}

\* What creating a table may leave when it does not succeed.
HalfCreated ==
  \/ UNCHANGED <<table, staging>>
  \/ step = "stage" /\ staging' = [there |-> TRUE, rows |-> {}] /\ UNCHANGED table
  \/ step \in Creating \ {"stage"} /\ table' = Empty /\ UNCHANGED staging

\* Where an exception leads: back to the table, to the other copy, or nowhere.
AfterRaise ==
  LET recover == IF staging'.there THEN "promote" ELSE IF bak.there THEN "restore" ELSE "giveUp"
  IN  CASE step \in {"stage", "dropOld", "create"} ->
             IF table'.there /\ (table'.rows # {} \/ ~(staging'.there \/ bak.there))
             THEN "running" ELSE recover
        [] step \in {"promote", "promoteCreate"} -> IF bak.there THEN "restore" ELSE "giveUp"
        [] OTHER -> "giveUp"

Raises ==
  /\ step \in Creating \cup {"dropOld", "promote", "restore"}
  /\ raises < MaxRaises /\ raises' = raises + 1
  /\ HalfCreated
  /\ step' = AfterRaise /\ ok' = FALSE
  /\ path' = IF step \in {"stage", "dropOld", "create"} THEN "migration" ELSE path
  /\ UNCHANGED <<bak, kept, astray, deaths>>

Dies ==
  /\ step # "down" /\ deaths < MaxDeaths /\ deaths' = deaths + 1
  /\ step' = "down"
  /\ HalfCreated
  /\ UNCHANGED <<bak, path, ok, kept, astray, raises>>

\* put_atom on the open store, with or without vectors.
Put(r) ==
  /\ step = "running" /\ table.there /\ r \notin kept
  /\ table' = [table EXCEPT !.rows = @ \cup {r}]
  /\ kept' = kept \cup {r}
  /\ astray' = (astray \/ ~(kept \subseteq table.rows))
  /\ UNCHANGED <<staging, bak, step, path, ok, deaths, raises>>

-----------------------------------------------------------------------------
Init ==
  /\ \/ table = [there |-> TRUE, rows |-> Corpus, emb |-> FALSE] /\ kept = Corpus
     \/ table = Missing /\ kept = {}
  /\ staging = Gone /\ bak = Gone /\ step = "down" /\ path = "open" /\ ok = FALSE
  /\ astray = FALSE /\ deaths = 0 /\ raises = 0

OpenStep ==
  \/ Open \/ Backup \/ Stage \/ DropOld \/ Create \/ Unstage
  \/ PromoteDrop \/ PromoteCreate \/ RestoreDrop \/ RestoreCreate \/ GiveUp

Next == OpenStep \/ Raises \/ Dies \/ (\E r \in Rows : Put(r))

Spec == Init /\ [][Next]_vars

-----------------------------------------------------------------------------
(* Properties                                                              *)

\* The state is well formed; the store is open over a table that exists.
TypeOK ==
  /\ table.rows \subseteq Rows /\ staging.rows \subseteq Rows /\ bak.rows \subseteq Rows
  /\ step = "running" => table.there
  /\ ok \in BOOLEAN

\* Gate A: at no point of a migration or of a recovery, whatever dies or
\* raises, is an atom in none of the table, the staging copy and the backup.
NoRowLost == kept \subseteq table.rows \cup staging.rows \cup bak.rows

\* A store that opens with vectors has every atom, unless an earlier open ran
\* on an empty stand-in that took puts, or fell back to an incomplete backup.
OpensWhole == step = "running" /\ ok => kept \subseteq table.rows \/ astray

\* However often the migration dies or raises, no row is without a copy that an
\* open finds, and the store never opens over less than the corpus.
MigrationIsSafe == TypeOK /\ NoRowLost /\ OpensWhole
=============================================================================
