------------------------- MODULE LanceMigrationProofs -------------------------
(***************************************************************************)
(* MigrationIsSafe for any rows, any corpus and any number of deaths and   *)
(* failing operations.  The old table, which has no vector columns, holds  *)
(* every acknowledged row until the staging copy does; a copy is given up  *)
(* only when the table that replaces it holds its rows; and a table that   *)
(* is blank is one that a migration emptied, whose staging copy is whole.  *)
(***************************************************************************)
EXTENDS LanceMigration, TLAPS

Steps ==
  {"down", "running", "backup", "stage", "dropOld", "create", "unstage", "promote",
   "promoteCreate", "restore", "restoreCreate", "giveUp"}

Tables == [there : BOOLEAN, rows : SUBSET Rows, emb : BOOLEAN]
Copies == [there : BOOLEAN, rows : SUBSET Rows]

\* Types; what is not there has no rows.
TypeInv ==
  /\ table \in Tables /\ staging \in Copies /\ bak \in Copies
  /\ ~table.there => table.rows = {}
  /\ ~staging.there => staging.rows = {}
  /\ ~bak.there => bak.rows = {}
  /\ step \in Steps /\ ok \in BOOLEAN /\ kept \subseteq Rows /\ astray \in BOOLEAN

\* What holds at each step of an open.
StepInv ==
  /\ step = "running" => table.there
  /\ step \in {"backup", "stage", "dropOld"} => table.there /\ ~table.emb
  /\ step \in {"dropOld", "create"} => kept \subseteq staging.rows
  /\ step \in {"create", "promoteCreate", "restoreCreate"} => table = Missing
  /\ step \in {"promote", "restore", "giveUp"} => table.rows = {}
  /\ step \in {"promote", "promoteCreate"} => staging.there
  /\ step = "unstage" =>
       /\ table.there /\ staging.rows \subseteq table.rows
       /\ kept \subseteq table.rows \/ astray

\* What each copy holds, at whatever step the process is, or died.
CopyInv ==
  /\ table.there /\ ~table.emb => kept \subseteq table.rows
  /\ table.rows # {} => kept \subseteq table.rows \/ astray
  /\ staging.there /\ table.rows = {} => kept \subseteq staging.rows \/ astray

Inv == TypeInv /\ StepInv /\ CopyInv /\ NoRowLost /\ OpensWhole

-----------------------------------------------------------------------------
(* Every step keeps the invariant *)

\* What the steps put into the three places is of their kind.
LEMMA Shapes ==
  /\ Missing \in Tables /\ Empty \in Tables /\ Gone \in Copies
  /\ \A rs \in SUBSET Rows :
       Filled(rs) \in Tables /\ [there |-> TRUE, rows |-> rs] \in Copies
BY DEF Missing, Empty, Gone, Filled, Tables, Copies

\* A record of the three places has a set of rows.
LEMMA Fields ==
  TypeInv => table.rows \in SUBSET Rows /\ staging.rows \in SUBSET Rows
             /\ bak.rows \in SUBSET Rows /\ table.there \in BOOLEAN
BY DEF TypeInv, Tables, Copies

\* The store starts over the corpus, or over nothing.
LEMMA InitInv == Init => Inv
<1> SUFFICES ASSUME Init PROVE Inv
  OBVIOUS
<1>1. TypeInv
  <2>1. [there |-> TRUE, rows |-> Corpus, emb |-> FALSE] \in Tables
    BY MigrationOK DEF Tables
  <2>2. table \in Tables /\ staging \in Copies /\ bak \in Copies
    BY <2>1, Shapes DEF Init
  <2>3. kept \subseteq Rows /\ step \in Steps /\ ok \in BOOLEAN /\ astray \in BOOLEAN
    BY MigrationOK DEF Init, Steps
  <2>4. QED
    BY <2>2, <2>3 DEF Init, TypeInv, Missing, Gone
<1>2. StepInv /\ CopyInv /\ NoRowLost /\ OpensWhole
  BY DEF Init, StepInv, CopyInv, NoRowLost, OpensWhole
<1>3. QED
  BY <1>1, <1>2 DEF Inv

LEMMA NextInv == Inv /\ [Next]_vars => Inv'
<1> SUFFICES ASSUME Inv, [Next]_vars PROVE Inv'
  OBVIOUS
<1> USE DEF Inv
<1>stay. CASE UNCHANGED vars
  <2>1. TypeInv'
    BY <1>stay DEF vars, disk, TypeInv
  <2>2. StepInv' /\ CopyInv' /\ NoRowLost' /\ OpensWhole'
    BY <1>stay DEF vars, disk, StepInv, CopyInv, NoRowLost, OpensWhole
  <2>3. QED
    BY <2>1, <2>2
<1>1. CASE Open
  <2>1. TypeInv'
    <3>1. table' \in Tables /\ staging' \in Copies /\ bak' \in Copies
      BY <1>1, Shapes, Fields DEF Open, TypeInv
    <3>2. /\ ~table'.there => table'.rows = {}
          /\ ~staging'.there => staging'.rows = {}
          /\ ~bak'.there => bak'.rows = {}
      BY <1>1, table' = Empty \/ table' = table DEF Open, TypeInv, Empty
    <3>3. /\ step' \in Steps /\ ok' \in BOOLEAN
          /\ kept' \subseteq Rows /\ astray' \in BOOLEAN
      BY <1>1 DEF Open, TypeInv, Steps
    <3>4. QED
      BY <3>1, <3>2, <3>3 DEF TypeInv
  <2>2. StepInv'
    <3>1. CASE table' = Empty /\ step' = "running"
      BY <1>1, <3>1 DEF Open, StepInv, Empty
    <3>2. CASE /\ Blank /\ Artifacts /\ table' = table
               /\ step' = IF staging.there THEN "promote" ELSE "restore"
      BY <1>1, <3>2 DEF Open, TypeInv, StepInv, Blank
    <3>3. CASE /\ table.there /\ table' = table
               /\ step' = IF table.emb THEN "running" ELSE "backup"
      BY <1>1, <3>3 DEF Open, StepInv
    <3>4. QED
      BY <1>1, <3>1, <3>2, <3>3 DEF Open
  <2>3. CopyInv'
    BY <1>1 DEF Open, TypeInv, Tables, Copies, StepInv, CopyInv, NoRowLost, OpensWhole, Missing, Gone, Empty, Filled, Blank, Artifacts, Steps
  <2>4. NoRowLost' /\ OpensWhole'
    BY <1>1 DEF Open, TypeInv, CopyInv, NoRowLost, OpensWhole, Artifacts
  <2>5. QED
    BY <2>1, <2>2, <2>3, <2>4
<1>2. CASE Backup
  <2>1. TypeInv'
    <3>1. table' \in Tables /\ staging' \in Copies /\ bak' \in Copies
      BY <1>2, Shapes, Fields DEF Backup, TypeInv
    <3>2. /\ ~table'.there => table'.rows = {}
          /\ ~staging'.there => staging'.rows = {}
          /\ ~bak'.there => bak'.rows = {}
      BY <1>2 DEF Backup, TypeInv, Missing, Empty, Gone
    <3>3. /\ step' \in Steps /\ ok' \in BOOLEAN
          /\ kept' \subseteq Rows /\ astray' \in BOOLEAN
      BY <1>2 DEF Backup, TypeInv, Steps
    <3>4. QED
      BY <3>1, <3>2, <3>3 DEF TypeInv
  <2>2. StepInv'
    BY <1>2 DEF Backup, TypeInv, Tables, Copies, StepInv, CopyInv, NoRowLost, OpensWhole, Missing, Gone, Empty, Filled, Blank, Artifacts, Steps
  <2>3. CopyInv'
    BY <1>2 DEF Backup, TypeInv, Tables, Copies, StepInv, CopyInv, NoRowLost, OpensWhole, Missing, Gone, Empty, Filled, Blank, Artifacts, Steps
  <2>4. NoRowLost' /\ OpensWhole'
    BY <1>2 DEF Backup, StepInv, CopyInv, NoRowLost, OpensWhole
  <2>5. QED
    BY <2>1, <2>2, <2>3, <2>4
<1>3. CASE Stage
  <2>1. TypeInv'
    BY <1>3 DEF Stage, TypeInv, Tables, Copies, Missing, Gone, Empty, Filled, Steps
  <2>2. StepInv'
    BY <1>3 DEF Stage, TypeInv, Tables, Copies, StepInv, CopyInv, NoRowLost, OpensWhole, Missing, Gone, Empty, Filled, Blank, Artifacts, Steps
  <2>3. CopyInv'
    BY <1>3 DEF Stage, TypeInv, Tables, Copies, StepInv, CopyInv, NoRowLost, OpensWhole, Missing, Gone, Empty, Filled, Blank, Artifacts, Steps
  <2>4. NoRowLost' /\ OpensWhole'
    BY <1>3 DEF Stage, StepInv, CopyInv, NoRowLost, OpensWhole
  <2>5. QED
    BY <2>1, <2>2, <2>3, <2>4
<1>4. CASE DropOld
  <2>1. TypeInv'
    BY <1>4 DEF DropOld, TypeInv, Tables, Copies, Missing, Gone, Empty, Filled, Steps
  <2>2. StepInv'
    BY <1>4 DEF DropOld, TypeInv, Tables, Copies, StepInv, CopyInv, NoRowLost, OpensWhole, Missing, Gone, Empty, Filled, Blank, Artifacts, Steps
  <2>3. CopyInv'
    BY <1>4 DEF DropOld, TypeInv, Tables, Copies, StepInv, CopyInv, NoRowLost, OpensWhole, Missing, Gone, Empty, Filled, Blank, Artifacts, Steps
  <2>4. NoRowLost' /\ OpensWhole'
    BY <1>4 DEF DropOld, StepInv, NoRowLost, OpensWhole
  <2>5. QED
    BY <2>1, <2>2, <2>3, <2>4
<1>5. CASE Create
  <2>1. TypeInv'
    BY <1>5 DEF Create, TypeInv, Tables, Copies, Missing, Gone, Empty, Filled, Steps
  <2>2. StepInv'
    BY <1>5 DEF Create, TypeInv, Tables, Copies, StepInv, CopyInv, NoRowLost, OpensWhole, Missing, Gone, Empty, Filled, Blank, Artifacts, Steps
  <2>3. CopyInv'
    BY <1>5 DEF Create, TypeInv, Tables, Copies, StepInv, CopyInv, NoRowLost, OpensWhole, Missing, Gone, Empty, Filled, Blank, Artifacts, Steps
  <2>4. NoRowLost' /\ OpensWhole'
    BY <1>5 DEF Create, StepInv, NoRowLost, OpensWhole
  <2>5. QED
    BY <2>1, <2>2, <2>3, <2>4
<1>6. CASE Unstage
  <2>1. TypeInv'
    <3>1. table' \in Tables /\ staging' \in Copies /\ bak' \in Copies
      BY <1>6, Shapes, Fields DEF Unstage, TypeInv
    <3>2. /\ ~table'.there => table'.rows = {}
          /\ ~staging'.there => staging'.rows = {}
          /\ ~bak'.there => bak'.rows = {}
      BY <1>6 DEF Unstage, TypeInv, Missing, Empty, Gone
    <3>3. /\ step' \in Steps /\ ok' \in BOOLEAN
          /\ kept' \subseteq Rows /\ astray' \in BOOLEAN
      BY <1>6 DEF Unstage, TypeInv, Steps
    <3>4. QED
      BY <3>1, <3>2, <3>3 DEF TypeInv
  <2>2. StepInv'
    BY <1>6 DEF Unstage, TypeInv, Tables, Copies, StepInv, CopyInv, NoRowLost, OpensWhole, Missing, Gone, Empty, Filled, Blank, Artifacts, Steps
  <2>3. CopyInv'
    BY <1>6 DEF Unstage, TypeInv, Tables, Copies, StepInv, CopyInv, NoRowLost, OpensWhole, Missing, Gone, Empty, Filled, Blank, Artifacts, Steps
  <2>4. NoRowLost' /\ OpensWhole'
    BY <1>6 DEF Unstage, StepInv, NoRowLost, OpensWhole
  <2>5. QED
    BY <2>1, <2>2, <2>3, <2>4
<1>7. CASE PromoteDrop
  <2>1. TypeInv'
    BY <1>7 DEF PromoteDrop, TypeInv, Tables, Copies, Missing, Gone, Empty, Filled, Steps
  <2>2. StepInv'
    BY <1>7 DEF PromoteDrop, TypeInv, Tables, Copies, StepInv, CopyInv, NoRowLost, OpensWhole, Missing, Gone, Empty, Filled, Blank, Artifacts, Steps
  <2>3. CopyInv'
    BY <1>7 DEF PromoteDrop, TypeInv, Tables, Copies, StepInv, CopyInv, NoRowLost, OpensWhole, Missing, Gone, Empty, Filled, Blank, Artifacts, Steps
  <2>4. NoRowLost' /\ OpensWhole'
    BY <1>7 DEF PromoteDrop, StepInv, NoRowLost, OpensWhole
  <2>5. QED
    BY <2>1, <2>2, <2>3, <2>4
<1>8. CASE PromoteCreate
  <2>1. TypeInv'
    BY <1>8 DEF PromoteCreate, TypeInv, Tables, Copies, Missing, Gone, Empty, Filled, Steps
  <2>2. StepInv'
    BY <1>8 DEF PromoteCreate, TypeInv, Tables, Copies, StepInv, CopyInv, NoRowLost, OpensWhole, Missing, Gone, Empty, Filled, Blank, Artifacts, Steps
  <2>3. CopyInv'
    BY <1>8 DEF PromoteCreate, TypeInv, Tables, Copies, StepInv, CopyInv, NoRowLost, OpensWhole, Missing, Gone, Empty, Filled, Blank, Artifacts, Steps
  <2>4. NoRowLost' /\ OpensWhole'
    BY <1>8 DEF PromoteCreate, StepInv, NoRowLost, OpensWhole, Missing
  <2>5. QED
    BY <2>1, <2>2, <2>3, <2>4
<1>9. CASE RestoreDrop
  <2>1. TypeInv'
    BY <1>9 DEF RestoreDrop, TypeInv, Tables, Copies, Missing, Gone, Empty, Filled, Steps
  <2>2. StepInv'
    BY <1>9 DEF RestoreDrop, TypeInv, Tables, Copies, StepInv, CopyInv, NoRowLost, OpensWhole, Missing, Gone, Empty, Filled, Blank, Artifacts, Steps
  <2>3. CopyInv'
    BY <1>9 DEF RestoreDrop, TypeInv, Tables, Copies, StepInv, CopyInv, NoRowLost, OpensWhole, Missing, Gone, Empty, Filled, Blank, Artifacts, Steps
  <2>4. NoRowLost' /\ OpensWhole'
    BY <1>9 DEF RestoreDrop, StepInv, NoRowLost, OpensWhole
  <2>5. QED
    BY <2>1, <2>2, <2>3, <2>4
<1>10. CASE RestoreCreate
  <2>1. TypeInv'
    BY <1>10 DEF RestoreCreate, TypeInv, Tables, Copies, Missing, Gone, Empty, Filled, Steps
  <2>2. StepInv'
    BY <1>10 DEF RestoreCreate, TypeInv, Tables, Copies, StepInv, CopyInv, NoRowLost, OpensWhole, Missing, Gone, Empty, Filled, Blank, Artifacts, Steps
  <2>3. CopyInv'
    BY <1>10 DEF RestoreCreate, TypeInv, Tables, Copies, StepInv, CopyInv, NoRowLost, OpensWhole, Missing, Gone, Empty, Filled, Blank, Artifacts, Steps
  <2>4. NoRowLost' /\ OpensWhole'
    BY <1>10 DEF RestoreCreate, TypeInv, Copies, StepInv, NoRowLost, OpensWhole, Missing, Filled
  <2>5. QED
    BY <2>1, <2>2, <2>3, <2>4
<1>11. CASE GiveUp
  <2>1. TypeInv'
    <3>1. table' \in Tables /\ staging' \in Copies /\ bak' \in Copies
      BY <1>11, Shapes, Fields DEF GiveUp, TypeInv
    <3>2. /\ ~table'.there => table'.rows = {}
          /\ ~staging'.there => staging'.rows = {}
          /\ ~bak'.there => bak'.rows = {}
      BY <1>11 DEF GiveUp, TypeInv, Missing, Empty, Gone
    <3>3. /\ step' \in Steps /\ ok' \in BOOLEAN
          /\ kept' \subseteq Rows /\ astray' \in BOOLEAN
      BY <1>11 DEF GiveUp, TypeInv, Steps
    <3>4. QED
      BY <3>1, <3>2, <3>3 DEF TypeInv
  <2>2. StepInv'
    BY <1>11 DEF GiveUp, TypeInv, Tables, Copies, StepInv, CopyInv, NoRowLost, OpensWhole, Missing, Gone, Empty, Filled, Blank, Artifacts, Steps
  <2>3. CopyInv'
    BY <1>11 DEF GiveUp, TypeInv, Tables, Copies, StepInv, CopyInv, NoRowLost, OpensWhole, Missing, Gone, Empty, Filled, Blank, Artifacts, Steps
  <2>4. NoRowLost' /\ OpensWhole'
    BY <1>11 DEF GiveUp, StepInv, NoRowLost, OpensWhole
  <2>5. QED
    BY <2>1, <2>2, <2>3, <2>4
<1>12. CASE Raises
  <2>1. TypeInv'
    <3>1. table' \in Tables /\ staging' \in Copies /\ bak' \in Copies
      BY <1>12, Shapes, Fields DEF Raises, HalfCreated, AfterRaise, Creating, TypeInv
    <3>2. /\ ~table'.there => table'.rows = {}
          /\ ~staging'.there => staging'.rows = {}
          /\ ~bak'.there => bak'.rows = {}
      BY <1>12 DEF Raises, HalfCreated, AfterRaise, Creating, TypeInv, Missing, Empty, Gone
    <3>3. /\ step' \in Steps /\ ok' \in BOOLEAN
          /\ kept' \subseteq Rows /\ astray' \in BOOLEAN
      BY <1>12 DEF Raises, HalfCreated, AfterRaise, Creating, TypeInv, Steps
    <3>4. QED
      BY <3>1, <3>2, <3>3 DEF TypeInv
  <2>2. StepInv'
    BY <1>12 DEF Raises, HalfCreated, AfterRaise, Creating, TypeInv, Tables, Copies, StepInv, CopyInv, NoRowLost, OpensWhole, Missing, Gone, Empty, Filled, Blank, Artifacts, Steps
  <2>3. CopyInv'
    BY <1>12 DEF Raises, HalfCreated, AfterRaise, Creating, TypeInv, Tables, Copies, StepInv, CopyInv, NoRowLost, OpensWhole, Missing, Gone, Empty, Filled, Blank, Artifacts, Steps
  <2>4. NoRowLost' /\ OpensWhole'
    BY <1>12 DEF Raises, HalfCreated, Creating, StepInv, CopyInv, NoRowLost, OpensWhole, Missing
  <2>5. QED
    BY <2>1, <2>2, <2>3, <2>4
<1>13. CASE Dies
  <2>1. TypeInv'
    <3>1. table' \in Tables /\ staging' \in Copies /\ bak' \in Copies
      BY <1>13, Shapes, Fields DEF Dies, HalfCreated, Creating, TypeInv
    <3>2. /\ ~table'.there => table'.rows = {}
          /\ ~staging'.there => staging'.rows = {}
          /\ ~bak'.there => bak'.rows = {}
      BY <1>13 DEF Dies, HalfCreated, Creating, TypeInv, Missing, Empty, Gone
    <3>3. /\ step' \in Steps /\ ok' \in BOOLEAN
          /\ kept' \subseteq Rows /\ astray' \in BOOLEAN
      BY <1>13 DEF Dies, HalfCreated, Creating, TypeInv, Steps
    <3>4. QED
      BY <3>1, <3>2, <3>3 DEF TypeInv
  <2>2. StepInv'
    BY <1>13 DEF Dies, HalfCreated, Creating, TypeInv, Tables, Copies, StepInv, CopyInv, NoRowLost, OpensWhole, Missing, Gone, Empty, Filled, Blank, Artifacts, Steps
  <2>3. CopyInv'
    BY <1>13 DEF Dies, HalfCreated, Creating, TypeInv, Tables, Copies, StepInv, CopyInv, NoRowLost, OpensWhole, Missing, Gone, Empty, Filled, Blank, Artifacts, Steps
  <2>4. NoRowLost' /\ OpensWhole'
    BY <1>13 DEF Dies, HalfCreated, Creating, StepInv, CopyInv, NoRowLost, OpensWhole, Missing
  <2>5. QED
    BY <2>1, <2>2, <2>3, <2>4
<1>14. ASSUME NEW r \in Rows, Put(r) PROVE Inv'
  <2>1. TypeInv'
    BY <1>14 DEF Put, TypeInv, Tables, Copies, Steps
  <2>2. StepInv' /\ CopyInv'
    BY <1>14 DEF Put, TypeInv, Tables, Copies, StepInv, CopyInv, Missing
  <2>3. NoRowLost' /\ OpensWhole'
    BY <1>14 DEF Put, TypeInv, NoRowLost, OpensWhole
  <2>4. QED
    BY <2>1, <2>2, <2>3
<1>15. QED
  BY <1>stay, <1>1, <1>2, <1>3, <1>4, <1>5, <1>6, <1>7, <1>8, <1>9, <1>10, <1>11, <1>12, <1>13, <1>14 DEF Next, OpenStep

\* For any rows, any corpus and any number of deaths and failing operations: no
\* acknowledged row is ever without a copy that an open finds, and a store that
\* opens with vectors has them all (_open_db, _migrate_vector_schema,
\* _recover_interrupted_migration).
THEOREM MigrationHolds == Spec => []MigrationIsSafe
<1>1. Inv => MigrationIsSafe
  BY DEF Inv, MigrationIsSafe, TypeOK, TypeInv, StepInv, Tables, Copies
<1>2. QED
  BY <1>1, InitInv, NextInv, PTL DEF Spec
=============================================================================
