------------------------------ MODULE AtomStore ------------------------------
(***************************************************************************)
(* One put, link update, delete or compaction at a time over the durable   *)
(* atom stores: atoms.jsonl of memory/jsonl_store.py (a log, latest line   *)
(* wins) and the Lance table of memory/lance_store.py, both with spilled   *)
(* bodies in blob files and an index of summary tips in memory.            *)
(*                                                                         *)
(* The store's lock makes an operation atomic for the other threads; a     *)
(* death of the process, or a write that raises, cuts it between its       *)
(* steps.  Every atom here is a summary of one and the same window.        *)
(***************************************************************************)
EXTENDS Integers, Sequences, SequencesExt

CONSTANTS
  Ids,         \* atom ids
  Versions,    \* meta.version of the summaries
  DirtyMax,    \* jsonl_compact_dirty
  MaxWrites,   \* bound on operations
  MaxCuts      \* bound on process deaths and failing writes

ASSUME AtomStoreOK ==
  /\ Ids \subseteq Int \ {0} /\ IsFiniteSet(Ids)
  /\ Versions \subseteq Int
  /\ DirtyMax \in Nat /\ MaxWrites \in Nat /\ MaxCuts \in Nat

Large == {"long", "longer"}       \* bodies over inline_max_chars
Texts == {"short"} \cup Large

VARIABLES
  backend,  \* "jsonl" or "lance"
  rows,     \* atoms.jsonl: lines in order; the Lance table: one row per atom
  blob,     \* blob file of each atom: its text, "" for none, "part" when torn
  atoms,    \* _by_id
  tip,      \* _ladder for the window: an atom id, 0 for none
  op,       \* the operation that holds the lock
  stored,   \* history: each atom as the last completed operation left it
  cut,      \* history: atoms one of whose operations was cut short
  vacated,  \* history: the tip was deleted, or replaced by a lower version
  writes, cuts   \* bounds

vars == <<backend, rows, blob, atoms, tip, op, stored, cut, vacated, writes, cuts>>

NoAtom == [text |-> "", ref |-> "none", ver |-> 0]
NoOp   == [kind |-> "none", at |-> "done", id |-> 0, atom |-> NoAtom]

Live == {i \in Ids : atoms[i] # NoAtom}

-----------------------------------------------------------------------------
(* What a reload makes of the files                                        *)

\* _row_for_disk: the body of a spilled atom is not in its row.
RowForDisk(i, a) == [id |-> i, atom |-> IF a.ref = "blob" THEN [a EXCEPT !.text = ""] ELSE a]

\* _hydrate_content: a missing blob leaves the row's empty text.
Hydrate(i, a) == IF a.ref = "blob" /\ blob[i] # "" THEN [a EXCEPT !.text = blob[i]] ELSE a

\* _load, latest wins: torn lines (id 0) are skipped, a tombstone is NoAtom.
RowsOf(i) == {n \in DOMAIN rows : rows[n].id = i}

Loaded(i) ==
  IF RowsOf(i) = {} THEN NoAtom ELSE Hydrate(i, rows[Max(RowsOf(i))].atom)

\* _rebuild_secondary_indexes: the highest version; ties are broken by id.
Newest(as) ==
  LET live == {i \in Ids : as[i] # NoAtom}
  IN  IF live = {} THEN 0
      ELSE CHOOSE i \in live : \A j \in live \ {i} :
             as[i].ver > as[j].ver \/ (as[i].ver = as[j].ver /\ i > j)

\* _index_put: the tip moves if vacant, for the same atom, or to a higher version.
TipAfterPut(i, a) ==
  IF tip \in {0, i} \/ a.ver > atoms[tip].ver \/ (a.ver = atoms[tip].ver /\ i > tip)
  THEN i ELSE tip

-----------------------------------------------------------------------------
(* put_atom, update_links, delete_atom: begin, write, index                *)

Idle == op = NoOp

\* put_atom up to _prepare_for_put: the locator follows from the length of the
\* body; an atom read from the store carries the locator it had.
PutBegin(i, text, ver) ==
  /\ Idle /\ writes < MaxWrites
  /\ op' = [kind |-> "put", at |-> "blob", id |-> i,
            atom |-> [text |-> text, ref |-> IF text \in Large THEN "blob" ELSE "inline",
                      ver |-> ver]]
  /\ writes' = writes + 1
  /\ UNCHANGED <<backend, rows, blob, atoms, tip, stored, cut, vacated, cuts>>

\* The blob is written before the row, and unlinked before it when the body
\* has shrunk and the caller kept the old locator.
SpillBlob ==
  /\ op.at = "blob"
  /\ \/ op.atom.ref = "blob" /\ blob' = [blob EXCEPT ![op.id] = op.atom.text]
     \/ /\ op.atom.ref = "inline"
        /\ \/ UNCHANGED blob
           \/ atoms[op.id].ref = "blob" /\ blob' = [blob EXCEPT ![op.id] = ""]
  /\ op' = [op EXCEPT !.at = "row"]
  /\ UNCHANGED <<backend, rows, atoms, tip, stored, cut, vacated, writes, cuts>>

\* update_links writes the row it has in memory; the body is left alone.
UpdateLinks(i) ==
  /\ Idle /\ writes < MaxWrites /\ i \in Live
  /\ op' = [kind |-> "links", at |-> "row", id |-> i, atom |-> atoms[i]]
  /\ writes' = writes + 1
  /\ UNCHANGED <<backend, rows, blob, atoms, tip, stored, cut, vacated, cuts>>

\* delete_atom: out of the indexes, blob unlinked, then the tombstone.
DeleteBegin(i) ==
  /\ Idle /\ writes < MaxWrites /\ i \in Live
  /\ atoms' = [atoms EXCEPT ![i] = NoAtom]
  /\ tip' = IF tip = i THEN 0 ELSE tip
  /\ vacated' = (vacated \/ tip = i)
  /\ blob' = IF atoms[i].ref = "blob" THEN [blob EXCEPT ![i] = ""] ELSE blob
  /\ op' = [kind |-> "delete", at |-> "row", id |-> i, atom |-> NoAtom]
  /\ writes' = writes + 1
  /\ UNCHANGED <<backend, rows, stored, cut, cuts>>

AppendRowGlued ==   \* mutant: a torn last line is not ended before the append
  /\ op.at = "row" /\ backend = "jsonl"
  /\ rows' = IF rows # <<>> /\ rows[Len(rows)].id = 0 THEN rows
             ELSE Append(rows, RowForDisk(op.id, op.atom))
  /\ op' = [op EXCEPT !.at = "index"]
  /\ UNCHANGED <<backend, blob, atoms, tip, stored, cut, vacated, writes, cuts>>

\* _append_row, after _ensure_trailing_newline has ended a torn last line.
AppendRow ==
  /\ op.at = "row" /\ backend = "jsonl"
  /\ rows' = Append(rows, RowForDisk(op.id, op.atom))
  /\ op' = [op EXCEPT !.at = "index"]
  /\ UNCHANGED <<backend, blob, atoms, tip, stored, cut, vacated, writes, cuts>>

\* merge_insert, or the delete of the row: one commit of the Lance table, which
\* has at most one row of an atom.
UpsertRow ==
  /\ op.at = "row" /\ backend = "lance"
  /\ LET mine == RowsOf(op.id)
         row  == RowForDisk(op.id, op.atom)
     IN  rows' = IF op.kind = "delete" THEN RemoveAt(rows, Max(mine \cup {0}))
                 ELSE IF mine = {} THEN Append(rows, row)
                 ELSE [rows EXCEPT ![Max(mine)] = row]
  /\ op' = [op EXCEPT !.at = "index"]
  /\ UNCHANGED <<backend, blob, atoms, tip, stored, cut, vacated, writes, cuts>>

\* _index_put, and the operation returns.
IndexPut ==
  /\ op.at = "index"
  /\ IF op.kind = "delete" THEN UNCHANGED <<atoms, tip, vacated>>
     ELSE /\ atoms' = [atoms EXCEPT ![op.id] = op.atom]
          /\ tip' = TipAfterPut(op.id, op.atom)
          /\ vacated' = (vacated \/ (tip = op.id /\ op.atom.ver < atoms[tip].ver))
  /\ stored' = [stored EXCEPT ![op.id] = op.atom]
  /\ cut' = IF op.kind = "links" THEN cut ELSE cut \ {op.id}
  /\ op' = NoOp
  /\ UNCHANGED <<backend, rows, blob, writes, cuts>>

-----------------------------------------------------------------------------
(* compact                                                                 *)

\* One latest line per atom, in the order of their ids, to a temporary file that
\* then replaces the log.
Compact ==
  /\ Idle /\ backend = "jsonl" /\ Len(rows) - Cardinality(Live) >= DirtyMax
  /\ \E order \in [1 .. Cardinality(Live) -> Live] :
       /\ \A m, n \in DOMAIN order : m < n => order[m] < order[n]
       /\ Live = {order[n] : n \in DOMAIN order}
       /\ rows' = [n \in DOMAIN order |-> RowForDisk(order[n], atoms[order[n]])]
  /\ UNCHANGED <<backend, blob, atoms, tip, op, stored, cut, vacated, writes, cuts>>

-----------------------------------------------------------------------------
(* Faults                                                                  *)

\* A write raises: the caller sees the error, the steps before it stay done.
WriteFails ==
  /\ op.at \in {"blob", "row"} /\ cuts < MaxCuts /\ cuts' = cuts + 1
  /\ cut' = cut \cup {op.id}
  /\ op' = NoOp
  /\ \/ UNCHANGED blob
     \/ /\ op.at = "blob" /\ op.atom.ref = "blob"
        /\ blob' = [blob EXCEPT ![op.id] = "part"]
  /\ UNCHANGED <<backend, rows, atoms, tip, stored, vacated, writes>>

\* The process dies, an append in progress leaving a torn line behind ...
Dies ==
  /\ op.at # "down" /\ cuts < MaxCuts /\ cuts' = cuts + 1
  /\ cut' = IF Idle THEN cut ELSE cut \cup {op.id}
  /\ \/ UNCHANGED <<rows, blob>>
     \/ /\ op.at = "blob" /\ op.atom.ref = "blob"
        /\ blob' = [blob EXCEPT ![op.id] = "part"] /\ UNCHANGED rows
     \/ /\ op.at = "row" /\ backend = "jsonl"
        /\ rows' = Append(rows, [id |-> 0, atom |-> NoAtom]) /\ UNCHANGED blob
  /\ op' = [NoOp EXCEPT !.at = "down"]
  /\ UNCHANGED <<backend, atoms, tip, stored, vacated, writes>>

\* ... and the next process loads what is there.
Load ==
  /\ op.at = "down"
  /\ atoms' = [i \in Ids |-> Loaded(i)]
  /\ tip' = Newest(atoms')
  /\ vacated' = FALSE
  /\ op' = NoOp
  /\ UNCHANGED <<backend, rows, blob, stored, cut, writes, cuts>>

-----------------------------------------------------------------------------
Init ==
  /\ backend \in {"jsonl", "lance"}
  /\ rows = <<>> /\ blob = [i \in Ids |-> ""]
  /\ atoms = [i \in Ids |-> NoAtom] /\ stored = atoms
  /\ tip = 0 /\ op = NoOp /\ cut = {} /\ vacated = FALSE /\ writes = 0 /\ cuts = 0

Next ==
  \/ \E i \in Ids, text \in Texts, ver \in Versions : PutBegin(i, text, ver)
  \/ \E i \in Ids : UpdateLinks(i) \/ DeleteBegin(i)
  \/ SpillBlob \/ AppendRow \/ UpsertRow \/ IndexPut \/ Compact
  \/ WriteFails \/ Dies \/ Load

Spec == Init /\ [][Next]_vars

-----------------------------------------------------------------------------
(* Properties                                                              *)

\* The state is well formed; the tip is an atom that is there.
TypeOK ==
  /\ \A i \in Ids : blob[i] \in Texts \cup {"", "part"} /\ atoms[i].ver \in Versions \cup {0}
  /\ tip \in Live \cup {0}
  /\ op.at \in {"done", "blob", "row", "index", "down"}

\* What the next process will load is what the completed operations stored,
\* text included: torn lines, compactions and deaths lose no atom, resurrect
\* none and mix no texts, except of an atom whose own put or delete was cut.
SurvivesDeath ==
  \A i \in Ids \ (cut \cup {op.id}) : Loaded(i) = stored[i]

\* Reads are served from memory: it has what the files have.
MemoryMatchesFiles ==
  Idle => \A i \in Ids \ cut : atoms[i] = Loaded(i)

\* KD-TIP: the tip is the highest version, in this process and in the next,
\* unless it was deleted (no older version takes over before a reload) or was
\* replaced in place by a lower version.
TipIsNewest ==
  Idle /\ ~vacated => tip = Newest(atoms)

\* What a finished put, link update, delete or compaction did is there after any
\* death, the maps in memory are those a reload would build, and the tip of a
\* window is its newest summary.
AtomsDurable == TypeOK /\ SurvivesDeath /\ MemoryMatchesFiles /\ TipIsNewest
=============================================================================
