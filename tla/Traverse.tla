------------------------------ MODULE Traverse ------------------------------
(***************************************************************************)
(* Directed traversal of memory (memory/traverse.py, the memory_traverse_* *)
(* tools) and the keep tray it feeds (memory/keep_tray.py).                *)
(*                                                                         *)
(* One session is active at a time; its keeps are provisional until        *)
(* finish, which merges them into the tray: the atoms the next meals keep. *)
(* The tray lives in memory, is loaded when first asked for and saved by   *)
(* finish.  The presence thread runs the tools and reads the tray for its  *)
(* meals; the glass reads the tray from HTTP threads,                      *)
(* and reading drops what is too old and loads what is not loaded.         *)
(***************************************************************************)
EXTENDS Integers, Sequences, FiniteSets, FiniteSetsExt

CONSTANTS
  Atoms,       \* 1, 2, ... in the order of the moment line
  Links,       \* atom -> atoms its structural edges lead to
  Similar,     \* atom -> atoms one semantic hop away
  MaxSeeds, DualN, MaxNodes, MaxDepth, MaxSteps, MaxKeep,   \* the budgets
  EntryCap,    \* directed_keep_entry_cap
  HardTtl,     \* directed_keep_hard_ttl_hours
  MaxTime, MaxFinishes, MaxFailures   \* bounds

VARIABLES
  session,   \* the active session
  tray,      \* _directed_keep_tray: atom -> last_reinforced_at, or NotLoaded
  file,      \* directed_keep_tray.json
  lastKeep,  \* _last_confirmed_keep
  reader,    \* an HTTP thread inside ensure_tray
  merging,   \* keeps that finish has not merged and saved yet
  confirmed, \* history: when each atom was confirmed last
  lapsed,    \* history: a load or a save failed
  raced,     \* history: a reader put back a tray that was no longer the latest
  now, finishes, failures   \* bounds

bounds == <<now, finishes, failures>>
trayVars == <<tray, file, lastKeep, reader, merging, confirmed, lapsed, raced>>
vars == <<session, trayVars, bounds>>

NotLoaded == [loaded |-> FALSE]
None == [active |-> FALSE]
Off == [at |-> "off"]
NoKeep == <<>>

-----------------------------------------------------------------------------
(* The walk                                                                *)

\* _add_considered: not twice, and not beyond the node budget.
AddConsidered(con, a, depth) ==
  IF a \in DOMAIN con \/ Cardinality(DOMAIN con) >= MaxNodes THEN con
  ELSE [b \in DOMAIN con \cup {a} |-> IF b = a THEN depth ELSE con[b]]

AddAll(con, S, depth) == FoldSet(LAMBDA a, c : AddConsidered(c, a, depth), con, S)

First(S, n) == {a \in S : Cardinality({b \in S : b < a}) < n}

\* start: explicit seeds, then semantic ones that leave DualN places, then
\* temporal anchors, which fill every place when nothing semantic was found.
Seeds(mode, explicit, hits) ==
  LET ex   == First(explicit, MaxSeeds)
      dual == IF mode = "auto" THEN DualN ELSE 0
      room == MaxSeeds - Cardinality(ex) - dual
      sem  == IF mode \in {"auto", "semantic_only"} /\ room > 0
              THEN First(hits \ ex, room) ELSE {}
      free == MaxSeeds - Cardinality(ex \cup sem)
      cap  == CASE mode = "temporal_only" -> free
                [] mode = "auto" -> IF sem = {} THEN free ELSE Min({DualN, free})
                [] OTHER -> 0
  IN  ex \cup sem \cup First(Atoms \ (ex \cup sem), cap)

NoNodes == [a \in {} |-> 0]

\* Start replaces an active session, whose keeps are discarded.
Start ==
  /\ merging = Off
  /\ \E mode \in {"auto", "semantic_only", "explicit_only", "temporal_only"} :
     \E explicit \in {{}, {Max(Atoms)}}, hits \in {{}, Similar[1]} :
       session' = [active |-> TRUE, steps |-> 0, keep |-> {},
                   con |-> AddAll(NoNodes, Seeds(mode, explicit, hits), 0)]
  /\ UNCHANGED <<trayVars, bounds>>

\* _merge_keeps: considered atoms only, up to the keep budget.
MergeKeeps(keep, ids, con) ==
  keep \cup First((ids \cap DOMAIN con) \ keep, MaxKeep - Cardinality(keep))

CanExpand(s) ==
  /\ s.steps < MaxSteps /\ Cardinality(DOMAIN s.con) < MaxNodes
  /\ \A a \in DOMAIN s.con : s.con[a] < MaxDepth

\* A step keeps and expands one node: its edges, then at most one semantic hop.
Step ==
  /\ session.active /\ merging = Off
  /\ \E a \in Atoms, ids \in {{}, {1}, DOMAIN session.con}, ann \in BOOLEAN :
       LET s    == [session EXCEPT !.keep = MergeKeeps(@, ids, session.con)]
           hop  == a \in DOMAIN s.con /\ s.con[a] + 1 <= MaxDepth
           d    == s.con[a] + 1
           con  == IF hop THEN AddAll(s.con, Links[a], d) ELSE s.con
       IN  session' = IF ~CanExpand(s) THEN s
                      ELSE [s EXCEPT !.steps = @ + 1,
                                     !.con = IF hop /\ ann THEN AddAll(con, Similar[a], d) ELSE con]
  /\ UNCHANGED <<trayVars, bounds>>

\* abandon, on_moment_close and sweep_idle: the session and its keeps go.
DropActive ==
  /\ session.active /\ merging = Off
  /\ session' = None
  /\ UNCHANGED <<trayVars, bounds>>

\* _keep_adjacent: the atoms next to a keep, as far as the keep budget goes.
Adjacent(keep) ==
  LET next == {a \in Atoms \ keep : \E k \in keep : a \in {k - 1, k + 1}}
  IN  keep \cup First(next, MaxKeep - Cardinality(keep))

-----------------------------------------------------------------------------
(* The tray                                                                *)

Fresh(t) == [a \in {b \in DOMAIN t : now - t[b] <= HardTtl} |-> t[a]]

\* lru_trim: the EntryCap entries that were reinforced last.
LruTrim(t) ==
  [a \in {b \in DOMAIN t :
            Cardinality({c \in DOMAIN t : t[c] > t[b] \/ (t[c] = t[b] /\ c > b)}) < EntryCap} |-> t[a]]

Reinforced(t, keep, at) ==
  [a \in DOMAIN t \cup keep |-> IF a \in keep THEN at ELSE t[a]]

MergeReplaces(t, keep) ==   \* mutant: the new keeps replace the old ones
  LruTrim(Fresh(Reinforced([a \in {} |-> now], keep, now)))

\* merge_confirm: union, hard TTL, then the cap.
MergeConfirm(t, keep) == LruTrim(Fresh(Reinforced(t, keep, now)))

\* ensure_tray on the presence thread: what is loaded, or what the file and the
\* last snapshot give; too old entries are dropped.
Loaded(f) == IF DOMAIN f = {} /\ lastKeep # NoKeep
             THEN LruTrim(Reinforced(f, lastKeep[1], lastKeep[2])) ELSE f
Tray == Fresh(IF tray = NotLoaded THEN Loaded(file) ELSE tray)

\* finish: the session is confirmed, its keeps are merged and saved.
Finish ==
  /\ session.active /\ merging = Off /\ finishes < MaxFinishes /\ finishes' = finishes + 1
  /\ \E replace \in BOOLEAN, ids \in SUBSET Atoms :
       LET kept == IF replace THEN MergeKeeps({}, ids, session.con) ELSE session.keep
           all  == Adjacent(kept)
       IN  /\ lastKeep' = <<all, now>>
           /\ merging' = [at |-> "merge", keep |-> all]
  /\ session' = None
  /\ UNCHANGED <<tray, file, reader, confirmed, lapsed, raced, now, failures>>

Merge ==
  /\ merging.at = "merge"
  /\ tray' = MergeConfirm(Tray, merging.keep)
  /\ confirmed' = [a \in Atoms |-> IF a \in merging.keep THEN now ELSE confirmed[a]]
  /\ merging' = [at |-> "save"]
  /\ UNCHANGED <<session, file, lastKeep, reader, lapsed, raced, bounds>>

\* save_directed_keep_tray: beside, then over the file.
Save ==
  /\ merging.at = "save" /\ merging' = Off
  /\ file' = IF tray = NotLoaded THEN file ELSE tray
  /\ UNCHANGED <<session, tray, lastKeep, reader, confirmed, lapsed, raced, bounds>>

SaveFails ==
  /\ merging.at = "save" /\ merging' = Off /\ failures < MaxFailures /\ failures' = failures + 1
  /\ lapsed' = TRUE
  /\ UNCHANGED <<session, tray, file, lastKeep, reader, confirmed, raced, now, finishes>>

\* A meal asks for the keeps.
MealKeepIds ==
  /\ merging = Off /\ tray' = Tray /\ tray' # tray
  /\ UNCHANGED <<session, file, lastKeep, reader, merging, confirmed, lapsed, raced, bounds>>

\* The file cannot be read: the tray is empty, and the next finish saves that.
LoadFails ==
  /\ merging = Off /\ tray = NotLoaded /\ DOMAIN file # {}
  /\ failures < MaxFailures /\ failures' = failures + 1
  /\ tray' = NoNodes /\ lapsed' = TRUE
  /\ UNCHANGED <<session, file, lastKeep, reader, merging, confirmed, raced, now, finishes>>

\* An HTTP thread reads the tray: what it found it puts back when it is done.
GlassReads ==
  /\ reader = Off
  /\ reader' = [at |-> "drop", found |-> Tray]
  /\ UNCHANGED <<session, tray, file, lastKeep, merging, confirmed, lapsed, raced, bounds>>

GlassAssigns ==
  /\ reader.at = "drop" /\ reader' = Off
  /\ tray' = reader.found
  /\ raced' = (raced \/ Fresh(reader.found) # Tray)
  /\ UNCHANGED <<session, file, lastKeep, merging, confirmed, lapsed, bounds>>

\* Runtime reset: the memory of the registry goes, the file stays.
Reset ==
  /\ merging = Off /\ session' = None /\ lastKeep' = NoKeep /\ tray' = NotLoaded
  /\ UNCHANGED <<file, reader, merging, confirmed, lapsed, raced, bounds>>

HourPasses ==
  /\ now < MaxTime /\ now' = now + 1
  /\ UNCHANGED <<session, trayVars, finishes, failures>>

Restart ==
  /\ session' = None /\ lastKeep' = NoKeep /\ tray' = NotLoaded /\ reader' = Off
  /\ lapsed' = (lapsed \/ merging.at = "save") /\ merging' = Off
  /\ UNCHANGED <<file, confirmed, raced, bounds>>

-----------------------------------------------------------------------------
Init ==
  /\ session = None /\ tray = NotLoaded /\ file = NoNodes /\ lastKeep = NoKeep
  /\ reader = Off /\ merging = Off /\ confirmed = [a \in Atoms |-> -1] /\ lapsed = FALSE /\ raced = FALSE
  /\ now = 0 /\ finishes = 0 /\ failures = 0

Next ==
  \/ Start \/ Step \/ DropActive \/ Finish \/ Merge \/ Save \/ SaveFails \/ MealKeepIds
  \/ LoadFails \/ GlassReads \/ GlassAssigns \/ Reset \/ HourPasses \/ Restart

Spec == Init /\ [][Next]_vars

-----------------------------------------------------------------------------
(* Properties                                                              *)

\* The session and the tray have the shape the actions give them.
TypeOK ==
  /\ session = None \/ (DOMAIN session.con \subseteq Atoms /\ session.keep \subseteq DOMAIN session.con)
  /\ tray = NotLoaded \/ DOMAIN tray \subseteq Atoms

\* Whatever is seeded, expanded and kept, no budget is exceeded.
BudgetsHold ==
  /\ session.active =>
       /\ Cardinality(DOMAIN session.con) <= MaxNodes /\ session.steps <= MaxSteps
       /\ Cardinality(session.keep) <= MaxKeep
       /\ \A a \in DOMAIN session.con : session.con[a] <= MaxDepth
  /\ tray = NotLoaded \/ Cardinality(DOMAIN tray) <= EntryCap

\* Every atom confirmed, not too old and not displaced by EntryCap later ones
\* is in the tray.
AllKept ==
  \A a \in Atoms :
    \/ confirmed[a] < 0 \/ now - confirmed[a] > HardTtl
    \/ Cardinality({b \in Atoms \ {a} : confirmed[b] >= confirmed[a]}) >= EntryCap
    \/ a \in DOMAIN Tray

\* KD-MRG: what a finish confirmed is kept for the meals, across moments,
\* resets and restarts, when no reader put an older tray back.
ConfirmedIsKept == lapsed \/ raced \/ merging # Off \/ AllKept

\* "Two confirms then meal ids see union without restart": also when the glass
\* reads the tray meanwhile.
ConfirmsUnite == lapsed \/ merging # Off \/ AllKept

\* A session stays within its budgets, and what a finish has confirmed stays in
\* the tray until it is too old or too many came after it.
KeepsHold == TypeOK /\ BudgetsHold /\ ConfirmedIsKept
=============================================================================
