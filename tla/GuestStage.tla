------------------------------ MODULE GuestStage ------------------------------
(***************************************************************************)
(* The staged copy of a tool package that the guest runs from (the staging *)
(* half of elyra/tools/guest_exec.py): sandboxes/sandbox0/tools/<name>/    *)
(* with its marker .elyra_stage.json, refreshed only when the marker does  *)
(* not vouch for the source's hash.                                        *)
(*                                                                         *)
(* One presence worker stages and runs.  A file's content is a version;    *)
(* the package always has its runner's module "main" and may have others.  *)
(* The staged tree is mounted read-write, so a guest command may alter it; *)
(* the guest may fail to see a file the host has written; the process may  *)
(* die between any two file operations.  No caller strips the verify       *)
(* record, so that option is left out.                                     *)
(***************************************************************************)
EXTENDS Integers, FiniteSets

CONSTANTS Files, MaxVer, MaxCalls, MaxFaults, MaxDeaths, MaxUnseen

VARIABLES
    source,   \* package_dir: file -> version, 0 when there is none
    dest,     \* the staged directory: file -> version, 0 for none, -1 for a torn or temporary one
    exists,   \* the staged directory is there
    mark,     \* its marker: the source it was written for, NoMark or TornMark
    copy,     \* tools/.stage/<name>.<token>, the first copy being made
    pc,       \* where the dispatch is
    hash,     \* content_hash(package_dir), taken once per stage
    left,     \* files still to copy
    forced,   \* stage_retried
    runs,     \* guest commands of this dispatch
    touched,  \* history: the guest altered the tree since it was staged
    ver, calls, faults, deaths, unseen

vars == <<source, dest, exists, mark, copy, pc, hash, left, forced, runs, touched, ver, calls, faults, deaths, unseen>>
count == <<ver, calls, faults, deaths, unseen>>

None == [f \in Files |-> 0]
NoMark == [f \in Files |-> -2]
TornMark == [f \in Files |-> -3]
Payload(tree) == {f \in Files : tree[f] # 0}

Init ==
    /\ source = [None EXCEPT !["main"] = 1] /\ ver = 1
    /\ dest = None /\ exists = FALSE /\ mark = NoMark /\ copy = None
    /\ pc = "idle" /\ hash = None /\ left = {} /\ forced = FALSE /\ runs = 0
    /\ touched = FALSE
    /\ calls = 0 /\ faults = 0 /\ deaths = 0 /\ unseen = 0

Fault == faults < MaxFaults /\ faults' = faults + 1

\* A tool was promoted: the package has new content, perhaps other files.
Promote ==
    /\ pc = "idle" /\ ver < MaxVer
    /\ ver' = ver + 1
    /\ \E fs \in SUBSET Files :
         "main" \in fs /\ source' = [f \in Files |-> IF f \in fs THEN ver + 1 ELSE 0]
    /\ UNCHANGED <<dest, exists, mark, copy, pc, hash, left, forced, runs, touched, calls, faults, deaths, unseen>>

(***************************************************************************)
(* stage_package_for_guest.                                                *)
(***************************************************************************)
\* resolve_module_file in the staged tree
HasModule == dest["main"] # 0

\* the guest's failure names the module as the missing path
ModuleMissing == HasModule => unseen < MaxUnseen

\* _stage_marker_allows_skip and host_stage_looks_complete
Skips == exists /\ mark = source /\ HasModule

\* The gate: always the source is hashed, and a staged tree that the marker
\* vouches for is used as it is.
Begin(force) ==
    /\ hash' = source /\ left' = Payload(source)
    /\ pc' = IF ~force /\ Skips THEN "exec" ELSE IF exists THEN "unmark" ELSE "first"

\* guest_dispatch
Dispatch ==
    /\ pc = "idle" /\ calls < MaxCalls
    /\ calls' = calls + 1 /\ forced' = FALSE /\ runs' = 0
    /\ Begin(FALSE)
    /\ UNCHANGED <<source, dest, exists, mark, copy, touched, ver, faults, deaths, unseen>>

\* _unlink_stage_marker: nothing is changed while the marker still claims
UnmarkLater == \* MUTANT
    /\ pc = "unmark"
    /\ pc' = "refresh" /\ UNCHANGED <<mark, faults>>
    /\ UNCHANGED <<source, dest, exists, copy, hash, left, forced, runs, touched, ver, calls, deaths, unseen>>
Unmark ==
    /\ pc = "unmark"
    /\ \/ mark' = NoMark /\ pc' = "refresh" /\ UNCHANGED faults
       \/ Fault /\ pc' = "idle" /\ UNCHANGED mark
    /\ UNCHANGED <<source, dest, exists, copy, hash, left, forced, runs, touched, ver, calls, deaths, unseen>>

\* _in_place_refresh: one file, to a temporary name and then over the old one
Refresh ==
    /\ pc = "refresh"
    /\ \E f \in left :
         /\ left' = left \ {f}
         /\ \/ dest' = [dest EXCEPT ![f] = source[f]] /\ UNCHANGED <<pc, faults>>
            \/ Fault /\ pc' = "idle" /\ UNCHANGED dest
    /\ UNCHANGED <<source, exists, mark, copy, hash, forced, runs, touched, ver, calls, deaths, unseen>>

\* _prune_stale_stage_payload: what the source does not have goes
Prune ==
    /\ pc = "refresh" /\ left = {}
    /\ dest' = [f \in Files |-> IF f \in Payload(source) THEN dest[f] ELSE 0]
    /\ pc' = "mark"
    /\ UNCHANGED <<source, exists, mark, copy, hash, left, forced, runs, touched, count>>

\* The first stage: _safe_copytree_into a directory aside ...
FirstCopy ==
    /\ pc = "first"
    /\ \E f \in left :
         /\ left' = left \ {f}
         /\ \/ copy' = [copy EXCEPT ![f] = source[f]] /\ UNCHANGED <<pc, faults>>
            \/ Fault /\ pc' = "idle" /\ copy' = None
    /\ UNCHANGED <<source, dest, exists, mark, hash, forced, runs, touched, ver, calls, deaths, unseen>>

\* ... and the rename into place.
FirstRename ==
    /\ pc = "first" /\ left = {}
    /\ dest' = copy /\ copy' = None /\ exists' = TRUE /\ pc' = "mark"
    /\ UNCHANGED <<source, mark, hash, left, forced, runs, touched, count>>

\* write_complete_stage_marker
WriteMarker ==
    /\ pc = "mark"
    /\ mark' = hash /\ touched' = FALSE /\ pc' = "exec"
    /\ UNCHANGED <<source, dest, exists, copy, hash, left, forced, runs, count>>

(***************************************************************************)
(* The guest command, and _exec_with_path_missing_recovery.                *)
(***************************************************************************)
\* The command ran, or failed on its own; while it runs it may alter the tree.
Exec ==
    /\ pc = "exec" /\ HasModule
    /\ runs' = runs + 1 /\ pc' = "idle"
    /\ dest' \in {dest} \cup {[dest EXCEPT ![f] = v] : f \in Files, v \in {0, -1}}
    /\ touched' = (touched \/ dest' # dest)
    /\ UNCHANGED <<source, exists, mark, copy, hash, left, forced, count>>

\* The guest did not see the module: one forced stage, then guest_module_missing.
PathMissing ==
    /\ pc = "exec"
    /\ ModuleMissing
    /\ unseen' = IF HasModule THEN unseen + 1 ELSE unseen
    /\ runs' = runs + 1
    /\ IF forced THEN pc' = "idle" /\ UNCHANGED <<forced, hash, left>>
       ELSE forced' = TRUE /\ Begin(TRUE)
    /\ UNCHANGED <<source, dest, exists, mark, copy, touched, ver, calls, faults, deaths>>

\* The process dies; the marker may be torn, and a copy aside is never used again.
Die ==
    /\ pc # "idle" /\ deaths < MaxDeaths
    /\ deaths' = deaths + 1 /\ pc' = "idle"
    /\ mark' \in {mark} \cup (IF pc = "mark" THEN {TornMark} ELSE {})
    /\ copy' = None
    /\ UNCHANGED <<source, dest, exists, hash, left, forced, runs, touched, ver, calls, faults, unseen>>

Next ==
    \/ Promote \/ Dispatch \/ Unmark \/ Refresh \/ Prune \/ FirstCopy \/ FirstRename \/ WriteMarker
    \/ Exec \/ PathMissing \/ Die

Spec == Init /\ [][Next]_vars

--------------------------------------------------------------------------------
TypeOK ==
    /\ source \in [Files -> 0..MaxVer] /\ dest \in [Files -> -1..MaxVer] /\ copy \in [Files -> 0..MaxVer]
    /\ pc \in {"idle", "unmark", "refresh", "first", "mark", "exec"}
    /\ left \subseteq Files /\ runs \in 0..2

\* A marker never vouches for a tree that is not, file for file, the package it
\* was written for, whatever died or failed on the way and whichever files came
\* and went (KD-G2), the guest's own writes aside.
MarkIsTrue == mark \notin {NoMark, TornMark} /\ ~touched => exists /\ dest = mark

\* The guest runs the package as it is now, and finds its module even after the
\* guest itself has removed it.
RunsCurrent == pc = "exec" => /\ HasModule
                              /\ touched \/ dest = source

\* One call runs the guest command at most twice (KD-G3).
TwoRunsAtMost == runs <= 2

\* A marker vouches only for a tree that was copied whole, a run takes the current
\* package, and no call runs the guest more than twice.
StagedIsCurrent == TypeOK /\ MarkIsTrue /\ RunsCurrent /\ TwoRunsAtMost
================================================================================
