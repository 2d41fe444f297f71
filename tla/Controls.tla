-------------------------------- MODULE Controls --------------------------------
(***************************************************************************)
(* The operator's runtime controls: continuous work, hop delay, semantic   *)
(* wait and meal budget (presence/worker.py, runtime/dev_speed.py,         *)
(* runtime/semantic_wait.py, runtime/meal_budget.py).  Each one lives in   *)
(* memory and in a json file of its own that is written in place: opened,  *)
(* which empties it, then written.  Three of them change memory first and  *)
(* save as well as they can; the meal budget saves first and refuses when  *)
(* it cannot.  All of it happens under the worker's lock, so calls do not  *)
(* overlap; a process may die in the middle of one, and a second           *)
(* `elyra start --max-meal-override` writes the budget's file by itself.   *)
(* A call that a running reset refuses changes nothing.                    *)
(***************************************************************************)
EXTENDS Naturals, FiniteSets, TLC

CONSTANTS Low, High,        \* range of the delay and of the wait
          MinShare, DefaultMax, HardMax, DefaultShare,   \* of the meal budget
          Asked,            \* numbers a caller may ask for, in range or not
          MaxCalls, MaxFaults, MaxRestarts, MaxOverrides

VARIABLES mem,        \* control -> value in memory
          file,       \* control -> value on disk, NoFile or Torn
          pc,         \* "idle", "open", "write", "down"
          req,        \* the call in progress: [c, v]
          used,       \* meal share of the running moment, 0 outside one
          shown,      \* history: what the status showed when it began
          unsaved,    \* history: controls whose last save failed or was cut
          stray,      \* history: another process wrote the budget's file
          calls, faults, restarts, overrides

vars == <<mem, file, pc, req, used, shown, unsaved, stray, calls, faults,
           restarts, overrides>>

Least(a, b) == IF a < b THEN a ELSE b
Greatest(a, b) == IF a > b THEN a ELSE b
ClampMs(n) == Least(Greatest(n, Low), High)
ClampDelay(n) == Least(Greatest(n, Low), High)
ClampMax(n) == Least(Greatest(n, MinShare), HardMax)
ClampFraction(n, max) == Least(Greatest(n, MinShare), ClampMax(max))

Names == {"continuous", "dev_speed", "semantic_wait", "meal_budget"}
NoFile == [on |-> FALSE, n |-> 0, max |-> 0]
Torn == [on |-> TRUE, n |-> 0, max |-> 0]
Absent(f) == f \in {NoFile, Torn}
Default(c) ==
  CASE c = "continuous" -> [on |-> FALSE, n |-> Low, max |-> High]
    [] c = "dev_speed" -> [on |-> TRUE, n |-> Low, max |-> High]
    [] c = "semantic_wait" -> [on |-> TRUE, n |-> Low, max |-> High]
    [] c = "meal_budget" -> [on |-> TRUE, n |-> DefaultShare, max |-> DefaultMax]
NoReq == [c |-> "none", v |-> NoFile]

(***************************************************************************)
(* load_*_runtime: the default when the file is absent or not json, every  *)
(* number brought into its range; the share into that of the saved ceiling.*)
(***************************************************************************)
LoadDevSpeed(f) == IF Absent(f) THEN Default("dev_speed")
                   ELSE [f EXCEPT !.n = ClampDelay(@)]
LoadSemanticWait(f) == IF Absent(f) THEN Default("semantic_wait")
                       ELSE [f EXCEPT !.n = ClampMs(@)]
LoadMealBudget(f) ==
  IF Absent(f) THEN Default("meal_budget")
  ELSE [f EXCEPT !.n = ClampFraction(@, f.max), !.max = ClampMax(@)]
Loaded(c, f) ==
  CASE c = "continuous" -> IF Absent(f) THEN Default(c) ELSE f
    [] c = "dev_speed" -> LoadDevSpeed(f)
    [] c = "semantic_wait" -> LoadSemanticWait(f)
    [] c = "meal_budget" -> LoadMealBudget(f)

Init ==
  /\ file = [c \in Names |-> NoFile]
  /\ mem = [c \in Names |-> Default(c)]
  /\ pc = "idle" /\ req = NoReq /\ used = 0 /\ shown = 0
  /\ unsaved = {} /\ stray = FALSE
  /\ calls = 0 /\ faults = 0 /\ restarts = 0 /\ overrides = 0

Fault == faults < MaxFaults /\ faults' = faults + 1
limits == <<restarts, overrides>>

Call(c, v) ==
  /\ pc = "idle" /\ calls < MaxCalls /\ calls' = calls + 1
  /\ pc' = "open" /\ req' = [c |-> c, v |-> v]
  /\ UNCHANGED <<file, used, shown, unsaved, stray, faults, limits>>

SetContinuous(on) ==
  LET v == [mem["continuous"] EXCEPT !.on = on]
  IN /\ Call("continuous", v) /\ mem' = [mem EXCEPT !["continuous"] = v]

SetDevSpeed(on, n) ==
  LET v == [mem["dev_speed"] EXCEPT !.on = on, !.n = ClampDelay(n)]
  IN /\ Call("dev_speed", v) /\ mem' = [mem EXCEPT !["dev_speed"] = v]

SetSemanticWait(on, n) ==
  LET v == [mem["semantic_wait"] EXCEPT !.on = on, !.n = ClampMs(n)]
  IN /\ Call("semantic_wait", v) /\ mem' = [mem EXCEPT !["semantic_wait"] = v]

(* The budget: nothing to do when the share is the same; memory waits for  *)
(* the save.                                                               *)
\* MUTANT of SetMealBudget
SetMealBudgetEager(n) ==
  LET b == mem["meal_budget"]
      v == [b EXCEPT !.n = ClampFraction(n, b.max)]
  IN /\ v # b /\ Call("meal_budget", v) /\ mem' = [mem EXCEPT !["meal_budget"] = v]

SetMealBudget(n) ==
  LET b == mem["meal_budget"]
      v == [b EXCEPT !.n = ClampFraction(n, b.max)]
  IN /\ v # b /\ Call("meal_budget", v) /\ UNCHANGED mem

(* The file is opened and thereby emptied, or cannot be. *)
Open ==
  /\ pc = "open"
  /\ \/ file' = [file EXCEPT ![req.c] = Torn] /\ pc' = "write"
        /\ UNCHANGED <<req, unsaved, faults>>
     \/ /\ Fault /\ pc' = "idle" /\ req' = NoReq /\ UNCHANGED file
        /\ unsaved' = IF req.c = "meal_budget" THEN unsaved ELSE unsaved \cup {req.c}
  /\ UNCHANGED <<mem, used, shown, stray, calls, limits>>

(* The bytes are written: the budget takes effect now.  A disk that is     *)
(* full leaves the emptied file behind.                                    *)
Write ==
  /\ pc = "write" /\ pc' = "idle" /\ req' = NoReq
  /\ \/ /\ file' = [file EXCEPT ![req.c] = req.v]
        /\ mem' = IF req.c = "meal_budget" THEN [mem EXCEPT ![req.c] = req.v] ELSE mem
        /\ unsaved' = unsaved \ {req.c}
        /\ stray' = (stray /\ req.c # "meal_budget")
        /\ UNCHANGED faults
     \/ /\ Fault /\ unsaved' = unsaved \cup {req.c}
        /\ UNCHANGED <<file, mem, stray>>
  /\ UNCHANGED <<used, shown, calls, limits>>

(***************************************************************************)
(* A moment takes the share from memory, but builds a state of its own     *)
(* from it whose ceiling is the default one.                               *)
(***************************************************************************)
StatusShare == ClampFraction(mem["meal_budget"].n, mem["meal_budget"].max)
Begin ==
  /\ pc = "idle" /\ used = 0
  /\ used' = ClampFraction(mem["meal_budget"].n, DefaultMax)
  /\ shown' = StatusShare
  /\ UNCHANGED <<mem, file, pc, req, unsaved, stray, calls, faults, limits>>
End ==
  /\ pc = "idle" /\ used # 0 /\ used' = 0 /\ shown' = 0
  /\ UNCHANGED <<mem, file, pc, req, unsaved, stray, calls, faults, limits>>

(***************************************************************************)
(* The process ends, perhaps in the middle of a save; the next one loads.  *)
(***************************************************************************)
Die ==
  /\ pc # "down" /\ restarts < MaxRestarts /\ restarts' = restarts + 1
  /\ pc' = "down" /\ req' = NoReq /\ used' = 0 /\ shown' = 0
  /\ unsaved' = IF pc = "write" THEN unsaved \cup {req.c} ELSE unsaved
  /\ UNCHANGED <<mem, file, stray, calls, faults, overrides>>

Start ==
  /\ pc = "down" /\ pc' = "idle"
  /\ mem' = [c \in Names |-> Loaded(c, file[c])]
  /\ unsaved' = {} /\ stray' = FALSE
  /\ UNCHANGED <<file, req, used, shown, calls, faults, limits>>

(* `elyra start --max-meal-override`: the ceiling, and the share under it, *)
(* before the settings are read, whether or not a daemon is running.       *)
Override(max) ==
  /\ pc \in {"idle", "down"} /\ overrides < MaxOverrides /\ overrides' = overrides + 1
  /\ LET f == LoadMealBudget(file["meal_budget"])
     IN file' = [file EXCEPT !["meal_budget"] =
                   [f EXCEPT !.max = ClampMax(max), !.n = ClampFraction(@, max)]]
  /\ stray' = TRUE
  /\ UNCHANGED <<mem, pc, req, used, shown, unsaved, calls, faults, restarts>>

Next ==
  \/ \E on \in BOOLEAN : SetContinuous(on)
  \/ \E on \in BOOLEAN, n \in Asked : SetDevSpeed(on, n) \/ SetSemanticWait(on, n)
  \/ \E n \in Asked : SetMealBudget(n) \/ Override(n)
  \/ Open \/ Write \/ Begin \/ End \/ Die \/ Start

Spec == Init /\ [][Next]_vars
----------------------------------------------------------------------------
(* Types of the controls. *)
TypeOK ==
  /\ DOMAIN mem = Names /\ DOMAIN file = Names
  /\ \A c \in Names : mem[c].on \in BOOLEAN /\ mem[c].n \in Nat /\ mem[c].max \in Nat
  /\ pc \in {"idle", "open", "write", "down"} /\ unsaved \subseteq Names

(***************************************************************************)
(* A restart changes nothing: whenever no call is running, what the next   *)
(* process would load is what is in memory now, for every control whose    *)
(* last save went through; nobody but the operator's override differs.     *)
(***************************************************************************)
RestartRestores ==
  pc = "idle" =>
    \A c \in Names : \/ Loaded(c, file[c]) = mem[c]
                     \/ c \in unsaved
                     \/ c = "meal_budget" /\ stray

(***************************************************************************)
(* Whatever was asked for, typed into a file or capped by an override, the *)
(* delay, the wait and the share are inside their ranges, the share also   *)
(* below its own ceiling.                                                  *)
(***************************************************************************)
InRange ==
  /\ mem["dev_speed"].n \in Low..High /\ mem["semantic_wait"].n \in Low..High
  /\ LET b == mem["meal_budget"]
     IN b.n \in MinShare..b.max /\ b.max \in MinShare..HardMax

(***************************************************************************)
(* A moment is fed with the share the status showed when it began, unless  *)
(* that share lies above the default ceiling (only an override allows it). *)
(***************************************************************************)
FedAsShown == used # 0 => used = shown \/ shown > DefaultMax

\* A control that was set is there after a restart, in its range, and the meals are
\* fed what the status shows.
ControlsHold == TypeOK /\ RestartRestores /\ InRange /\ FedAsShown
==================================================================================
