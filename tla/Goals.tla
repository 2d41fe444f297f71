---------------------------------- MODULE Goals ----------------------------------
(***************************************************************************)
(* The goals ledger (goals/store.py), the tools that change it in a moment *)
(* (tools/builtin/ledger.py), the panel that adds goals through the worker *)
(* (presence/worker.py), the two ways in which a task that becomes ready   *)
(* is announced on the wake queue, and the full reset.                     *)
(*                                                                         *)
(* Every change is load, change, save of one file under the lock of the    *)
(* store.  The panel holds the worker's lock around it; the tools take the *)
(* worker's lock afterwards, to announce.  A file that cannot be read      *)
(* counts as empty, and the next save makes that true.                     *)
(***************************************************************************)
EXTENDS Naturals

CONSTANTS GoalIds, TaskIds, MaxOps, MaxFaults, MaxDeaths, MaxResets

VARIABLES ledger,     \* the file: [goals: id -> status, tasks: id -> [goal, status]]
          wakes,      \* tasks with a pending task_ready wake
          busy,       \* the worker is in a moment
          pc, op,     \* step and request of "tool" and "panel"
          doc,        \* what each of them has loaded
          storeLock, workLock,    \* holders; "none" is free
          resetting,  \* "no", "first", "second"
          made,       \* history: goals acknowledged and not reset since
          heard,      \* history: ready tasks announced since they became ready
          told,       \* history: tasks whose tool result carried the warning
          cut,        \* history: tasks saved as ready by a process that died
          wiped,      \* history: a failed load was taken for an empty ledger
          ops, faults, deaths, resets

vars == <<ledger, wakes, busy, pc, op, doc, storeLock, workLock, resetting,
           made, heard, told, cut, wiped, ops, faults, deaths, resets>>

Goal_Statuses == {"open", "review", "closed", "cancelled"}
Task_Statuses == {"pending", "ready", "in_progress"}
Empty == [goals |-> <<>>, tasks |-> <<>>]
NoOp == [kind |-> "none"]
Threads == {"tool", "panel"}

Init ==
  /\ ledger = Empty /\ wakes = {} /\ busy = FALSE
  /\ pc = [p \in Threads |-> "idle"] /\ op = [p \in Threads |-> NoOp]
  /\ doc = [p \in Threads |-> Empty]
  /\ storeLock = "none" /\ workLock = "none" /\ resetting = "no"
  /\ made = {} /\ heard = {} /\ told = {} /\ cut = {} /\ wiped = FALSE
  /\ ops = 0 /\ faults = 0 /\ deaths = 0 /\ resets = 0

Fault == faults < MaxFaults /\ faults' = faults + 1
history == <<made, heard, told, cut, wiped>>
limits == <<ops, faults, deaths, resets>>

(***************************************************************************)
(* What the store's operations accept and what they do to the document.    *)
(***************************************************************************)
Accepts(d, o) ==
  CASE o.kind = "create_goal" -> o.id \notin DOMAIN d.goals
    [] o.kind = "update_goal" -> o.id \in DOMAIN d.goals
    [] o.kind = "create_task" -> o.goal \in DOMAIN d.goals /\ o.id \notin DOMAIN d.tasks
    [] o.kind = "update_task" -> o.id \in DOMAIN d.tasks

With(f, id, row) == [i \in DOMAIN f \cup {id} |-> IF i = id THEN row ELSE f[i]]

CreateGoal(d, o) == [d EXCEPT !.goals = With(@, o.id, o.status)]
UpdateGoal(d, o) == [d EXCEPT !.goals[o.id] = o.status]
CreateTask(d, o) ==
  [d EXCEPT !.tasks = With(@, o.id, [goal |-> o.goal, status |-> o.status])]
UpdateTask(d, o) == [d EXCEPT !.tasks[o.id].status = o.status]

Changed(d, o) ==
  CASE o.kind = "create_goal" -> CreateGoal(d, o)
    [] o.kind = "update_goal" -> UpdateGoal(d, o)
    [] o.kind = "create_task" -> CreateTask(d, o)
    [] o.kind = "update_task" -> UpdateTask(d, o)

BecameReady(d, o) ==
  /\ o.kind \in {"create_task", "update_task"} /\ o.status = "ready"
  /\ o.kind = "update_task" => d.tasks[o.id].status # "ready"

Requests ==
  [kind : {"create_goal"}, id : GoalIds, status : {"open"}]
  \cup [kind : {"update_goal"}, id : GoalIds, status : {"closed"}]
  \cup [kind : {"create_task"}, id : TaskIds, goal : GoalIds,
        status : {"pending", "ready"}]
  \cup [kind : {"update_task"}, id : TaskIds, status : Task_Statuses]

(***************************************************************************)
(* The worker's moments: it claims a wake or begins for another reason,    *)
(* never while a reset runs, and ends when no tool is running.             *)
(***************************************************************************)
Begin(t) ==
  /\ ~busy /\ workLock = "none" /\ resetting = "no" /\ busy' = TRUE
  /\ wakes' = wakes \ {t}
  /\ UNCHANGED <<ledger, pc, op, doc, storeLock, workLock, resetting, history, limits>>

End ==
  /\ busy /\ pc["tool"] = "idle" /\ workLock = "none" /\ busy' = FALSE
  /\ UNCHANGED <<ledger, wakes, pc, op, doc, storeLock, workLock, resetting, history,
                 limits>>

(* A tool call; the ids of what it creates are new. *)
Fresh(o) == /\ \A p \in Threads : op[p] # NoOp => op[p].id # o.id
            /\ o.kind = "create_goal" => o.id \notin made
            /\ o.kind = "create_task" => o.id \notin DOMAIN ledger.tasks
ToolCall(o) ==
  /\ busy /\ pc["tool"] = "idle" /\ ops < MaxOps /\ ops' = ops + 1
  /\ Fresh(o)
  /\ pc' = [pc EXCEPT !["tool"] = "lock"] /\ op' = [op EXCEPT !["tool"] = o]
  /\ UNCHANGED <<ledger, wakes, busy, doc, storeLock, workLock, resetting, history,
                 faults, deaths, resets>>

(* create_goal_if_allowed: refused during a reset, the whole call under    *)
(* the worker's lock.                                                      *)
PanelCall(o) ==
  /\ pc["panel"] = "idle" /\ ops < MaxOps /\ ops' = ops + 1
  /\ workLock = "none" /\ resetting = "no" /\ workLock' = "panel"
  /\ o.kind = "create_goal" /\ Fresh(o)
  /\ pc' = [pc EXCEPT !["panel"] = "lock"] /\ op' = [op EXCEPT !["panel"] = o]
  /\ UNCHANGED <<ledger, wakes, busy, doc, storeLock, resetting, history, faults,
                 deaths, resets>>

(* The store's lock and _load; the id asked for is not there: the end. *)
Finish(p) == /\ pc' = [pc EXCEPT ![p] = "idle"] /\ op' = [op EXCEPT ![p] = NoOp]
             /\ workLock' = IF p = "panel" THEN "none" ELSE workLock

\* MUTANT of Load
LoadUnlocked(p) ==
  /\ pc[p] = "lock"
  /\ \E d \in {ledger, Empty} :
       /\ IF d = ledger THEN UNCHANGED faults ELSE Fault
       /\ wiped' = (wiped \/ (d # ledger /\ Accepts(d, op[p])))
       /\ IF Accepts(d, op[p])
          THEN /\ storeLock' = p /\ doc' = [doc EXCEPT ![p] = d]
               /\ pc' = [pc EXCEPT ![p] = "save"]
               /\ UNCHANGED <<op, workLock>>
          ELSE Finish(p) /\ UNCHANGED <<storeLock, doc>>
  /\ UNCHANGED <<ledger, wakes, busy, resetting, made, heard, told, cut, ops, deaths,
                 resets>>

Load(p) ==
  /\ pc[p] = "lock" /\ storeLock = "none"
  /\ \E d \in {ledger, Empty} :
       /\ IF d = ledger THEN UNCHANGED faults ELSE Fault
       /\ wiped' = (wiped \/ (d # ledger /\ Accepts(d, op[p])))
       /\ IF Accepts(d, op[p])
          THEN /\ storeLock' = p /\ doc' = [doc EXCEPT ![p] = d]
               /\ pc' = [pc EXCEPT ![p] = "save"]
               /\ UNCHANGED <<op, workLock>>
          ELSE Finish(p) /\ UNCHANGED <<storeLock, doc>>
  /\ UNCHANGED <<ledger, wakes, busy, resetting, made, heard, told, cut, ops, deaths,
                 resets>>

(* _save, then the lock is released; a task that became ready has yet to   *)
(* be announced.                                                           *)
Save(p) ==
  /\ pc[p] = "save" /\ storeLock' = "none"
  /\ LET o == op[p]
         d == doc[p]
         ready == BecameReady(d, o)
     IN \/ /\ ledger' = Changed(d, o)
           /\ doc' = [doc EXCEPT ![p] = Empty]
           /\ made' = IF o.kind = "create_goal" THEN made \cup {o.id} ELSE made
           /\ heard' = IF ready THEN heard \ {o.id} ELSE heard
           /\ told' = IF ready THEN told \ {o.id} ELSE told
           /\ cut' = IF ready THEN cut \ {o.id} ELSE cut
           /\ IF ready THEN pc' = [pc EXCEPT ![p] = "hook"] /\ UNCHANGED <<op, workLock>>
              ELSE Finish(p)
           /\ UNCHANGED <<wiped, faults>>
        \/ /\ Fault /\ Finish(p) /\ doc' = [doc EXCEPT ![p] = Empty]
           /\ UNCHANGED <<ledger, history>>
  /\ UNCHANGED <<wakes, busy, resetting, ops, deaths, resets>>

(***************************************************************************)
(* The announcement: the store's hook, then the tool's own port, each one  *)
(* under the worker's lock; a failure of the first is logged, one of the   *)
(* second put into the result.                                             *)
(***************************************************************************)
Enqueued(t) == wakes \cup {t}

Hook ==
  /\ pc["tool"] = "hook" /\ workLock = "none"
  /\ LET t == op["tool"].id
     IN \/ wakes' = Enqueued(t) /\ heard' = heard \cup {t} /\ UNCHANGED faults
        \/ Fault /\ UNCHANGED <<wakes, heard>>
  /\ pc' = [pc EXCEPT !["tool"] = "port"]
  /\ UNCHANGED <<ledger, busy, op, doc, storeLock, workLock, resetting, made, told, cut,
                 wiped, ops, deaths, resets>>

Port ==
  /\ pc["tool"] = "port" /\ workLock = "none"
  /\ LET t == op["tool"].id
     IN \/ /\ wakes' = Enqueued(t) /\ heard' = heard \cup {t}
           /\ UNCHANGED <<faults, told>>
        \/ Fault /\ told' = told \cup {t} /\ UNCHANGED <<wakes, heard>>
  /\ Finish("tool")
  /\ UNCHANGED <<ledger, busy, doc, storeLock, resetting, made, cut, wiped, ops, deaths,
                 resets>>

(***************************************************************************)
(* The full reset, refused while the worker is in a moment: clear_goals    *)
(* without the locks, then once more, with the queue, under the worker's.  *)
(***************************************************************************)
ResetBegin ==
  /\ resetting = "no" /\ ~busy /\ workLock = "none"
  /\ resets < MaxResets /\ resets' = resets + 1
  /\ resetting' = "first" /\ made' = {}
  /\ UNCHANGED <<ledger, wakes, busy, pc, op, doc, storeLock, workLock, heard, told,
                 cut, wiped, ops, faults, deaths>>

ResetClear ==
  /\ resetting # "no"
  /\ resetting = "second" => workLock = "none"
  /\ ledger' = Empty /\ wakes' = {} /\ heard' = {}
  /\ told' = {} /\ cut' = {}
  /\ resetting' = IF resetting = "first" THEN "second" ELSE "no"
  /\ UNCHANGED <<busy, pc, op, doc, storeLock, workLock, made, wiped, limits>>

(* The process dies: the file and the wakes are on disk.  A task that was   *)
(* saved as ready and not yet announced stays so: nothing looks for it.  A  *)
(* reset that had not cleared the ledger has not happened.                  *)
Die ==
  /\ deaths < MaxDeaths /\ deaths' = deaths + 1
  /\ cut' = IF pc["tool"] \in {"hook", "port"} THEN cut \cup {op["tool"].id} ELSE cut
  /\ busy' = FALSE /\ pc' = [p \in Threads |-> "idle"]
  /\ op' = [p \in Threads |-> NoOp] /\ doc' = [p \in Threads |-> Empty]
  /\ storeLock' = "none" /\ workLock' = "none" /\ resetting' = "no"
  /\ made' = IF resetting = "first" THEN DOMAIN ledger.goals ELSE made
  /\ UNCHANGED <<ledger, wakes, heard, told, wiped, ops, faults, resets>>

Next ==
  \/ \E t \in TaskIds \cup {"other"} : Begin(t)
  \/ End
  \/ \E o \in Requests : ToolCall(o) \/ PanelCall(o)
  \/ \E p \in Threads : Load(p) \/ Save(p)
  \/ Hook \/ Port \/ ResetBegin \/ ResetClear \/ Die

Spec == Init /\ [][Next]_vars
----------------------------------------------------------------------------
(* Types of the ledger and of the threads. *)
TypeOK ==
  /\ DOMAIN ledger.goals \subseteq GoalIds /\ DOMAIN ledger.tasks \subseteq TaskIds
  /\ \A g \in DOMAIN ledger.goals : ledger.goals[g] \in Goal_Statuses
  /\ \A t \in DOMAIN ledger.tasks : ledger.tasks[t].status \in Task_Statuses
  /\ wakes \subseteq TaskIds /\ busy \in BOOLEAN
  /\ storeLock \in Threads \cup {"none"} /\ workLock \in {"panel", "none"}
  /\ resetting \in {"no", "first", "second"}

(***************************************************************************)
(* The ledger holds exactly the goals whose creation was acknowledged and  *)
(* that no reset has cleared: the panel and a tool never undo each other,  *)
(* and a goal that the panel was told exists survives a reset that began   *)
(* earlier.  Only a load that failed may cost goals.                       *)
(***************************************************************************)
LedgerExact == wiped \/ resetting # "no" \/ DOMAIN ledger.goals = made

(***************************************************************************)
(* A task that is ready has been announced on the queue since it became so *)
(* or the model was warned that it was not, once its tool has returned;    *)
(* only a process that died in between leaves it silent.                   *)
(***************************************************************************)
ReadyIsAnnounced ==
  \A t \in DOMAIN ledger.tasks :
    ledger.tasks[t].status = "ready" =>
      \/ t \in heard \cup told \cup cut
      \/ pc["tool"] \in {"hook", "port"} /\ op["tool"].id = t

(***************************************************************************)
(* The two locks cannot block each other for good: the panel waits for the *)
(* store's lock with the worker's in hand, so no tool may wait for the     *)
(* worker's with the store's in hand.                                      *)
(***************************************************************************)
NoLockCycle == pc["tool"] \in {"hook", "port"} => storeLock # "tool"

\* The ledger is what its calls made of it, a task that became ready is announced,
\* and the two locks are never waited for in a circle.
LedgerHolds == TypeOK /\ LedgerExact /\ ReadyIsAnnounced /\ NoLockCycle
==================================================================================
