---------------------------- MODULE KeepersProofs -----------------------------
(***************************************************************************)
(* Theorems about what the host keeps for its operator. Each is the        *)
(* property a run checks, for every value of the constants of its          *)
(* component: the goals ledger and the controls share a composition whose  *)
(* behaviours exercise one of them, so an invariant of a component is one  *)
(* of the whole.                                                           *)
(***************************************************************************)
EXTENDS MCKeepers, TLAPS

-------------------------------------------------------------------------------
(***************************************************************************)
(* LedgerHolds for any goals and tasks and any number of calls, faults,    *)
(* deaths and resets. The panel and a tool exclude each other by the lock  *)
(* of the store, so what one of them saves is made from the ledger as it   *)
(* still is, or from a load that failed; and both are at rest while a      *)
(* reset runs, because it is refused during a moment and because the panel *)
(* holds the worker's lock for the whole of its call.                      *)
(***************************************************************************)

Ledgers ==
  [goals : UNION {[S -> Goal_Statuses] : S \in SUBSET GoalIds},
   tasks : UNION {[S -> [goal : GoalIds, status : Task_Statuses]] : S \in SUBSET TaskIds}]

\* Types; a thread that is not idle has a request.
TypeInv ==
  /\ ledger \in Ledgers /\ doc \in [Threads -> Ledgers]
  /\ wakes \subseteq TaskIds /\ busy \in BOOLEAN
  /\ pc \in [Threads -> {"idle", "lock", "save", "hook", "port"}]
  /\ op \in [Threads -> Requests \cup {NoOp}]
  /\ storeLock \in Threads \cup {"none"} /\ workLock \in {"panel", "none"}
  /\ resetting \in {"no", "first", "second"}
  /\ \A p \in Threads : pc[p] # "idle" => op[p] \in Requests

\* Who holds which lock, and who is at rest.
LockInv ==
  /\ \A p \in Threads : storeLock = p <=> pc[p] = "save"
  /\ workLock = "panel" <=> pc["panel"] # "idle"
  /\ pc["panel"] \notin {"hook", "port"}
  /\ pc["panel"] # "idle" => op["panel"].kind = "create_goal"
  /\ pc["tool"] # "idle" => busy
  /\ pc["tool"] \in {"hook", "port"} => op["tool"].kind \in {"create_task", "update_task"}
  /\ resetting # "no" => ~busy /\ pc["panel"] = "idle"

\* A reset has forgotten what was made; after its first pass the ledger is empty.
ResetInv ==
  /\ resetting # "no" => made = {}
  /\ resetting = "second" => ledger = Empty

\* What is about to be saved was made from the ledger as it is, or from nothing.
SaveInv ==
  \A p \in Threads : pc[p] = "save" =>
    /\ Accepts(doc[p], op[p])
    /\ doc[p] = ledger \/ (wiped /\ doc[p] = Empty)

Inv == TypeInv /\ LockInv /\ ResetInv /\ SaveInv /\ LedgerExact /\ ReadyIsAnnounced

-----------------------------------------------------------------------------
(* What a request does to a ledger *)

\* The nothing that a failed load yields is a ledger.
LEMMA EmptyLedger == Empty \in Ledgers /\ DOMAIN Empty.tasks = {} /\ DOMAIN Empty.goals = {}
<1>1. <<>> \in [{} -> Goal_Statuses] /\ <<>> \in [{} -> [goal : GoalIds, status : Task_Statuses]]
  OBVIOUS
<1>2. {} \in SUBSET GoalIds /\ {} \in SUBSET TaskIds
  OBVIOUS
<1>3. QED
  BY <1>1, <1>2 DEF Empty, Ledgers

\* The parts of a ledger.
LEMMA LedgerParts ==
  ASSUME NEW d \in Ledgers
  PROVE  /\ d = [goals |-> d.goals, tasks |-> d.tasks]
         /\ DOMAIN d.goals \in SUBSET GoalIds /\ d.goals \in [DOMAIN d.goals -> Goal_Statuses]
         /\ DOMAIN d.tasks \in SUBSET TaskIds
         /\ d.tasks \in [DOMAIN d.tasks -> [goal : GoalIds, status : Task_Statuses]]
BY DEF Ledgers

\* Parts that fit make a ledger.
LEMMA LedgerMade ==
  ASSUME NEW S \in SUBSET GoalIds, NEW g \in [S -> Goal_Statuses],
         NEW T \in SUBSET TaskIds, NEW k \in [T -> [goal : GoalIds, status : Task_Statuses]]
  PROVE  [goals |-> g, tasks |-> k] \in Ledgers
BY DEF Ledgers

\* Only a create_goal adds a goal; a task is ready after a request if it was
\* before, or if the request made it so.
LEMMA Effect ==
  ASSUME NEW d \in Ledgers, NEW o \in Requests, Accepts(d, o)
  PROVE  /\ Changed(d, o) \in Ledgers
         /\ DOMAIN Changed(d, o).goals
              = DOMAIN d.goals \cup (IF o.kind = "create_goal" THEN {o.id} ELSE {})
         /\ \A t \in DOMAIN Changed(d, o).tasks :
              Changed(d, o).tasks[t].status = "ready" =>
                \/ t \in DOMAIN d.tasks /\ d.tasks[t].status = "ready"
                \/ BecameReady(d, o) /\ t = o.id
         /\ BecameReady(d, o) => o.kind \in {"create_task", "update_task"} /\ o.id \in TaskIds
<1> DEFINE rows == [goal : GoalIds, status : Task_Statuses]
<1>1. /\ d = [goals |-> d.goals, tasks |-> d.tasks]
      /\ DOMAIN d.goals \in SUBSET GoalIds /\ d.goals \in [DOMAIN d.goals -> Goal_Statuses]
      /\ DOMAIN d.tasks \in SUBSET TaskIds /\ d.tasks \in [DOMAIN d.tasks -> rows]
  BY LedgerParts
<1>2. CASE o.kind = "create_goal"
  <2> DEFINE g == With(d.goals, o.id, o.status)
  <2>1. o.id \in GoalIds /\ o.status \in Goal_Statuses
    BY <1>2 DEF Requests, Goal_Statuses
  <2>2. g \in [DOMAIN d.goals \cup {o.id} -> Goal_Statuses]
    BY <1>1, <2>1 DEF With
  <2>3. Changed(d, o) = [goals |-> g, tasks |-> d.tasks]
    BY <1>1, <1>2 DEF Changed, CreateGoal
  <2>4. Changed(d, o) \in Ledgers
    <3> HIDE DEF g
    <3>1. DOMAIN d.goals \cup {o.id} \in SUBSET GoalIds
      BY <1>1, <2>1
    <3>2. QED
      BY <1>1, <2>2, <2>3, <3>1, LedgerMade
  <2>5. ~BecameReady(d, o)
    BY <1>2 DEF BecameReady
  <2>6. DOMAIN g = DOMAIN d.goals \cup {o.id}
    BY <2>2
  <2> HIDE DEF g
  <2>7. QED
    BY <1>2, <2>3, <2>4, <2>5, <2>6
<1>3. CASE o.kind = "update_goal"
  <2> DEFINE g == [d.goals EXCEPT ![o.id] = o.status]
  <2>1. o.id \in DOMAIN d.goals /\ o.status \in Goal_Statuses
    BY <1>3 DEF Requests, Goal_Statuses, Accepts
  <2>2. g \in [DOMAIN d.goals -> Goal_Statuses]
    BY <1>1, <2>1
  <2>3. Changed(d, o) = [goals |-> g, tasks |-> d.tasks]
    BY <1>1, <1>3 DEF Changed, UpdateGoal
  <2>4. ~BecameReady(d, o)
    BY <1>3 DEF BecameReady
  <2>5. DOMAIN g = DOMAIN d.goals
    BY <2>2
  <2> HIDE DEF g
  <2>6. Changed(d, o) \in Ledgers
    BY <1>1, <2>2, <2>3, LedgerMade
  <2>7. QED
    BY <1>3, <2>3, <2>4, <2>5, <2>6
<1>4. CASE o.kind = "create_task"
  <2> DEFINE row == [goal |-> o.goal, status |-> o.status]
             k == With(d.tasks, o.id, row)
  <2>1. o.id \in TaskIds /\ o.id \notin DOMAIN d.tasks /\ row \in rows
    BY <1>4 DEF Requests, Task_Statuses, Accepts
  <2>2. row.status = o.status
    OBVIOUS
  <2> HIDE DEF row, rows
  <2>3. k \in [DOMAIN d.tasks \cup {o.id} -> rows]
    BY <1>1, <2>1 DEF With
  <2>4. k[o.id] = row /\ \A t \in DOMAIN d.tasks : k[t] = d.tasks[t]
    BY <2>1 DEF With
  <2>5. Changed(d, o) = [goals |-> d.goals, tasks |-> k]
    BY <1>1, <1>4 DEF Changed, CreateTask, row
  <2>6. DOMAIN k = DOMAIN d.tasks \cup {o.id}
    BY <2>3
  <2>7. o.status = "ready" => BecameReady(d, o)
    BY <1>4 DEF BecameReady
  <2> HIDE DEF k
  <2>8. Changed(d, o) \in Ledgers
    <3>1. DOMAIN d.tasks \cup {o.id} \in SUBSET TaskIds
      BY <1>1, <2>1
    <3>2. k \in [DOMAIN d.tasks \cup {o.id} -> [goal : GoalIds, status : Task_Statuses]]
      BY <2>3 DEF rows
    <3>3. [goals |-> d.goals, tasks |-> k] \in Ledgers
      BY <1>1, <3>1, <3>2, LedgerMade
    <3>4. QED
      BY <2>5, <3>3
  <2>9. QED
    BY <1>4, <2>1, <2>2, <2>4, <2>5, <2>6, <2>7, <2>8
<1>5. CASE o.kind = "update_task"
  <2> DEFINE k == [d.tasks EXCEPT ![o.id].status = o.status]
  <2>1. o.id \in DOMAIN d.tasks /\ o.id \in TaskIds /\ o.status \in Task_Statuses
    BY <1>5 DEF Requests, Accepts
  <2>2. d.tasks[o.id] \in rows
    BY <1>1, <2>1
  <2>3. [d.tasks[o.id] EXCEPT !.status = o.status] \in rows
    BY <2>1, <2>2
  <2>4. [d.tasks[o.id] EXCEPT !.status = o.status].status = o.status
    BY <2>2
  <2>5. k = [d.tasks EXCEPT ![o.id] = [d.tasks[o.id] EXCEPT !.status = o.status]]
    OBVIOUS
  <2>6. k \in [DOMAIN d.tasks -> rows]
    <3> HIDE DEF rows
    <3>1. QED
      BY <1>1, <2>1, <2>3, <2>5
  <2>7. k[o.id].status = o.status /\ \A t \in DOMAIN d.tasks : t # o.id => k[t] = d.tasks[t]
    BY <1>1, <2>1, <2>4, <2>5
  <2>8. Changed(d, o) = [goals |-> d.goals, tasks |-> k]
    BY <1>1, <1>5 DEF Changed, UpdateTask
  <2>9. DOMAIN k = DOMAIN d.tasks
    BY <2>6
  <2>10. o.status = "ready" /\ d.tasks[o.id].status # "ready" => BecameReady(d, o)
    BY <1>5 DEF BecameReady
  <2> HIDE DEF k
  <2>11. Changed(d, o) \in Ledgers
    BY <1>1, <2>6, <2>8, LedgerMade
  <2>12. QED
    BY <1>5, <2>1, <2>7, <2>8, <2>9, <2>10, <2>11
<1>6. QED
  BY <1>2, <1>3, <1>4, <1>5 DEF Requests

-----------------------------------------------------------------------------
(* Every step keeps the invariant *)

\* The ledger starts empty and nobody holds a lock.
LEMMA InitInv == Init => Inv
<1> SUFFICES ASSUME Init PROVE Inv
  OBVIOUS
<1>1. TypeInv
  BY EmptyLedger DEF Init, TypeInv, Threads
<1>2. LockInv /\ ResetInv /\ SaveInv
  BY DEF Init, LockInv, ResetInv, SaveInv, Threads
<1>3. LedgerExact /\ ReadyIsAnnounced
  BY EmptyLedger DEF Init, LedgerExact, ReadyIsAnnounced
<1>4. QED
  BY <1>1, <1>2, <1>3 DEF Inv

\* A moment begins or ends, and a call arrives: nothing is read or written yet.
LEMMA CallSteps ==
  ASSUME Inv, (\E t \in TaskIds \cup {"other"} : Begin(t)) \/ End
                \/ \E o \in Requests : ToolCall(o) \/ PanelCall(o)
  PROVE  Inv'
<1>1. TypeInv'
  <2>1. CASE (\E t \in TaskIds \cup {"other"} : Begin(t)) \/ End
    BY <2>1 DEF Inv, TypeInv, Begin, End
  <2>2. ASSUME NEW o \in Requests, ToolCall(o) PROVE TypeInv'
    BY <2>2 DEF Inv, TypeInv, ToolCall, Threads
  <2>3. ASSUME NEW o \in Requests, PanelCall(o) PROVE TypeInv'
    BY <2>3 DEF Inv, TypeInv, PanelCall, Threads
  <2>4. QED
    BY <2>1, <2>2, <2>3
<1>2. LockInv'
  <2>1. CASE (\E t \in TaskIds \cup {"other"} : Begin(t)) \/ End
    BY <2>1 DEF Inv, LockInv, Begin, End
  <2>2. ASSUME NEW o \in Requests, ToolCall(o) PROVE LockInv'
    BY <2>2 DEF Inv, TypeInv, LockInv, ToolCall, Threads
  <2>3. ASSUME NEW o \in Requests, PanelCall(o) PROVE LockInv'
    BY <2>3 DEF Inv, TypeInv, LockInv, PanelCall, Threads
  <2>4. QED
    BY <2>1, <2>2, <2>3
<1>3. /\ ledger' = ledger /\ doc' = doc /\ wiped' = wiped /\ resetting' = resetting
      /\ made' = made /\ heard' = heard /\ told' = told /\ cut' = cut
      /\ \A p \in Threads : pc'[p] = "save" => pc[p] = "save" /\ op'[p] = op[p]
      /\ pc["tool"] \in {"hook", "port"} => pc'["tool"] = pc["tool"] /\ op'["tool"] = op["tool"]
  BY DEF Inv, TypeInv, Begin, End, ToolCall, PanelCall, history, Threads
<1>4. SaveInv'
  BY <1>3 DEF Inv, SaveInv, Threads
<1>5. LedgerExact' /\ ReadyIsAnnounced' /\ ResetInv'
  BY <1>3 DEF Inv, LedgerExact, ReadyIsAnnounced, ResetInv
<1>6. QED
  BY <1>1, <1>2, <1>4, <1>5 DEF Inv

\* A load: from here to its save the thread has the lock of the store.
LEMMA LoadStep ==
  ASSUME Inv, NEW p \in Threads, Load(p)
  PROVE  Inv'
<1>1. PICK d \in {ledger, Empty} :
        /\ wiped' = (wiped \/ (d # ledger /\ Accepts(d, op[p])))
        /\ IF Accepts(d, op[p])
           THEN /\ storeLock' = p /\ doc' = [doc EXCEPT ![p] = d]
                /\ pc' = [pc EXCEPT ![p] = "save"]
                /\ UNCHANGED <<op, workLock>>
           ELSE Finish(p) /\ UNCHANGED <<storeLock, doc>>
  BY DEF Load
<1>2. d \in Ledgers
  BY EmptyLedger DEF Inv, TypeInv
<1>3. /\ pc[p] = "lock" /\ storeLock = "none"
      /\ UNCHANGED <<ledger, wakes, busy, resetting, made, heard, told, cut>>
  BY DEF Load
<1>4. TypeInv'
  BY <1>1, <1>2, <1>3 DEF Inv, TypeInv, Finish, Threads, NoOp
<1>5. LockInv'
  BY <1>1, <1>3 DEF Inv, TypeInv, LockInv, Finish, Threads
<1>6. SaveInv'
  <2> SUFFICES ASSUME NEW q \in Threads, pc'[q] = "save"
               PROVE  /\ Accepts(doc'[q], op'[q])
                      /\ doc'[q] = ledger \/ (wiped' /\ doc'[q] = Empty)
    BY <1>3 DEF SaveInv
  <2>1. \A r \in Threads : pc[r] # "save"
    BY <1>3 DEF Inv, LockInv, Threads
  <2>2. q = p /\ Accepts(d, op[p]) /\ doc'[p] = d /\ op' = op
    BY <1>1, <2>1 DEF Inv, TypeInv, Finish
  <2>3. QED
    BY <1>1, <2>2
<1>7. LedgerExact' /\ ReadyIsAnnounced' /\ ResetInv'
  <2>1. pc["tool"] \in {"hook", "port"} => pc'["tool"] = pc["tool"] /\ op'["tool"] = op["tool"]
    BY <1>1, <1>3 DEF Inv, TypeInv, Finish, Threads
  <2>2. wiped => wiped'
    BY <1>1
  <2>3. QED
    BY <1>3, <2>1, <2>2 DEF Inv, LedgerExact, ReadyIsAnnounced, ResetInv
<1>8. QED
  BY <1>4, <1>5, <1>6, <1>7 DEF Inv

\* A save that succeeds writes what the request makes of the ledger.
LEMMA SaveWrites ==
  ASSUME Inv, NEW p \in Threads, Save(p), ledger' = Changed(doc[p], op[p]),
         wiped' = wiped, resetting' = resetting, busy' = busy,
         made' = IF op[p].kind = "create_goal" THEN made \cup {op[p].id} ELSE made,
         heard' = IF BecameReady(doc[p], op[p]) THEN heard \ {op[p].id} ELSE heard,
         told' = IF BecameReady(doc[p], op[p]) THEN told \ {op[p].id} ELSE told,
         cut' = IF BecameReady(doc[p], op[p]) THEN cut \ {op[p].id} ELSE cut,
         IF BecameReady(doc[p], op[p])
         THEN pc' = [pc EXCEPT ![p] = "hook"] /\ op' = op
         ELSE pc' = [pc EXCEPT ![p] = "idle"]
  PROVE  ledger' \in Ledgers /\ LedgerExact' /\ ReadyIsAnnounced'
<1> DEFINE d == doc[p]
           o == op[p]
<1>1. pc[p] = "save" /\ d \in Ledgers /\ o \in Requests /\ Accepts(d, o)
  BY DEF Save, Inv, TypeInv, SaveInv
<1>2. d = ledger \/ (wiped /\ d = Empty)
  BY <1>1 DEF Inv, SaveInv
<1>3. /\ ledger' \in Ledgers
      /\ DOMAIN ledger'.goals
           = DOMAIN d.goals \cup (IF o.kind = "create_goal" THEN {o.id} ELSE {})
      /\ \A t \in DOMAIN ledger'.tasks : ledger'.tasks[t].status = "ready" =>
           \/ t \in DOMAIN d.tasks /\ d.tasks[t].status = "ready"
           \/ BecameReady(d, o) /\ t = o.id
      /\ BecameReady(d, o) => o.kind \in {"create_task", "update_task"}
  <2> HIDE DEF d, o
  <2>1. ledger' = Changed(d, o)
    BY DEF d, o
  <2>2. QED
    BY <1>1, <2>1, Effect
<1>4. LedgerExact'
  <2>1. CASE d = ledger
    BY <1>3, <2>1 DEF Inv, LedgerExact
  <2>2. CASE wiped
    BY <2>2 DEF LedgerExact
  <2>3. QED
    BY <1>2, <2>1, <2>2
<1>5. BecameReady(d, o) => p = "tool"
  BY <1>1, <1>3 DEF Inv, LockInv, Threads
<1>6. ReadyIsAnnounced'
  <2> SUFFICES ASSUME NEW t \in DOMAIN ledger'.tasks, ledger'.tasks[t].status = "ready"
               PROVE  \/ t \in heard' \cup told' \cup cut'
                      \/ pc'["tool"] \in {"hook", "port"} /\ op'["tool"].id = t
    BY DEF ReadyIsAnnounced
  <2>1. CASE BecameReady(d, o) /\ t = o.id
    <3>1. pc' = [pc EXCEPT !["tool"] = "hook"] /\ op' = op /\ o = op["tool"]
      BY <1>5, <2>1
    <3>2. QED
      BY <2>1, <3>1 DEF Inv, TypeInv, Threads
  <2>2. CASE t \in DOMAIN d.tasks /\ d.tasks[t].status = "ready" /\ ~(BecameReady(d, o) /\ t = o.id)
    <3>1. d = ledger
      BY <1>2, <2>2, EmptyLedger
    <3>2. \/ t \in heard \cup told \cup cut
          \/ pc["tool"] \in {"hook", "port"} /\ op["tool"].id = t
      BY <2>2, <3>1 DEF Inv, ReadyIsAnnounced
    <3>3. CASE t \in heard \cup told \cup cut
      BY <2>2, <3>3
    <3>4. CASE pc["tool"] \in {"hook", "port"} /\ op["tool"].id = t
      <4>1. p = "panel"
        BY <1>1, <3>4 DEF Threads
      <4>2. pc'["tool"] = pc["tool"] /\ op'["tool"] = op["tool"]
        BY <1>5, <4>1 DEF Inv, TypeInv, Threads, Save, Finish
      <4>3. QED
        BY <3>4, <4>2
    <3>5. QED
      BY <3>2, <3>3, <3>4
  <2>3. QED
    BY <1>3, <2>1, <2>2
<1>7. QED
  BY <1>3, <1>4, <1>6

\* A save, whether it succeeds or raises.
LEMMA SaveStep ==
  ASSUME Inv, NEW p \in Threads, Save(p)
  PROVE  Inv'
<1>1. /\ pc[p] = "save" /\ storeLock' = "none" /\ doc' = [doc EXCEPT ![p] = Empty]
      /\ UNCHANGED <<wakes, busy, resetting, wiped>>
      /\ \/ Finish(p)
         \/ /\ BecameReady(doc[p], op[p]) /\ pc' = [pc EXCEPT ![p] = "hook"]
            /\ UNCHANGED <<op, workLock>>
  BY DEF Save, history
<1>2. op[p] \in Requests /\ doc[p] \in Ledgers /\ Accepts(doc[p], op[p])
  BY <1>1 DEF Inv, TypeInv, SaveInv
<1>3. BecameReady(doc[p], op[p]) => op[p].kind \in {"create_task", "update_task"} /\ p = "tool"
  BY <1>1, <1>2, Effect DEF Inv, LockInv, Threads
<1>4. ledger' \in Ledgers /\ LedgerExact' /\ ReadyIsAnnounced'
  <2>1. CASE ledger' = ledger /\ UNCHANGED history /\ Finish(p)
    <3>1. pc["tool"] \in {"hook", "port"} => pc'["tool"] = pc["tool"] /\ op'["tool"] = op["tool"]
      BY <1>1, <2>1 DEF Inv, TypeInv, Finish, Threads
    <3>2. QED
      BY <1>1, <2>1, <3>1 DEF Inv, TypeInv, LedgerExact, ReadyIsAnnounced, history
  <2>2. CASE ledger' = Changed(doc[p], op[p]) /\ ~(ledger' = ledger /\ UNCHANGED history /\ Finish(p))
    BY <1>1, <2>2, SaveWrites DEF Save, Finish
  <2>3. QED
    BY <2>1, <2>2 DEF Save
<1>5. TypeInv'
  BY <1>1, <1>2, <1>4, EmptyLedger DEF Inv, TypeInv, Finish, Threads, NoOp
<1>6. LockInv'
  BY <1>1, <1>3 DEF Inv, TypeInv, LockInv, Finish, Threads
<1>7. SaveInv'
  <2>1. \A q \in Threads : pc'[q] # "save"
    BY <1>1 DEF Inv, TypeInv, LockInv, Finish, Threads
  <2>2. QED
    BY <2>1 DEF SaveInv
<1>8. ResetInv'
  <2>1. busy \/ pc["panel"] # "idle"
    BY <1>1 DEF Inv, LockInv, Threads
  <2>2. QED
    BY <1>1, <2>1 DEF Inv, LockInv, ResetInv
<1>9. QED
  BY <1>4, <1>5, <1>6, <1>7, <1>8 DEF Inv

\* The two announcements of a task that became ready.
LEMMA AnnounceSteps ==
  ASSUME Inv, Hook \/ Port
  PROVE  Inv'
<1>1. /\ pc["tool"] \in {"hook", "port"} /\ workLock = "none"
      /\ UNCHANGED <<ledger, busy, doc, storeLock, resetting, made, cut, wiped>>
      /\ \/ Finish("tool")
         \/ pc' = [pc EXCEPT !["tool"] = "port"] /\ UNCHANGED <<op, workLock>>
  BY DEF Hook, Port
<1>2. op["tool"] \in Requests /\ op["tool"].kind \in {"create_task", "update_task"}
  BY <1>1 DEF Inv, TypeInv, LockInv, Threads
<1>3. op["tool"].id \in TaskIds
  BY <1>2 DEF Requests
<1>4. /\ wakes' \subseteq wakes \cup {op["tool"].id}
      /\ heard \subseteq heard' /\ told \subseteq told'
      /\ \/ pc'["tool"] = "port" /\ op'["tool"] = op["tool"]
         \/ op["tool"].id \in heard' \cup told'
  BY DEF Hook, Port, Enqueued, Inv, TypeInv, Threads
<1>5. TypeInv'
  BY <1>1, <1>2, <1>3, <1>4 DEF Inv, TypeInv, Finish, Threads, NoOp
<1>6. LockInv'
  BY <1>1 DEF Inv, TypeInv, LockInv, Finish, Threads
<1>7. SaveInv'
  BY <1>1 DEF Inv, TypeInv, SaveInv, Finish, Threads
<1>8. LedgerExact' /\ ReadyIsAnnounced' /\ ResetInv'
  BY <1>1, <1>4 DEF Inv, LedgerExact, ReadyIsAnnounced, ResetInv
<1>9. QED
  BY <1>5, <1>6, <1>7, <1>8 DEF Inv

\* The reset: it begins when nothing runs, and clears twice.
LEMMA ResetSteps ==
  ASSUME Inv, ResetBegin \/ ResetClear
  PROVE  Inv'
<1>1. /\ UNCHANGED <<busy, pc, op, doc, storeLock, workLock, wiped>>
      /\ pc["tool"] = "idle" /\ pc["panel"] = "idle" /\ ~busy
  BY DEF ResetBegin, ResetClear, Inv, LockInv, limits
<1>2. SaveInv'
  <2>1. \A q \in Threads : pc'[q] # "save"
    BY <1>1 DEF Threads
  <2>2. QED
    BY <2>1 DEF SaveInv
<1>3. TypeInv' /\ LockInv'
  BY <1>1, EmptyLedger DEF ResetBegin, ResetClear, Inv, TypeInv, LockInv
<1>4. ReadyIsAnnounced' /\ ResetInv'
  BY <1>1, EmptyLedger DEF ResetBegin, ResetClear, Inv, ReadyIsAnnounced, ResetInv
<1>5. LedgerExact'
  <2>1. CASE ResetBegin
    BY <2>1 DEF ResetBegin, LedgerExact
  <2>2. CASE ResetClear
    BY <2>2, EmptyLedger DEF ResetClear, LedgerExact, Inv, ResetInv
  <2>3. QED
    BY <2>1, <2>2
<1>6. QED
  BY <1>2, <1>3, <1>4, <1>5 DEF Inv

\* A death: the tool that had yet to announce its task leaves it silent.
LEMMA DieStep ==
  ASSUME Inv, Die
  PROVE  Inv'
<1>1. \A p \in Threads : pc'[p] = "idle" /\ op'[p] = NoOp /\ doc'[p] = Empty
  BY DEF Die
<1>2. TypeInv'
  BY <1>1, EmptyLedger DEF Die, Inv, TypeInv, Threads
<1>3. LockInv' /\ ResetInv' /\ SaveInv'
  BY <1>1 DEF Die, LockInv, ResetInv, SaveInv, Threads
<1>4. LedgerExact' /\ ReadyIsAnnounced'
  BY EmptyLedger DEF Die, Inv, TypeInv, ResetInv, LedgerExact, ReadyIsAnnounced
<1>5. QED
  BY <1>2, <1>3, <1>4 DEF Inv

\* Every step keeps the invariant.
LEMMA NextInv == Inv /\ [Next]_vars => Inv'
<1> SUFFICES ASSUME Inv, [Next]_vars PROVE Inv'
  OBVIOUS
<1>1. CASE UNCHANGED vars
  BY <1>1 DEF vars, history, Inv, TypeInv, LockInv, ResetInv, SaveInv, LedgerExact, ReadyIsAnnounced
<1>2. CASE Next
  BY <1>2, CallSteps, LoadStep, SaveStep, AnnounceSteps, ResetSteps, DieStep DEF Next
<1>3. QED
  BY <1>1, <1>2

\* What the ledger holds is what its calls made of it, a task that became ready is
\* announced or its silence known, and the locks of store and worker are never
\* waited for in a circle: for any goals, tasks, calls, failing loads, saves and
\* announcements, resets and deaths.
THEOREM LedgerCorrect == Spec => []LedgerHolds
<1>1. Inv => LedgerHolds
  <2> SUFFICES ASSUME Inv PROVE LedgerHolds
    OBVIOUS
  <2>1. TypeOK
    <3>1. ledger \in Ledgers
      BY DEF Inv, TypeInv
    <3>2. \A t \in DOMAIN ledger.tasks : ledger.tasks[t].status \in Task_Statuses
      BY <3>1, LedgerParts
    <3>3. QED
      BY <3>1, <3>2, LedgerParts DEF Inv, TypeInv, TypeOK
  <2>2. NoLockCycle
    BY DEF Inv, LockInv, NoLockCycle, Threads
  <2>3. QED
    BY <2>1, <2>2 DEF Inv, LedgerHolds
<1>2. Inv /\ [Next]_vars => Inv'
  BY NextInv
<1>3. QED
  BY <1>1, <1>2, InitInv, PTL DEF Spec

(***************************************************************************)
(* ControlsHold for any ranges, calls, failures, restarts and overrides.   *)
(* What is on disk loads to a value in its range, whatever was torn, and   *)
(* to the one in memory unless its save is known to have failed; the meal  *)
(* budget is put in memory only after it is saved, the others before.      *)
(***************************************************************************)

\* The values a control can take.
Record == [on : BOOLEAN, n : Nat, max : Nat]
FitBudget == {r \in Record : r.n \in MinShare .. r.max /\ r.max \in MinShare .. HardMax}
FitOther == {r \in Record : r.n \in Low .. High}
Fit(c) == IF c = "meal_budget" THEN FitBudget ELSE FitOther
Readable(c) == Fit(c) \cup {Ct!NoFile, Ct!Torn}

\* A control is saved as it is in memory, or is known not to be.
Agrees(c) == \/ Ct!Loaded(c, file[c]) = mem[c]
             \/ c \in unsaved
             \/ c = "meal_budget" /\ stray

ControlTypes ==
  /\ mem \in [Ct!Names -> Record] /\ file \in [Ct!Names -> Record]
  /\ \A c \in Ct!Names : mem[c] \in Fit(c) /\ file[c] \in Readable(c)
  /\ ctPc \in {"idle", "open", "write", "down"} /\ unsaved \subseteq Ct!Names /\ stray \in BOOLEAN

\* The call in progress: only the budget is not in memory before it is saved.
CallInv ==
  ctPc \in {"open", "write"} =>
    /\ req.c \in Ct!Names /\ req.v \in Fit(req.c)
    /\ req.c # "meal_budget" => mem[req.c] = req.v

\* Between two calls every control agrees with its file, during a call every other.
SavedInv ==
  /\ ctPc = "idle" => \A c \in Ct!Names : Agrees(c)
  /\ ctPc = "open" => \A c \in Ct!Names : (c = req.c /\ c # "meal_budget") \/ Agrees(c)
  /\ ctPc = "write" => \A c \in Ct!Names : c = req.c \/ Agrees(c)

ControlInv == ControlTypes /\ CallInv /\ SavedInv /\ Ct!FedAsShown

LEMMA Ranges ==
  /\ Low \in Nat /\ High \in Nat /\ MinShare \in Nat /\ DefaultMax \in Nat /\ HardMax \in Nat
  /\ DefaultShare \in Nat /\ Low > 0 /\ MinShare > 0 /\ Asked \subseteq Nat
  /\ Low <= High /\ MinShare <= DefaultShare /\ DefaultShare <= DefaultMax /\ DefaultMax <= HardMax
BY ControlAssumption

\* Clamping brings every number into its range, and leaves one that is in it.
LEMMA Clamps ==
  ASSUME NEW n \in Nat, NEW max \in Nat
  PROVE  /\ Ct!ClampMs(n) \in Low .. High /\ (n \in Low .. High => Ct!ClampMs(n) = n)
         /\ Ct!ClampDelay(n) \in Low .. High /\ (n \in Low .. High => Ct!ClampDelay(n) = n)
         /\ Ct!ClampMax(max) \in MinShare .. HardMax
         /\ (max \in MinShare .. HardMax => Ct!ClampMax(max) = max)
         /\ Ct!ClampFraction(n, max) \in MinShare .. Ct!ClampMax(max)
         /\ (n \in MinShare .. Ct!ClampMax(max) => Ct!ClampFraction(n, max) = n)
         /\ (n > Ct!ClampMax(max) => Ct!ClampFraction(n, max) = Ct!ClampMax(max))
<1> USE Ranges DEF Ct!Least, Ct!Greatest
<1>1. /\ Ct!ClampMs(n) \in Low .. High /\ (n \in Low .. High => Ct!ClampMs(n) = n)
      /\ Ct!ClampDelay(n) \in Low .. High /\ (n \in Low .. High => Ct!ClampDelay(n) = n)
  BY DEF Ct!ClampMs, Ct!ClampDelay
<1>2. Ct!ClampMax(max) \in MinShare .. HardMax /\ (max \in MinShare .. HardMax => Ct!ClampMax(max) = max)
  BY DEF Ct!ClampMax
<1>3. /\ Ct!ClampFraction(n, max) \in MinShare .. Ct!ClampMax(max)
      /\ (n \in MinShare .. Ct!ClampMax(max) => Ct!ClampFraction(n, max) = n)
      /\ (n > Ct!ClampMax(max) => Ct!ClampFraction(n, max) = Ct!ClampMax(max))
  BY <1>2 DEF Ct!ClampFraction
<1>4. QED
  BY <1>1, <1>2, <1>3

\* What is in its range is loaded as it is, and what is loaded is in its range.
LEMMA LoadsFit ==
  ASSUME NEW c \in Ct!Names
  PROVE  /\ \A r \in Fit(c) : Ct!Loaded(c, r) = r
         /\ \A f \in Readable(c) : Ct!Loaded(c, f) \in Fit(c)
         /\ Ct!Default(c) \in Fit(c) /\ Ct!Loaded(c, Ct!NoFile) = Ct!Default(c)
<1>1. Ct!Default(c) \in Fit(c)
  <2>1. CASE c = "meal_budget"
    <3>1. Ct!Default(c) = [on |-> TRUE, n |-> DefaultShare, max |-> DefaultMax]
      BY <2>1 DEF Ct!Default
    <3>2. DefaultShare \in MinShare .. DefaultMax /\ DefaultMax \in MinShare .. HardMax
      BY Ranges
    <3>3. Ct!Default(c) \in Record /\ Ct!Default(c).n = DefaultShare /\ Ct!Default(c).max = DefaultMax
      BY <3>1, Ranges DEF Record
    <3>4. QED
      BY <2>1, <3>2, <3>3 DEF Fit, FitBudget
  <2>2. CASE c # "meal_budget"
    <3>1. PICK on \in BOOLEAN : Ct!Default(c) = [on |-> on, n |-> Low, max |-> High]
      BY <2>2 DEF Ct!Default, Ct!Names
    <3>2. Low \in Low .. High
      BY Ranges
    <3>3. QED
      BY <2>2, <3>1, <3>2, Ranges DEF Fit, FitOther, Record
  <2>3. QED
    BY <2>1, <2>2
<1>2. Ct!Absent(Ct!NoFile) /\ Ct!Absent(Ct!Torn)
  BY DEF Ct!Absent
<1>3. \A f : Ct!Absent(f) => Ct!Loaded(c, f) = Ct!Default(c)
  BY DEF Ct!Loaded, Ct!LoadDevSpeed, Ct!LoadSemanticWait, Ct!LoadMealBudget, Ct!Names
<1>4. ASSUME NEW r \in Fit(c) PROVE Ct!Loaded(c, r) = r
  <2>1. r \in Record /\ r.n > 0
    BY <1>4, Ranges DEF Fit, FitBudget, FitOther, Record
  <2>2. ~Ct!Absent(r)
    BY <2>1 DEF Ct!Absent, Ct!NoFile, Ct!Torn
  <2>3. CASE c = "meal_budget"
    <3>1. r.max \in Nat /\ r.n \in Nat /\ r.max \in MinShare .. HardMax /\ r.n \in MinShare .. r.max
      BY <2>3 DEF Fit, FitBudget, Record
    <3>2. Ct!ClampMax(r.max) = r.max /\ Ct!ClampFraction(r.n, r.max) = r.n
      BY <3>1, Clamps
    <3>3. Ct!Loaded(c, r) = [r EXCEPT !.n = Ct!ClampFraction(@, r.max), !.max = Ct!ClampMax(@)]
      BY <2>2, <2>3 DEF Ct!Loaded, Ct!LoadMealBudget
    <3>4. QED
      BY <2>1, <3>2, <3>3 DEF Record
  <2>4. CASE c # "meal_budget"
    <3>1. r.n \in Nat /\ r.n \in Low .. High
      BY <2>4 DEF Fit, FitOther, Record
    <3>2. Ct!ClampMs(r.n) = r.n /\ Ct!ClampDelay(r.n) = r.n
      BY <3>1, Clamps, Ranges
    <3>3. \/ Ct!Loaded(c, r) = r
          \/ Ct!Loaded(c, r) = [r EXCEPT !.n = Ct!ClampDelay(@)]
          \/ Ct!Loaded(c, r) = [r EXCEPT !.n = Ct!ClampMs(@)]
      BY <2>2, <2>4 DEF Ct!Loaded, Ct!LoadDevSpeed, Ct!LoadSemanticWait, Ct!Names
    <3>4. QED
      BY <2>1, <3>2, <3>3 DEF Record
  <2>5. QED
    BY <2>3, <2>4
<1>5. QED
  BY <1>1, <1>2, <1>3, <1>4 DEF Readable

LEMMA FitRecord == \A c : Fit(c) \subseteq Record /\ Readable(c) \subseteq Record
<1>1. FitBudget \subseteq Record /\ FitOther \subseteq Record
  BY DEF FitBudget, FitOther
<1>2. {Ct!NoFile, Ct!Torn} \subseteq Record
  BY DEF Ct!NoFile, Ct!Torn, Record
<1>3. QED
  BY <1>1, <1>2 DEF Fit, Readable

LEMMA ControlsInit == Ct!Init => ControlInv
<1> SUFFICES ASSUME Ct!Init PROVE ControlInv
  OBVIOUS
<1>1. \A c \in Ct!Names : mem[c] = Ct!Default(c) /\ file[c] = Ct!NoFile
  BY DEF Ct!Init
<1>2. ASSUME NEW c \in Ct!Names PROVE mem[c] \in Fit(c) /\ file[c] \in Readable(c) /\ Agrees(c)
  BY <1>1, LoadsFit DEF Readable, Agrees
<1>3. \A c \in Ct!Names : mem[c] \in Record /\ file[c] \in Record
  BY <1>2, FitRecord
<1>4. ControlTypes
  BY <1>2, <1>3 DEF Ct!Init, ControlTypes
<1>5. QED
  BY <1>2, <1>4 DEF Ct!Init, ControlInv, CallInv, SavedInv, Ct!FedAsShown

\* A call other than on the budget changes memory and then saves it.
LEMMA ControlsCall ==
  ASSUME ControlInv, NEW c \in Ct!Names \ {"meal_budget"}, NEW v \in Fit(c), Ct!Call(c, v),
         mem' = [mem EXCEPT ![c] = v]
  PROVE  ControlInv'
<1>1. /\ ctPc = "idle" /\ ctPc' = "open" /\ req'.c = c /\ req'.v = v
      /\ UNCHANGED <<file, used, shown, unsaved, stray>>
  BY DEF Ct!Call
<1>2. mem \in [Ct!Names -> Record] /\ v \in Record
  BY FitRecord DEF ControlInv, ControlTypes
<1>3. mem'[c] = v /\ \A d \in Ct!Names : d # c => mem'[d] = mem[d]
  BY <1>2
<1>4. ControlTypes'
  BY <1>1, <1>2, <1>3 DEF ControlInv, ControlTypes
<1>5. CallInv' /\ Ct!FedAsShown'
  BY <1>1, <1>3 DEF ControlInv, CallInv, Ct!FedAsShown
<1>6. \A d \in Ct!Names : d # c => Agrees(d)'
  BY <1>1, <1>3 DEF ControlInv, SavedInv, Agrees
<1>7. QED
  BY <1>1, <1>4, <1>5, <1>6 DEF ControlInv, SavedInv

LEMMA ControlsSetContinuous == ASSUME ControlInv, NEW on \in BOOLEAN, Ct!SetContinuous(on) PROVE ControlInv'
<1> DEFINE v == [mem["continuous"] EXCEPT !.on = on]
<1>1. "continuous" \in Ct!Names
  BY DEF Ct!Names
<1>2. mem["continuous"] \in Record /\ mem["continuous"].n \in Low .. High
  BY <1>1 DEF ControlInv, ControlTypes, Fit, FitOther
<1>3. v \in Fit("continuous")
  BY <1>2 DEF Fit, FitOther, Record
<1>4. Ct!Call("continuous", v) /\ mem' = [mem EXCEPT !["continuous"] = v]
  BY DEF Ct!SetContinuous
<1>5. QED
  BY <1>1, <1>3, <1>4, ControlsCall

LEMMA ControlsSetDevSpeed ==
  ASSUME ControlInv, NEW on \in BOOLEAN, NEW n \in Nat, Ct!SetDevSpeed(on, n) PROVE ControlInv'
<1> DEFINE v == [mem["dev_speed"] EXCEPT !.on = on, !.n = Ct!ClampDelay(n)]
<1>1. "dev_speed" \in Ct!Names
  BY DEF Ct!Names
<1>2. mem["dev_speed"] \in Record
  BY <1>1 DEF ControlInv, ControlTypes
<1>3. Ct!ClampDelay(n) \in Low .. High /\ Ct!ClampDelay(n) \in Nat
  BY Clamps, Ranges
<1>4. v \in Fit("dev_speed")
  BY <1>2, <1>3 DEF Fit, FitOther, Record
<1>5. Ct!Call("dev_speed", v) /\ mem' = [mem EXCEPT !["dev_speed"] = v]
  BY DEF Ct!SetDevSpeed
<1>6. QED
  BY <1>1, <1>4, <1>5, ControlsCall

LEMMA ControlsSetSemanticWait ==
  ASSUME ControlInv, NEW on \in BOOLEAN, NEW n \in Nat, Ct!SetSemanticWait(on, n) PROVE ControlInv'
<1> DEFINE v == [mem["semantic_wait"] EXCEPT !.on = on, !.n = Ct!ClampMs(n)]
<1>1. "semantic_wait" \in Ct!Names
  BY DEF Ct!Names
<1>2. mem["semantic_wait"] \in Record
  BY <1>1 DEF ControlInv, ControlTypes
<1>3. Ct!ClampMs(n) \in Low .. High /\ Ct!ClampMs(n) \in Nat
  BY Clamps, Ranges
<1>4. v \in Fit("semantic_wait")
  BY <1>2, <1>3 DEF Fit, FitOther, Record
<1>5. Ct!Call("semantic_wait", v) /\ mem' = [mem EXCEPT !["semantic_wait"] = v]
  BY DEF Ct!SetSemanticWait
<1>6. QED
  BY <1>1, <1>4, <1>5, ControlsCall

\* What is known of the budget in memory.
LEMMA BudgetFits ==
  ASSUME ControlInv
  PROVE  LET b == mem["meal_budget"]
         IN /\ b \in Record /\ b.n \in Nat /\ b.max \in Nat /\ b.n \in MinShare .. b.max
            /\ b.max \in MinShare .. HardMax /\ Ct!ClampMax(b.max) = b.max
<1>1. "meal_budget" \in Ct!Names
  BY DEF Ct!Names
<1>2. mem["meal_budget"] \in FitBudget
  BY <1>1 DEF ControlInv, ControlTypes, Fit
<1>3. QED
  BY <1>2, Clamps DEF FitBudget, Record

LEMMA ControlsSetMealBudget == ASSUME ControlInv, NEW n \in Nat, Ct!SetMealBudget(n) PROVE ControlInv'
<1> DEFINE b == mem["meal_budget"]
           v == [b EXCEPT !.n = Ct!ClampFraction(n, b.max)]
<1>1. b \in Record /\ b.max \in Nat /\ b.max \in MinShare .. HardMax /\ Ct!ClampMax(b.max) = b.max
  BY BudgetFits
<1>2. Ct!ClampFraction(n, b.max) \in MinShare .. b.max
  BY <1>1, Clamps
<1>3. Ct!ClampFraction(n, b.max) \in Nat
  BY <1>1, <1>2, Ranges
<1>4. v \in Record /\ v.n = Ct!ClampFraction(n, b.max) /\ v.max = b.max
  BY <1>1, <1>3 DEF Record
<1>5. v \in Fit("meal_budget")
  BY <1>1, <1>2, <1>4 DEF Fit, FitBudget
<1>6. Ct!Call("meal_budget", v) /\ UNCHANGED mem
  BY DEF Ct!SetMealBudget
<1>7. /\ ctPc = "idle" /\ ctPc' = "open" /\ req'.c = "meal_budget" /\ req'.v = v
      /\ UNCHANGED <<file, used, shown, unsaved, stray>>
  BY <1>6 DEF Ct!Call
<1>8. "meal_budget" \in Ct!Names
  BY DEF Ct!Names
<1>9. \A d \in Ct!Names : Agrees(d)'
  BY <1>6, <1>7 DEF ControlInv, SavedInv, Agrees
<1> HIDE DEF v
<1>10. QED
  BY <1>5, <1>6, <1>7, <1>8, <1>9 DEF ControlInv, ControlTypes, CallInv, SavedInv, Ct!FedAsShown

LEMMA ControlsOpen == ControlInv /\ Ct!Open => ControlInv'
<1> SUFFICES ASSUME ControlInv, Ct!Open PROVE ControlInv'
  OBVIOUS
<1>1. /\ ctPc = "open" /\ req.c \in Ct!Names /\ req.v \in Fit(req.c)
      /\ req.c # "meal_budget" => mem[req.c] = req.v
      /\ UNCHANGED <<mem, used, shown, stray>>
  BY DEF ControlInv, CallInv, Ct!Open
<1>2. \A d \in Ct!Names : (d = req.c /\ d # "meal_budget") \/ Agrees(d)
  BY <1>1 DEF ControlInv, SavedInv
<1>3. CASE file' = [file EXCEPT ![req.c] = Ct!Torn] /\ ctPc' = "write" /\ UNCHANGED <<req, unsaved>>
  <2>1. Ct!Torn \in Record /\ Ct!Torn \in Readable(req.c)
    BY FitRecord DEF Readable
  <2>2. file' \in [Ct!Names -> Record] /\ file'[req.c] = Ct!Torn /\ \A d \in Ct!Names : d # req.c => file'[d] = file[d]
    BY <1>1, <1>3, <2>1 DEF ControlInv, ControlTypes
  <2>3. ControlTypes'
    BY <1>1, <1>3, <2>1, <2>2 DEF ControlInv, ControlTypes
  <2>4. \A d \in Ct!Names : d # req.c => Agrees(d)'
    BY <1>1, <1>2, <1>3, <2>2 DEF Agrees
  <2>5. QED
    BY <1>1, <1>3, <2>3, <2>4 DEF ControlInv, CallInv, SavedInv, Ct!FedAsShown
<1>4. CASE /\ ctPc' = "idle" /\ UNCHANGED file
           /\ unsaved' = IF req.c = "meal_budget" THEN unsaved ELSE unsaved \cup {req.c}
  <2>1. ControlTypes'
    BY <1>1, <1>4 DEF ControlInv, ControlTypes
  <2>2. \A d \in Ct!Names : Agrees(d)'
    BY <1>1, <1>2, <1>4 DEF Agrees
  <2>3. QED
    BY <1>1, <1>4, <2>1, <2>2 DEF ControlInv, CallInv, SavedInv, Ct!FedAsShown
<1>5. QED
  BY <1>3, <1>4 DEF Ct!Open

LEMMA ControlsWrite == ControlInv /\ Ct!Write => ControlInv'
<1> SUFFICES ASSUME ControlInv, Ct!Write PROVE ControlInv'
  OBVIOUS
<1>1. /\ ctPc = "write" /\ ctPc' = "idle" /\ req.c \in Ct!Names /\ req.v \in Fit(req.c)
      /\ req.c # "meal_budget" => mem[req.c] = req.v
      /\ UNCHANGED <<used, shown>>
  BY DEF ControlInv, CallInv, Ct!Write
<1>2. \A d \in Ct!Names : d = req.c \/ Agrees(d)
  BY <1>1 DEF ControlInv, SavedInv
<1>3. CASE /\ file' = [file EXCEPT ![req.c] = req.v]
           /\ mem' = IF req.c = "meal_budget" THEN [mem EXCEPT ![req.c] = req.v] ELSE mem
           /\ unsaved' = unsaved \ {req.c}
           /\ stray' = (stray /\ req.c # "meal_budget")
  <2>1. req.v \in Record /\ req.v \in Readable(req.c) /\ Ct!Loaded(req.c, req.v) = req.v
    BY <1>1, FitRecord, LoadsFit DEF Readable
  <2>2. file' \in [Ct!Names -> Record] /\ file'[req.c] = req.v /\ \A d \in Ct!Names : d # req.c => file'[d] = file[d]
    BY <1>1, <1>3, <2>1 DEF ControlInv, ControlTypes
  <2>3. mem' \in [Ct!Names -> Record] /\ mem'[req.c] = req.v /\ \A d \in Ct!Names : d # req.c => mem'[d] = mem[d]
    BY <1>1, <1>3, <2>1 DEF ControlInv, ControlTypes
  <2>4. ControlTypes'
    BY <1>1, <1>3, <2>1, <2>2, <2>3 DEF ControlInv, ControlTypes
  <2>5. ASSUME NEW d \in Ct!Names PROVE Agrees(d)'
    <3>1. CASE d = req.c
      BY <2>1, <2>2, <2>3, <3>1 DEF Agrees
    <3>2. CASE d # req.c
      BY <1>1, <1>2, <1>3, <2>2, <2>3, <3>2 DEF Agrees
    <3>3. QED
      BY <3>1, <3>2
  <2>6. UNCHANGED <<used, shown>> /\ ctPc' = "idle"
    BY <1>1
  <2>7. QED
    BY <2>4, <2>5, <2>6 DEF ControlInv, CallInv, SavedInv, Ct!FedAsShown
<1>4. CASE unsaved' = unsaved \cup {req.c} /\ UNCHANGED <<file, mem, stray>>
  <2>1. ControlTypes'
    BY <1>1, <1>4 DEF ControlInv, ControlTypes
  <2>2. \A d \in Ct!Names : Agrees(d)'
    BY <1>1, <1>2, <1>4 DEF Agrees
  <2>3. QED
    BY <1>1, <1>4, <2>1, <2>2 DEF ControlInv, CallInv, SavedInv, Ct!FedAsShown
<1>5. QED
  BY <1>3, <1>4 DEF Ct!Write

\* The share of a moment is the one the status shows, cut at the default ceiling.
LEMMA ControlsBegin == ControlInv /\ Ct!Begin => ControlInv'
<1> SUFFICES ASSUME ControlInv, Ct!Begin PROVE ControlInv'
  OBVIOUS
<1> DEFINE b == mem["meal_budget"]
<1>1. b.n \in Nat /\ b.max \in Nat /\ b.n \in MinShare .. b.max /\ Ct!ClampMax(b.max) = b.max
  BY BudgetFits
<1>2. shown' = b.n
  BY <1>1, Clamps DEF Ct!Begin, Ct!StatusShare
<1>3. Ct!ClampMax(DefaultMax) = DefaultMax
  BY Clamps, Ranges
<1>4. used' = b.n \/ b.n > DefaultMax
  BY <1>1, <1>3, Clamps, Ranges DEF Ct!Begin
<1>5. UNCHANGED <<mem, file, ctPc, req, unsaved, stray>>
  BY DEF Ct!Begin
<1>6. QED
  BY <1>2, <1>4, <1>5 DEF ControlInv, ControlTypes, CallInv, SavedInv, Agrees, Ct!FedAsShown

LEMMA ControlsEnd == ControlInv /\ Ct!End => ControlInv'
BY DEF ControlInv, ControlTypes, CallInv, SavedInv, Agrees, Ct!FedAsShown, Ct!End

LEMMA ControlsDie == ControlInv /\ Ct!Die => ControlInv'
BY DEF ControlInv, ControlTypes, CallInv, SavedInv, Agrees, Ct!FedAsShown, Ct!Die

LEMMA ControlsStart == ControlInv /\ Ct!Start => ControlInv'
<1> SUFFICES ASSUME ControlInv, Ct!Start PROVE ControlInv'
  OBVIOUS
<1>1. /\ ctPc' = "idle" /\ unsaved' = {} /\ stray' = FALSE /\ UNCHANGED <<file, used, shown>>
      /\ mem' = [c \in Ct!Names |-> Ct!Loaded(c, file[c])]
  BY DEF Ct!Start
<1>2. ASSUME NEW c \in Ct!Names PROVE mem'[c] \in Fit(c) /\ mem'[c] \in Record /\ mem'[c] = Ct!Loaded(c, file[c])
  <2>1. file[c] \in Readable(c)
    BY DEF ControlInv, ControlTypes
  <2>2. QED
    BY <1>1, <2>1, LoadsFit, FitRecord
<1>3. ControlTypes'
  BY <1>1, <1>2 DEF ControlInv, ControlTypes
<1>4. \A c \in Ct!Names : Agrees(c)'
  BY <1>1, <1>2 DEF Agrees
<1>5. QED
  BY <1>1, <1>3, <1>4 DEF ControlInv, CallInv, SavedInv, Ct!FedAsShown

LEMMA ControlsOverride == ASSUME ControlInv, NEW max \in Nat, Ct!Override(max) PROVE ControlInv'
<1> DEFINE f == Ct!LoadMealBudget(file["meal_budget"])
           g == [f EXCEPT !.max = Ct!ClampMax(max), !.n = Ct!ClampFraction(@, max)]
<1>1. "meal_budget" \in Ct!Names /\ file["meal_budget"] \in Readable("meal_budget")
  BY DEF Ct!Names, ControlInv, ControlTypes
<1>2. f = Ct!Loaded("meal_budget", file["meal_budget"])
  BY DEF Ct!Loaded
<1>3. f \in Record
  BY <1>1, <1>2, LoadsFit, FitRecord
<1>4. f.n \in Nat
  BY <1>3 DEF Record
<1> HIDE DEF f
<1> /\ Ct!ClampMax(max) \in MinShare .. HardMax
    /\ Ct!ClampFraction(f.n, max) \in MinShare .. Ct!ClampMax(max)
  BY <1>4, Clamps
<1>5. /\ Ct!ClampMax(max) \in MinShare .. HardMax /\ Ct!ClampMax(max) \in Nat
      /\ Ct!ClampFraction(f.n, max) \in MinShare .. Ct!ClampMax(max) /\ Ct!ClampFraction(f.n, max) \in Nat
  BY Ranges
<1>6. g \in Record /\ g.n = Ct!ClampFraction(f.n, max) /\ g.max = Ct!ClampMax(max)
  BY <1>3, <1>5 DEF Record
<1> HIDE DEF g
<1>7. g \in FitBudget
  BY <1>5, <1>6 DEF FitBudget
<1>8. g \in Readable("meal_budget")
  BY <1>7 DEF Readable, Fit
<1>9. /\ ctPc \in {"idle", "down"} /\ stray' = TRUE /\ file' = [file EXCEPT !["meal_budget"] = g]
      /\ UNCHANGED <<mem, ctPc, req, used, shown, unsaved>>
  BY DEF Ct!Override, f, g
<1>10. /\ file' \in [Ct!Names -> Record] /\ file'["meal_budget"] = g
       /\ \A d \in Ct!Names : d # "meal_budget" => file'[d] = file[d]
  BY <1>1, <1>6, <1>9 DEF ControlInv, ControlTypes
<1>11. ControlTypes'
  BY <1>8, <1>9, <1>10 DEF ControlInv, ControlTypes
<1>12. ctPc = "idle" => \A d \in Ct!Names : Agrees(d)'
  BY <1>9, <1>10 DEF ControlInv, SavedInv, Agrees
<1>13. QED
  BY <1>9, <1>11, <1>12 DEF ControlInv, CallInv, SavedInv, Ct!FedAsShown

LEMMA ControlsStep == ControlInv /\ [Ct!Next]_ctVars => ControlInv'
<1> SUFFICES ASSUME ControlInv, [Ct!Next]_ctVars PROVE ControlInv'
  OBVIOUS
<1>1. CASE UNCHANGED ctVars
  BY <1>1 DEF ctVars, ControlInv, ControlTypes, CallInv, SavedInv, Agrees, Ct!FedAsShown
<1>2. CASE Ct!Next
  <2>1. Asked \subseteq Nat
    BY Ranges
  <2>2. QED
    BY <1>2, <2>1, ControlsSetContinuous, ControlsSetDevSpeed, ControlsSetSemanticWait, ControlsSetMealBudget,
       ControlsOverride, ControlsOpen, ControlsWrite, ControlsBegin, ControlsEnd, ControlsDie, ControlsStart
    DEF Ct!Next
<1>3. QED
  BY <1>1, <1>2

\* Whatever calls, failed saves, deaths and overrides there were: a control that was
\* saved is loaded as it is, all are in their ranges, and a moment is fed as shown.
THEOREM ControlsKept == KeepersSpec => []ControlsHold
<1>1. KeepersInit => ControlInv
  BY ControlsInit DEF KeepersInit
<1>2. ControlInv /\ [KeepersNext]_<<vars, focus, idVars, mdVars, ctVars, viVars>> => ControlInv'
  <2> SUFFICES ASSUME ControlInv, [KeepersNext]_<<vars, focus, idVars, mdVars, ctVars, viVars>>
               PROVE ControlInv'
    OBVIOUS
  <2>1. [Ct!Next]_ctVars
    BY DEF KeepersNext
  <2>2. QED
    BY <2>1, ControlsStep
<1>3. ControlInv => ControlsHold
  <2> SUFFICES ASSUME ControlInv PROVE ControlsHold
    OBVIOUS
  <2>1. Ct!TypeOK
    BY DEF ControlInv, ControlTypes, Ct!TypeOK, Record
  <2>2. Ct!RestartRestores
    BY DEF ControlInv, SavedInv, Agrees, Ct!RestartRestores
  <2>3. Ct!InRange
    <3>1. "dev_speed" \in Ct!Names /\ "semantic_wait" \in Ct!Names
      BY DEF Ct!Names
    <3>2. mem["dev_speed"].n \in Low .. High /\ mem["semantic_wait"].n \in Low .. High
      BY <3>1 DEF ControlInv, ControlTypes, Fit, FitOther
    <3>3. QED
      BY <3>2, BudgetFits DEF Ct!InRange
  <2>4. QED
    BY <2>1, <2>2, <2>3 DEF ControlInv, ControlsHold, Ct!ControlsHold
<1>4. QED
  BY <1>1, <1>2, <1>3, PTL DEF KeepersSpec

===============================================================================
