----------------------------- MODULE WakeQueue -----------------------------
(***************************************************************************)
(* The event-sourced wake queue of elyra/presence/queue.py: an append-only *)
(* log (data/wakes/events.jsonl) and an in-process index of it: the latest *)
(* op and the item of every wake, the set of pending ids and the priority  *)
(* heap.  The queue's RLock makes an operation atomic for other threads,   *)
(* but the process may die between two appends of one operation, so an     *)
(* operation that appends several events makes them one step at a time     *)
(* while it holds the lock.                                                *)
(***************************************************************************)
EXTENDS WakeItems, Sequences, FiniteSets

CONSTANTS
  Kinds,          \* the wake kinds this instance enumerates
  MaxCrashes,     \* bound on process deaths
  MaxFaults,      \* bound on appends that raise, writing nothing or a partial line
  CrashInRecovery \* may the process die while recover_claimed runs?

ASSUME ConstantsOK ==
  /\ Kinds \subseteq KnownKinds
  /\ MaxCrashes \in Nat
  /\ MaxFaults \in Nat
  /\ CrashInRecovery \in BOOLEAN

VARIABLES
  log,      \* the readable events of events.jsonl, in file order
  torn,     \* TRUE when the file ends in a partial line without a newline
  ops,      \* WakeQueue._ops: latest op per wake ("none" when unknown)
  items,    \* WakeQueue._items
  pending,  \* WakeQueue._pending_ids
  heap,     \* WakeQueue._heap, as the set of its entries
  todo,     \* appends the operation holding the lock has still to make
  mode,     \* "down", "loaded" (index built), "recovering", "up"
  crashes,  \* process deaths so far (bound only)
  faults,   \* history: appends that have raised
  delivered \* history: how often a claim has handed out each piece of work

vars == <<log, torn, ops, items, pending, heap, todo, mode, crashes, faults, delivered>>

-----------------------------------------------------------------------------
(* Events                                                                  *)

\* One line of events.jsonl; only enqueue lines carry the item.
Reasons == {"", "interrupted_redelivery", "replaced", "continuous_disabled",
            "open_moment_failed"}
Event == [id : Ids, op : Ops \ {"none"}, item : Item \cup {NoItem}, reason : Reasons]

EnqueueEvents == {e \in Event : e.op = "enqueue" /\ e.item # NoItem /\ e.reason = ""}

EnqueueEvent(i, item) == [id |-> i, op |-> "enqueue", item |-> item, reason |-> ""]
StatusEvent(i, op, r) == [id |-> i, op |-> op, item |-> NoItem, reason |-> r]

-----------------------------------------------------------------------------
(* fold_events / _apply_fold: what a readable log says about a wake        *)

\* Positions of i's events, and of its enqueue events.
EventsOf(l, i)   == {n \in DOMAIN l : l[n].id = i}
EnqueuesOf(l, i) == {n \in EventsOf(l, i) : l[n].op = "enqueue"}

Latest(S) == CHOOSE n \in S : \A m \in S : m <= n

\* The item comes from the last enqueue; a wake with status lines only (its
\* enqueue line was unreadable) is not loaded at all.
FoldItem(l, i) ==
  IF EnqueuesOf(l, i) = {} THEN NoItem ELSE l[Latest(EnqueuesOf(l, i))].item

FoldOp(l, i) ==
  IF EnqueuesOf(l, i) = {} THEN "none" ELSE l[Latest(EventsOf(l, i))].op

-----------------------------------------------------------------------------
(* Appending to the log and updating the index                             *)

\* _append_event when the write succeeds.  After a torn write the new line is
\* glued to the partial one: the reader skips both as one bad line.
AppendEvent(e) ==
  /\ log' = IF torn THEN log ELSE Append(log, e)
  /\ torn' = FALSE

\* _append_event when the write raises: nothing, or a partial line, is on disk.
AppendFails ==
  /\ faults < MaxFaults
  /\ faults' = faults + 1
  /\ torn' \in {torn, TRUE}
  /\ UNCHANGED log

\* The index updates of enqueue, and of mark_done / cancel.
IndexEnqueue(i, item) ==
  /\ ops' = [ops EXCEPT ![i] = "enqueue"]
  /\ items' = [items EXCEPT ![i] = item]
  /\ pending' = pending \cup {i}
  /\ heap' = heap \cup {HeapKey(i, item)}

IndexTerminalStillPending(i, op) == \* mutant: the id stays in _pending_ids
  /\ ops' = [ops EXCEPT ![i] = op]
  /\ UNCHANGED <<items, heap, pending>>

IndexTerminal(i, op) ==
  /\ ops' = [ops EXCEPT ![i] = op]
  /\ pending' = pending \ {i}
  /\ UNCHANGED <<items, heap>>

FreshOrFinished(i) == ops[i] \in {"none"} \cup TerminalOps  \* mutant: ids are reused

\* A new uuid4: neither indexed nor on disk (no caller passes an old id).
Fresh(i) == ops[i] = "none" /\ EventsOf(log, i) = {}

\* Nobody holds the lock.  Other threads may enqueue as soon as the index is
\* built; the worker claims once its startup recovery is over.
Idle     == [cancel |-> {}, reason |-> "", enqueue |-> {}]
Unlocked == mode \in {"loaded", "up"} /\ todo = Idle
Running  == mode = "up" /\ todo = Idle

-----------------------------------------------------------------------------
(* Operations of one append                                                *)

\* enqueue: the caller's payload is new (a message, a timer firing, ...).
Enqueue(i, item) ==
  /\ Unlocked
  /\ Fresh(i)
  /\ item.kind # "task_ready"
  /\ \A j \in Ids : \A known \in {items[j], FoldItem(log, j)} \ {NoItem} :
       <<known.kind, known.work>> # <<item.kind, item.work>>
  /\ AppendEvent(EnqueueEvent(i, item))
  /\ IndexEnqueue(i, item)
  /\ UNCHANGED <<todo, mode, crashes, faults, delivered>>

\* Heap entries _pop_pending accepts; the others are stale and are skipped.
Poppable ==
  {k \in heap : k[3] \in pending /\ items[k[3]] # NoItem /\ ops[k[3]] = "enqueue"}

BestBand == {k \in Poppable : \A l \in Poppable : k[1] <= l[1]}  \* mutant: band only

\* The best one (there is one as soon as one entry is poppable).
Best == {k \in Poppable : \A l \in Poppable : l = k \/ Before(k, l)}

\* _pop_pending: every entry up to and including the best poppable one leaves
\* the heap, and its id leaves the pending set.
Pop(k) ==
  /\ heap' = {l \in heap : Before(k, l)}
  /\ pending' = pending \ {l[3] : l \in heap \ {m \in heap : Before(k, m)}}

\* The single worker has no wake in flight, unless a failed append left one.
MayClaimAgain == Running  \* mutant: the worker claims while a wake is in flight

MayClaim == Running /\ (faults > 0 \/ \A i \in Ids : ops[i] # "claimed")

\* claim with something pending.
Claim ==
  /\ MayClaim
  /\ \E k \in Best :
       /\ Pop(k)
       /\ AppendEvent(StatusEvent(k[3], "claimed", ""))
       /\ ops' = [ops EXCEPT ![k[3]] = "claimed"]
       /\ delivered' = [delivered EXCEPT ![<<items[k[3]].kind, items[k[3]].work>>] = @ + 1]
  /\ UNCHANGED <<items, todo, mode, crashes, faults>>

\* claim returns None; popping has removed the stale entries.
ClaimNothing ==
  /\ MayClaim
  /\ Poppable = {}
  /\ heap # {}
  /\ heap' = {}
  /\ pending' = pending \ {k[3] : k \in heap}
  /\ UNCHANGED <<log, torn, ops, items, todo, mode, crashes, faults, delivered>>

\* claim whose append raises: the wake was already popped.
ClaimFails ==
  /\ MayClaim
  /\ \E k \in Best : Pop(k)
  /\ AppendFails
  /\ UNCHANGED <<ops, items, todo, mode, crashes, delivered>>

\* mark_done: the worker finishes the wake it claimed.
MarkDone(i) ==
  /\ Running
  /\ ops[i] = "claimed"
  /\ AppendEvent(StatusEvent(i, "done", ""))
  /\ IndexTerminal(i, "done")
  /\ UNCHANGED <<todo, mode, crashes, faults, delivered>>

\* cancel of a claimed wake whose moment could not be opened.
Cancel(i) ==
  /\ Running
  /\ ops[i] = "claimed"
  /\ AppendEvent(StatusEvent(i, "cancelled", "open_moment_failed"))
  /\ IndexTerminal(i, "cancelled")
  /\ UNCHANGED <<todo, mode, crashes, faults, delivered>>

\* enqueue, mark_done or cancel whose append raises: the index is not touched.  (If
\* the append wrote nothing either, the call never was.)
OperationFails ==
  /\ Unlocked
  /\ AppendFails
  /\ torn' # torn
  /\ UNCHANGED <<ops, items, pending, heap, todo, mode, crashes, delivered>>

-----------------------------------------------------------------------------
(* Operations of several appends, one at a time under the lock             *)

\* What is left of such an operation: the wakes to cancel, then at most one
\* wake to enqueue.
Todo(S, reason, E) == [cancel |-> S, reason |-> reason, enqueue |-> E]

\* pending_task_ready(task): enqueue-state task_ready wakes of the task.
PendingTaskReady(w) ==
  {i \in pending : /\ items[i] # NoItem
                   /\ items[i].kind = "task_ready"
                   /\ ops[i] = "enqueue"
                   /\ items[i].work = w}

\* enqueue_task_ready: replace the task's pending wakes, then enqueue.
EnqueueTaskReady(i, item) ==
  /\ Unlocked
  /\ item.kind = "task_ready"
  /\ Fresh(i)
  /\ todo' = Todo(PendingTaskReady(item.work), "replaced", {EnqueueEvent(i, item)})
  /\ UNCHANGED <<log, torn, ops, items, pending, heap, mode, crashes, faults, delivered>>

\* cancel_all_pending_of_kind (continuous work switched off).
CancelAllPendingOfKind(kind) ==
  LET targets == {i \in pending : /\ items[i] # NoItem
                                  /\ items[i].kind = kind
                                  /\ ops[i] = "enqueue"}
  IN
  /\ Unlocked
  /\ targets # {}
  /\ todo' = Todo(targets, "continuous_disabled", {})
  /\ UNCHANGED <<log, torn, ops, items, pending, heap, mode, crashes, faults, delivered>>

\* recover_claimed takes the lock ...
RecoverClaimed ==
  /\ mode = "loaded"
  /\ todo = Idle
  /\ mode' = "recovering"
  /\ UNCHANGED <<log, torn, ops, items, pending, heap, todo, crashes, faults, delivered>>

RecoverOneCancelOnly(i, clone, at) ==  \* mutant: the durable clone is forgotten
  /\ mode = "recovering"
  /\ todo = Idle
  /\ ops[i] = "claimed"
  /\ todo' = Todo({i}, "interrupted_redelivery", {})
  /\ UNCHANGED <<log, torn, ops, items, pending, heap, mode, crashes, faults, delivered>>

\* ... cancels each claimed wake in turn, and enqueues a durable one again
\* under a new id with the same payload ...
RecoverOne(i, clone, at) ==
  /\ mode = "recovering"
  /\ todo = Idle
  /\ ops[i] = "claimed"
  /\ Fresh(clone)
  /\ todo' = Todo({i}, "interrupted_redelivery",
                  IF items[i].kind \in ReEnqueueOnRecover
                    THEN {EnqueueEvent(clone, [items[i] EXCEPT !.at = at])}
                    ELSE {})
  /\ UNCHANGED <<log, torn, ops, items, pending, heap, mode, crashes, faults, delivered>>

\* ... and is done; the worker starts polling.
Recovered ==
  /\ mode = "recovering"
  /\ todo = Idle
  /\ \A i \in Ids : ops[i] # "claimed"
  /\ mode' = "up"
  /\ UNCHANGED <<log, torn, ops, items, pending, heap, todo, crashes, faults, delivered>>

\* One cancel of the operation (in set order, so in any order) ...
CancelStep(i) ==
  /\ mode # "down"
  /\ i \in todo.cancel
  /\ AppendEvent(StatusEvent(i, "cancelled", todo.reason))
  /\ IndexTerminal(i, "cancelled")
  /\ todo' = IF todo.cancel = {i} /\ todo.enqueue = {} THEN Idle
             ELSE [todo EXCEPT !.cancel = @ \ {i}]
  /\ UNCHANGED <<mode, crashes, faults, delivered>>

\* ... and, after the last one, its enqueue.
EnqueueStep ==
  /\ mode # "down"
  /\ todo.cancel = {}
  /\ \E e \in todo.enqueue : AppendEvent(e) /\ IndexEnqueue(e.id, e.item)
  /\ todo' = Idle
  /\ UNCHANGED <<mode, crashes, faults, delivered>>

\* One of these appends raises: the rest of the operation is abandoned.  (In
\* recover_claimed it ends the worker thread, which is Crash while recovering.)
StepFails ==
  /\ mode \in {"loaded", "up"}
  /\ todo # Idle
  /\ AppendFails
  /\ todo' = Idle
  /\ UNCHANGED <<ops, items, pending, heap, mode, crashes, delivered>>

\* reset_empty: truncate the log and fold to nothing.
ResetEmpty ==
  /\ Running
  /\ log # <<>>
  /\ log' = <<>>
  /\ torn' = FALSE
  /\ ops' = [i \in Ids |-> "none"]
  /\ items' = [i \in Ids |-> NoItem]
  /\ pending' = {}
  /\ heap' = {}
  /\ delivered' = [w \in KnownKinds \X Works |-> 0]
  /\ UNCHANGED <<todo, mode, crashes, faults>>

-----------------------------------------------------------------------------
(* Process death and restart                                               *)

\* The index and the operation in progress are lost; the log stays.
Crash ==
  /\ mode # "down"
  /\ crashes < MaxCrashes
  /\ mode = "recovering" => CrashInRecovery
  /\ crashes' = crashes + 1
  /\ mode' = "down"
  /\ todo' = Idle
  /\ ops' = [i \in Ids |-> "none"]
  /\ items' = [i \in Ids |-> NoItem]
  /\ pending' = {}
  /\ heap' = {}
  /\ UNCHANGED <<log, torn, faults, delivered>>

\* __init__ -> _load: rebuild the index from the readable events.
Load ==
  /\ mode = "down"
  /\ mode' = "loaded"
  /\ ops' = [i \in Ids |-> FoldOp(log, i)]
  /\ items' = [i \in Ids |-> FoldItem(log, i)]
  /\ pending' = {i \in Ids : FoldOp(log, i) = "enqueue"}
  /\ heap' = {HeapKey(i, FoldItem(log, i)) : i \in {j \in Ids : FoldOp(log, j) = "enqueue"}}
  /\ UNCHANGED <<log, torn, todo, crashes, faults, delivered>>

Init ==
  /\ log = <<>>
  /\ torn = FALSE
  /\ ops = [i \in Ids |-> "none"]
  /\ items = [i \in Ids |-> NoItem]
  /\ pending = {}
  /\ heap = {}
  /\ todo = Idle
  /\ mode = "up"
  /\ crashes = 0
  /\ faults = 0
  /\ delivered = [w \in KnownKinds \X Works |-> 0]

Next ==
  \/ \E i \in Ids, kind \in Kinds, w \in Works, at \in Times :
       LET item == [kind |-> kind, work |-> w, at |-> at] IN
       \/ Enqueue(i, item)
       \/ EnqueueTaskReady(i, item)
  \/ \E i \in Ids : MarkDone(i) \/ Cancel(i)
  \/ CancelAllPendingOfKind("moment_continue")
  \/ Claim \/ ClaimNothing \/ ClaimFails \/ OperationFails
  \/ RecoverClaimed \/ Recovered \/ EnqueueStep \/ StepFails
  \/ \E i \in Ids : CancelStep(i)
  \/ \E i, clone \in Ids, at \in Times : RecoverOne(i, clone, at)
  \/ ResetEmpty \/ Crash \/ Load

Spec == Init /\ [][Next]_vars

-----------------------------------------------------------------------------
(* Properties                                                              *)

\* Every variable keeps its type.
TypeOK ==
  /\ log \in Seq(Event)
  /\ torn \in BOOLEAN
  /\ ops \in [Ids -> Ops]
  /\ items \in [Ids -> Item \cup {NoItem}]
  /\ pending \in SUBSET Ids
  /\ heap \in SUBSET {HeapKey(i, item) : i \in Ids, item \in Item}
  /\ todo \in [cancel : SUBSET Ids, reason : Reasons, enqueue : SUBSET EnqueueEvents]
  /\ mode \in {"down", "loaded", "recovering", "up"}
  /\ crashes \in 0 .. MaxCrashes
  /\ faults \in 0 .. MaxFaults
  /\ delivered \in [KnownKinds \X Works -> Nat]

\* The heap never loses a pending wake: each id that pending() lists has its
\* entry in the heap that claim pops (stale entries of other ids may remain).
PendingIsQueued ==
  \A i \in pending : items[i] # NoItem /\ HeapKey(i, items[i]) \in heap

\* While no append has failed, the index the running process keeps by hand
\* (enqueue, claim, mark_done, cancel) is exactly what a restart would rebuild
\* with _apply_fold(fold_events(...)), after every single append.
MemoryMatchesLog ==
  mode # "down" /\ faults = 0 =>
    /\ \A i \in Ids : ops[i] = FoldOp(log, i) /\ items[i] = FoldItem(log, i)
    /\ pending = {i \in Ids : ops[i] = "enqueue"}

\* What makes the above inductive: ops and items know the same wakes, a pending
\* wake is in enqueue state, a heap entry is the key of its wake's item ...
IndexInv ==
  /\ \A i \in Ids : ops[i] = "none" <=> items[i] = NoItem
  /\ \A i \in pending : ops[i] = "enqueue"
  /\ PendingIsQueued
  /\ \A k \in heap : items[k[3]] # NoItem /\ k = HeapKey(k[3], items[k[3]])

\* ... and an operation in progress cancels open wakes and enqueues a new one.
TodoInv ==
  /\ mode = "down" => todo = Idle
  /\ \A i \in todo.cancel : ops[i] \in {"enqueue", "claimed"}
  /\ \A e \in todo.enqueue : ops[e.id] = "none"

\* S has a greatest element, unless it is empty.
Bounded(S) == S # {} => \E n \in S : \A m \in S : m <= n

\* What the fold needs of the log: an enqueue line carries its item, and every
\* wake on it has a last event and a last enqueue; without failed appends the
\* file never ends in a partial line.
LogInv ==
  /\ \A n \in DOMAIN log : log[n].op = "enqueue" => log[n].item # NoItem
  /\ \A i \in Ids : Bounded(EventsOf(log, i)) /\ Bounded(EnqueuesOf(log, i))
  /\ faults = 0 => torn = FALSE

\* The ids a step claims.
ClaimedBy(i) == ops[i] = "enqueue" /\ ops'[i] = "claimed"

\* claim hands out the least (band, created_at, id) of all pending wakes, in
\* spite of the stale entries cancelled wakes leave in the heap.
ClaimTakesBest ==
  [][\A i, j \in Ids :
       ClaimedBy(i) /\ j \in pending /\ j # i =>
         Before(HeapKey(i, items[i]), HeapKey(j, items[j]))]_vars

\* A wake that is done or cancelled on disk is never claimable again, whatever
\* crashes and recoveries follow; only a full reset forgets it.
TerminalIsFinal ==
  [][log' # <<>> => \A i \in Ids : FoldOp(log, i) \in TerminalOps =>
       FoldOp(log', i) = FoldOp(log, i)]_vars

\* "at-most-once social content": a user message or a wait's answer is handed
\* to at most one moment, crashes and recoveries included.
SocialAtMostOnce ==
  faults = 0 => \A kind \in {"user_message", "wait_reply", "wait_timeout"}, w \in Works :
    delivered[<<kind, w>>] <= 1

\* "at-least-once for timers/task_ready": once recovery is over, a durable wake
\* that was cancelled because its moment was interrupted has been enqueued
\* again under another id with the same payload.
DurableRedelivered ==
  mode = "up" /\ faults = 0 =>
    \A n \in DOMAIN log :
      LET item == FoldItem(log, log[n].id) IN
      /\ log[n].reason = "interrupted_redelivery"
      /\ item # NoItem
      /\ item.kind \in {"timer", "task_ready", "moment_continue"}
      => \E m \in DOMAIN log :
           /\ m > n
           /\ log[m].op = "enqueue"
           /\ log[m].item.kind = item.kind
           /\ log[m].item.work = item.work

\* The queue with its log, index, heap and restarts implements the ledger: the
\* status of a wake is what the log says of it.  An append that raises ends the
\* promise: to the ledger, all is forgotten then.
StatusOf == [i \in Ids |-> IF faults = 0 THEN FoldOp(log, i) ELSE "none"]
ItemOf   == [i \in Ids |-> IF faults = 0 THEN FoldItem(log, i) ELSE NoItem]

Ledger == INSTANCE WakeLedger WITH status <- StatusOf, item <- ItemOf

ImplementsLedger == Ledger!Spec

\* The wakes of task w that are not finished.
OpenTaskReady(w) ==
  {i \in Ids : ops[i] \in {"enqueue", "claimed"} /\ items[i].kind = "task_ready"
               /\ items[i].work = w}

\* Ready signals for a busy task do not pile up: however often the task is
\* reported ready and whatever crashes, at most two of its wakes are open (one
\* in flight and one waiting, or the redelivered one and one waiting).
TaskReadyBounded ==
  Unlocked /\ faults = 0 => \A w \in Works : Cardinality(OpenTaskReady(w)) <= 2

\* The index is true to the log, whatever was appended, claimed or recovered and
\* whenever the process died: it has its types, everything pending can be popped,
\* and what memory knows of a wake is the fold of its log lines.
IndexIsTrue == TypeOK /\ PendingIsQueued /\ MemoryMatchesLog

\* "Delivery: at-least-once for timers/task_ready; at-most-once social content":
\* through deaths and recoveries no user's wake is claimed twice, no durable wake
\* is lost, and the wakes of one task do not pile up.
DeliveryAsPromised == SocialAtMostOnce /\ DurableRedelivered /\ TaskReadyBounded
=============================================================================
