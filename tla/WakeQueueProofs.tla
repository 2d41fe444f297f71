-------------------------- MODULE WakeQueueProofs --------------------------
(***************************************************************************)
(* The index of the wake queue is correct, the queue implements the        *)
(* ledger, a finished wake stays finished, and the delivery guarantees     *)
(* hold, for any ids, kinds, payloads, clock values and number of deaths.  *)
(***************************************************************************)
EXTENDS WakeQueue, FiniteSetTheorems, TLAPS

Inv == TypeOK /\ IndexInv /\ TodoInv /\ LogInv /\ MemoryMatchesLog

\* The part of TypeOK about the log and the index.
IndexType ==
  /\ log \in Seq(Event)
  /\ torn \in BOOLEAN
  /\ ops \in [Ids -> Ops]
  /\ items \in [Ids -> Item \cup {NoItem}]
  /\ pending \in SUBSET Ids
  /\ heap \in SUBSET {HeapKey(i, item) : i \in Ids, item \in Item}

-----------------------------------------------------------------------------
(* Latest, and the fold of a log that grew by one event                    *)

\* Latest picks the greatest element of a set of positions.
LEMMA LatestIsGreatest ==
  ASSUME NEW S \in SUBSET Nat, NEW n \in S, \A m \in S : m <= n
  PROVE  Latest(S) = n
<1>1. \A k \in S : (\A m \in S : m <= k) => k = n
  OBVIOUS
<1> QED
  BY <1>1 DEF Latest

\* A bounded non-empty set of positions contains its Latest.
LEMMA LatestInSet ==
  ASSUME NEW S \in SUBSET Nat, S # {}, Bounded(S)
  PROVE  Latest(S) \in S
<1>1. PICK n \in S : \A m \in S : m <= n
  BY DEF Bounded
<1> QED
  BY <1>1, LatestIsGreatest

\* Appending e adds one position to the events of e's wake, and no other.
LEMMA AppendPositions ==
  ASSUME NEW l \in Seq(Event), NEW e \in Event, NEW i \in Ids
  PROVE  /\ EventsOf(l, i) \in SUBSET Nat
         /\ EnqueuesOf(l, i) \in SUBSET Nat
         /\ \A n \in EventsOf(l, i) : n <= Len(l)
         /\ EventsOf(Append(l, e), i) =
              IF e.id = i THEN EventsOf(l, i) \cup {Len(l) + 1} ELSE EventsOf(l, i)
         /\ EnqueuesOf(Append(l, e), i) =
              IF e.id = i /\ e.op = "enqueue"
                THEN EnqueuesOf(l, i) \cup {Len(l) + 1} ELSE EnqueuesOf(l, i)
<1>1. /\ DOMAIN Append(l, e) = DOMAIN l \cup {Len(l) + 1}
      /\ \A n \in DOMAIN l : n \in Nat /\ n <= Len(l) /\ Append(l, e)[n] = l[n]
      /\ Append(l, e)[Len(l) + 1] = e
      /\ Len(l) \in Nat /\ Len(l) + 1 \notin DOMAIN l
  OBVIOUS
<1>2. EventsOf(Append(l, e), i) =
        IF e.id = i THEN EventsOf(l, i) \cup {Len(l) + 1} ELSE EventsOf(l, i)
  BY <1>1 DEF EventsOf
<1>3. EnqueuesOf(Append(l, e), i) =
        IF e.id = i /\ e.op = "enqueue"
          THEN EnqueuesOf(l, i) \cup {Len(l) + 1} ELSE EnqueuesOf(l, i)
  BY <1>1, <1>2 DEF EnqueuesOf, EventsOf
<1> QED
  BY <1>1, <1>2, <1>3 DEF EventsOf, EnqueuesOf

\* After an append both sets of positions still have a greatest element.
LEMMA AppendBounded ==
  ASSUME NEW l \in Seq(Event), NEW e \in Event, NEW i \in Ids,
         Bounded(EventsOf(l, i)), Bounded(EnqueuesOf(l, i))
  PROVE  /\ Bounded(EventsOf(Append(l, e), i))
         /\ Bounded(EnqueuesOf(Append(l, e), i))
<1>1. Len(l) \in Nat
  OBVIOUS
<1>2. EnqueuesOf(l, i) \subseteq EventsOf(l, i)
  BY DEF EnqueuesOf
<1>3. ASSUME NEW S \in SUBSET Nat, \A m \in S : m <= Len(l)
      PROVE  Bounded(S \cup {Len(l) + 1})
  BY <1>1, <1>3 DEF Bounded
<1>4. Bounded(EventsOf(Append(l, e), i))
  BY <1>3, AppendPositions
<1>5. Bounded(EnqueuesOf(Append(l, e), i))
  BY <1>2, <1>3, AppendPositions
<1> QED
  BY <1>4, <1>5

\* The fold after an append: the event's own wake takes the event's op (if the
\* wake is known) and, for an enqueue, the event's item; other wakes keep both.
LEMMA FoldAppend ==
  ASSUME NEW l \in Seq(Event), NEW e \in Event, NEW i \in Ids,
         Bounded(EventsOf(l, i)), Bounded(EnqueuesOf(l, i))
  PROVE  /\ e.id # i => /\ FoldOp(Append(l, e), i) = FoldOp(l, i)
                        /\ FoldItem(Append(l, e), i) = FoldItem(l, i)
         /\ e.id = i /\ e.op = "enqueue" =>
              /\ FoldOp(Append(l, e), i) = "enqueue"
              /\ FoldItem(Append(l, e), i) = e.item
         /\ e.id = i /\ e.op # "enqueue" =>
              /\ FoldOp(Append(l, e), i) = IF EnqueuesOf(l, i) = {} THEN "none" ELSE e.op
              /\ FoldItem(Append(l, e), i) = FoldItem(l, i)
<1> DEFINE a == Append(l, e)
<1>1. /\ Len(l) \in Nat
      /\ a[Len(l) + 1] = e
      /\ \A n \in EventsOf(l, i) : a[n] = l[n]
  BY DEF EventsOf
<1>2. EnqueuesOf(l, i) \subseteq EventsOf(l, i)
  BY DEF EnqueuesOf
<1>3. CASE e.id # i
  <2>1. EventsOf(a, i) = EventsOf(l, i) /\ EnqueuesOf(a, i) = EnqueuesOf(l, i)
    BY <1>3, AppendPositions
  <2>2. EventsOf(l, i) # {} => Latest(EventsOf(l, i)) \in EventsOf(l, i)
    BY LatestInSet, AppendPositions
  <2>3. EnqueuesOf(l, i) # {} => Latest(EnqueuesOf(l, i)) \in EnqueuesOf(l, i)
    BY LatestInSet, AppendPositions
  <2> QED
    BY <1>1, <1>2, <1>3, <2>1, <2>2, <2>3 DEF FoldOp, FoldItem
<1>4. CASE e.id = i
  <2>1. Latest(EventsOf(a, i)) = Len(l) + 1
    <3>1. EventsOf(a, i) = EventsOf(l, i) \cup {Len(l) + 1}
      BY <1>4, AppendPositions
    <3>2. EventsOf(a, i) \in SUBSET Nat /\ \A m \in EventsOf(a, i) : m <= Len(l) + 1
      BY <1>1, <3>1, AppendPositions
    <3> QED
      BY <3>1, <3>2, LatestIsGreatest
  <2>2. CASE e.op = "enqueue"
    <3>1. EnqueuesOf(a, i) = EnqueuesOf(l, i) \cup {Len(l) + 1}
      BY <1>4, <2>2, AppendPositions
    <3>2. EnqueuesOf(a, i) \in SUBSET Nat /\ \A m \in EnqueuesOf(a, i) : m <= Len(l) + 1
      BY <1>1, <1>2, <3>1, AppendPositions
    <3>3. Latest(EnqueuesOf(a, i)) = Len(l) + 1
      BY <3>1, <3>2, LatestIsGreatest
    <3> QED
      BY <1>1, <1>4, <2>1, <2>2, <3>1, <3>3 DEF FoldOp, FoldItem
  <2>3. CASE e.op # "enqueue"
    <3>1. EnqueuesOf(a, i) = EnqueuesOf(l, i)
      BY <2>3, AppendPositions
    <3>2. EnqueuesOf(l, i) # {} => Latest(EnqueuesOf(l, i)) \in EnqueuesOf(l, i)
      BY LatestInSet, AppendPositions
    <3> QED
      BY <1>1, <1>2, <1>4, <2>1, <2>3, <3>1, <3>2 DEF FoldOp, FoldItem
  <2> QED
    BY <2>2, <2>3
<1> QED
  BY <1>3, <1>4

-----------------------------------------------------------------------------
(* The log and the fold                                                    *)

\* The fold of a well-formed log has the type of the index, and it knows the
\* op of a wake exactly when it knows its item.
LEMMA FoldType ==
  ASSUME TypeOK, LogInv, NEW i \in Ids
  PROVE  /\ FoldOp(log, i) \in Ops
         /\ FoldItem(log, i) \in Item \cup {NoItem}
         /\ FoldOp(log, i) = "none" <=> FoldItem(log, i) = NoItem
<1>1. log \in Seq(Event) /\ Bounded(EventsOf(log, i)) /\ Bounded(EnqueuesOf(log, i))
  BY DEF TypeOK, LogInv
<1>2. EventsOf(log, i) \in SUBSET Nat /\ EnqueuesOf(log, i) \in SUBSET Nat
  BY <1>1 DEF EventsOf, EnqueuesOf
<1>3. CASE EnqueuesOf(log, i) = {}
  BY <1>3 DEF FoldOp, FoldItem, Ops
<1>4. CASE EnqueuesOf(log, i) # {}
  <2>1. Latest(EnqueuesOf(log, i)) \in EnqueuesOf(log, i)
    BY <1>1, <1>2, <1>4, LatestInSet
  <2>2. Latest(EventsOf(log, i)) \in EventsOf(log, i)
    BY <1>1, <1>2, <1>4, LatestInSet DEF EnqueuesOf
  <2>3. /\ log[Latest(EnqueuesOf(log, i))] \in Event
        /\ log[Latest(EnqueuesOf(log, i))].op = "enqueue"
        /\ log[Latest(EnqueuesOf(log, i))].item # NoItem
        /\ log[Latest(EventsOf(log, i))] \in Event
    BY <1>1, <2>1, <2>2 DEF EnqueuesOf, EventsOf, LogInv
  <2> QED
    BY <1>4, <2>3 DEF FoldOp, FoldItem, Event, Ops
<1> QED
  BY <1>3, <1>4

\* An append keeps the log well formed, and never leaves a partial line.
LEMMA AppendKeepsLog ==
  ASSUME TypeOK, LogInv, NEW e \in Event, AppendEvent(e),
         e.op = "enqueue" => e.item # NoItem
  PROVE  log' \in Seq(Event) /\ torn' \in BOOLEAN /\ LogInv'
<1>1. CASE torn
  <2>1. log' = log /\ torn' = FALSE
    BY <1>1 DEF AppendEvent
  <2>2. LogInv'
    BY <2>1 DEF LogInv
  <2>3. log' \in Seq(Event)
    BY <2>1 DEF TypeOK
  <2> QED
    BY <2>1, <2>2, <2>3
<1>2. CASE ~torn
  <2>1. log' = Append(log, e) /\ torn' = FALSE /\ log' \in Seq(Event)
    BY <1>2 DEF AppendEvent, TypeOK
  <2>2. \A n \in DOMAIN log' : log'[n].op = "enqueue" => log'[n].item # NoItem
    BY <2>1 DEF LogInv, TypeOK
  <2>3. \A i \in Ids : Bounded(EventsOf(log', i)) /\ Bounded(EnqueuesOf(log', i))
    BY <2>1, AppendBounded DEF LogInv, TypeOK
  <2> QED
    BY <2>1, <2>2, <2>3 DEF LogInv
<1> QED
  BY <1>1, <1>2 DEF TypeOK

\* What an append does to the fold, when no append ever fails.
LEMMA AppendFolds ==
  ASSUME TypeOK, LogInv, faults = 0, NEW e \in Event, AppendEvent(e), NEW i \in Ids
  PROVE  /\ e.id # i => /\ FoldOp(log', i) = FoldOp(log, i)
                        /\ FoldItem(log', i) = FoldItem(log, i)
         /\ e.id = i /\ e.op = "enqueue" =>
              FoldOp(log', i) = "enqueue" /\ FoldItem(log', i) = e.item
         /\ e.id = i /\ e.op # "enqueue" /\ FoldOp(log, i) # "none" =>
              FoldOp(log', i) = e.op /\ FoldItem(log', i) = FoldItem(log, i)
<1>1. log' = Append(log, e)
  BY DEF AppendEvent, LogInv
<1>2. FoldOp(log, i) # "none" => EnqueuesOf(log, i) # {}
  BY DEF FoldOp
<1> QED
  BY <1>1, <1>2, FoldAppend DEF TypeOK, LogInv

-----------------------------------------------------------------------------
(* The initial state                                                       *)

LEMMA InitInv == Init => Inv
<1> SUFFICES ASSUME Init PROVE Inv
  OBVIOUS
<1>1. \A i \in Ids : EventsOf(log, i) = {} /\ EnqueuesOf(log, i) = {}
  <2>1. log = <<>>
    BY DEF Init
  <2>2. DOMAIN log = {}
    BY <2>1
  <2>3. \A i \in Ids : EventsOf(log, i) = {}
    BY <2>2 DEF EventsOf
  <2> QED
    BY <2>3 DEF EnqueuesOf
<1>2. TypeOK
  <2>1. log \in Seq(Event) /\ pending \in SUBSET Ids
    BY DEF Init
  <2>7. torn \in BOOLEAN
    BY DEF Init
  <2>2. ops \in [Ids -> Ops] /\ items \in [Ids -> Item \cup {NoItem}]
    BY DEF Init, Ops
  <2>3. todo \in [cancel : SUBSET Ids, reason : Reasons, enqueue : SUBSET EnqueueEvents]
    BY DEF Init, Idle, Reasons
  <2>4. heap \in SUBSET {HeapKey(i, item) : i \in Ids, item \in Item}
    BY DEF Init
  <2>5. crashes \in 0 .. MaxCrashes /\ faults \in 0 .. MaxFaults
      /\ mode \in {"down", "loaded", "recovering", "up"}
    BY ConstantsOK DEF Init
  <2>6. delivered \in [KnownKinds \X Works -> Nat]
    BY DEF Init
  <2> QED
    BY <2>1, <2>2, <2>3, <2>4, <2>5, <2>6, <2>7 DEF TypeOK
<1>3. IndexInv /\ TodoInv
  BY DEF Init, IndexInv, TodoInv, PendingIsQueued, Idle
<1>4. LogInv
  BY <1>1 DEF Init, LogInv, Bounded
<1>5. MemoryMatchesLog
  BY <1>1 DEF Init, MemoryMatchesLog, FoldOp, FoldItem
<1> QED
  BY <1>2, <1>3, <1>4, <1>5 DEF Inv

-----------------------------------------------------------------------------
(* The two index updates                                                   *)

\* enqueue writes a well-formed enqueue line.
LEMMA EnqueueEventType ==
  ASSUME NEW i \in Ids, NEW item \in Item
  PROVE  /\ EnqueueEvent(i, item) \in EnqueueEvents
         /\ EnqueueEvent(i, item).id = i
         /\ EnqueueEvent(i, item).item = item
<1>1. item # NoItem
  BY DEF Item, NoItem, KnownKinds, Priority
<1> QED
  BY <1>1 DEF EnqueueEvent, EnqueueEvents, Event, Ops, Reasons

\* Appending and indexing an enqueue of an unknown wake.
LEMMA EnqueueUpdate ==
  ASSUME Inv, NEW e \in EnqueueEvents, ops[e.id] = "none",
         AppendEvent(e), IndexEnqueue(e.id, e.item),
         mode # "down", mode' = mode, faults' = faults
  PROVE  IndexType' /\ IndexInv' /\ LogInv' /\ MemoryMatchesLog'
<1>0. TypeOK /\ IndexInv /\ LogInv /\ MemoryMatchesLog
  BY DEF Inv
<1>1. e \in Event /\ e.op = "enqueue"
  BY DEF EnqueueEvents
<1>b. PICK i \in Ids, item \in Item :
        i = e.id /\ item = e.item /\ item # NoItem
  BY DEF EnqueueEvents, Event
<1>2. /\ item # NoItem /\ e.id = i /\ e.item = item
      /\ ops[i] = "none" /\ IndexEnqueue(i, item)
  BY <1>b
<1>3. log' \in Seq(Event) /\ torn' \in BOOLEAN /\ LogInv'
  BY <1>0, <1>1, <1>2, AppendKeepsLog
<1>4. /\ ops' \in [Ids -> Ops] /\ items' \in [Ids -> Item \cup {NoItem}]
      /\ pending' \in SUBSET Ids
      /\ heap' \in SUBSET {HeapKey(j, it) : j \in Ids, it \in Item}
  BY <1>0, <1>2 DEF TypeOK, IndexEnqueue, Ops
<1>5. /\ \A j \in Ids : ops'[j] = IF j = i THEN "enqueue" ELSE ops[j]
      /\ \A j \in Ids : items'[j] = IF j = i THEN item ELSE items[j]
      /\ pending' = pending \cup {i} /\ heap' = heap \cup {HeapKey(i, item)}
  BY <1>0, <1>2 DEF TypeOK, IndexEnqueue
<1>6. IndexInv'
  <2>1. \A k \in heap : k[3] # i /\ k[3] \in Ids
    BY <1>0, <1>2 DEF IndexInv, TypeOK, HeapKey
  <2>2. HeapKey(i, item)[3] = i
    BY DEF HeapKey
  <2>3. \A j \in Ids : ops'[j] = "none" <=> items'[j] = NoItem
    BY <1>0, <1>2, <1>5 DEF IndexInv
  <2>4. \A j \in pending' : ops'[j] = "enqueue"
    BY <1>0, <1>5 DEF IndexInv, TypeOK
  <2>5. PendingIsQueued'
    BY <1>0, <1>2, <1>5 DEF IndexInv, PendingIsQueued, TypeOK
  <2>6. \A k \in heap' : items'[k[3]] # NoItem /\ k = HeapKey(k[3], items'[k[3]])
    BY <1>0, <1>2, <1>5, <2>1, <2>2 DEF IndexInv
  <2> QED
    BY <2>3, <2>4, <2>5, <2>6 DEF IndexInv
<1>7. MemoryMatchesLog'
  <2> SUFFICES ASSUME faults = 0 PROVE MemoryMatchesLog'
    BY DEF MemoryMatchesLog
  <2>1. \A j \in Ids : ops[j] = FoldOp(log, j) /\ items[j] = FoldItem(log, j)
    BY <1>0 DEF MemoryMatchesLog
  <2>2. \A j \in Ids : ops'[j] = FoldOp(log', j) /\ items'[j] = FoldItem(log', j)
    BY <1>0, <1>1, <1>2, <1>5, <2>1, AppendFolds
  <2>3. pending' = {j \in Ids : ops'[j] = "enqueue"}
    BY <1>0, <1>5 DEF MemoryMatchesLog
  <2> QED
    BY <2>2, <2>3 DEF MemoryMatchesLog
<1> QED
  BY <1>3, <1>4, <1>6, <1>7 DEF IndexType

\* Appending and indexing the end (done or cancelled) of a known wake.
LEMMA TerminalUpdate ==
  ASSUME Inv, NEW i \in Ids, NEW op \in TerminalOps, NEW r \in Reasons,
         ops[i] # "none",
         AppendEvent(StatusEvent(i, op, r)), IndexTerminal(i, op),
         mode # "down", mode' = mode, faults' = faults
  PROVE  IndexType' /\ IndexInv' /\ LogInv' /\ MemoryMatchesLog'
<1> DEFINE e == StatusEvent(i, op, r)
<1>0. TypeOK /\ IndexInv /\ LogInv /\ MemoryMatchesLog
  BY DEF Inv
<1>1. e \in Event /\ e.id = i /\ e.op = op /\ op \notin {"enqueue", "none"}
  BY DEF StatusEvent, Event, Ops, TerminalOps
<1>2. log' \in Seq(Event) /\ torn' \in BOOLEAN /\ LogInv'
  BY <1>0, <1>1, AppendKeepsLog
<1>3. /\ \A j \in Ids : ops'[j] = IF j = i THEN op ELSE ops[j]
      /\ items' = items /\ heap' = heap /\ pending' = pending \ {i}
      /\ ops' \in [Ids -> Ops]
  BY <1>0 DEF TypeOK, IndexTerminal, TerminalOps, Ops
<1>4. IndexInv'
  BY <1>0, <1>1, <1>3 DEF IndexInv, PendingIsQueued, TypeOK
<1>5. MemoryMatchesLog'
  <2> SUFFICES ASSUME faults = 0 PROVE MemoryMatchesLog'
    BY DEF MemoryMatchesLog
  <2>1. \A j \in Ids : ops[j] = FoldOp(log, j) /\ items[j] = FoldItem(log, j)
    BY <1>0 DEF MemoryMatchesLog
  <2>2. \A j \in Ids : ops'[j] = FoldOp(log', j) /\ items'[j] = FoldItem(log', j)
    BY <1>0, <1>1, <1>3, <2>1, AppendFolds
  <2>3. pending' = {j \in Ids : ops'[j] = "enqueue"}
    BY <1>0, <1>1, <1>3 DEF MemoryMatchesLog
  <2> QED
    BY <2>2, <2>3 DEF MemoryMatchesLog
<1> QED
  BY <1>0, <1>2, <1>3, <1>4, <1>5 DEF IndexType, TypeOK

-----------------------------------------------------------------------------
(* Every step                                                              *)

\* The rest of TypeOK: what is not the log or the index.
LEMMA TypeParts ==
  TypeOK <=> /\ IndexType
             /\ todo \in [cancel : SUBSET Ids, reason : Reasons,
                          enqueue : SUBSET EnqueueEvents]
             /\ mode \in {"down", "loaded", "recovering", "up"}
             /\ crashes \in 0 .. MaxCrashes
             /\ faults \in 0 .. MaxFaults
             /\ delivered \in [KnownKinds \X Works -> Nat]
  BY DEF TypeOK, IndexType

\* A heap entry whose wake is pending is poppable.
LEMMA PendingPoppable ==
  ASSUME Inv, NEW j \in pending
  PROVE  HeapKey(j, items[j]) \in Poppable /\ HeapKey(j, items[j])[3] = j
  BY DEF Inv, IndexInv, PendingIsQueued, Poppable, HeapKey

\* Popping the best entry takes exactly its own wake out of the pending set.
LEMMA PopTakesOne ==
  ASSUME Inv, NEW k \in Best, Pop(k)
  PROVE  /\ k[3] \in pending /\ ops[k[3]] = "enqueue" /\ items[k[3]] \in Item
         /\ pending' = pending \ {k[3]}
         /\ heap' \subseteq heap
         /\ \A j \in pending' : HeapKey(j, items[j]) \in heap'
<1>1. k \in heap /\ k[3] \in pending /\ ops[k[3]] = "enqueue" /\ items[k[3]] # NoItem
  BY DEF Best, Poppable
<1>2. items[k[3]] \in Item
  BY <1>1 DEF Inv, TypeOK
<1>3. ~Before(k, k)
  <2>1. PICK i \in Ids, item \in Item : k = HeapKey(i, item)
    BY <1>1 DEF Inv, TypeOK
  <2>2. item.kind \in KnownKinds /\ item.at \in Nat /\ i \in Int
    BY ItemsOK DEF Item
  <2>3. \A kind \in KnownKinds : Priority[kind] \in Int
    BY DEF KnownKinds, Priority
  <2>4. IsoRank(item.at) \in Int
    BY <2>2, ItemsOK DEF IsoRank
  <2>5. k[1] \in Int /\ k[2] \in Int /\ k[3] \in Int
    BY <2>1, <2>2, <2>3, <2>4 DEF HeapKey
  <2> QED
    BY <2>5 DEF Before
<1>4. \A l \in heap : ~Before(k, l) /\ l[3] \in pending => l[3] = k[3]
  <2> SUFFICES ASSUME NEW l \in heap, ~Before(k, l), l[3] \in pending
               PROVE  l[3] = k[3]
    OBVIOUS
  <2>1. l \in Poppable
    BY DEF Inv, IndexInv, PendingIsQueued, Poppable
  <2> QED
    BY <2>1 DEF Best
<1>5. pending' = pending \ {k[3]}
  BY <1>1, <1>3, <1>4 DEF Pop
<1>6. \A j \in pending' : HeapKey(j, items[j]) \in heap'
  <2> SUFFICES ASSUME NEW j \in pending' PROVE HeapKey(j, items[j]) \in heap'
    OBVIOUS
  <2>1. j \in pending /\ j # k[3]
    BY <1>5
  <2>2. HeapKey(j, items[j]) \in Poppable /\ HeapKey(j, items[j])[3] = j
    BY <2>1, PendingPoppable
  <2>3. Before(k, HeapKey(j, items[j]))
    BY <2>1, <2>2 DEF Best
  <2> QED
    BY <2>2, <2>3 DEF Pop, Poppable
<1> QED
  BY <1>1, <1>2, <1>5, <1>6 DEF Pop

\* claim keeps the invariant.
LEMMA ClaimInv == ASSUME Inv, Claim PROVE Inv'
<1>a. TypeOK /\ IndexInv /\ TodoInv /\ LogInv /\ MemoryMatchesLog
  BY DEF Inv
<1>1. PICK c \in Ids :
        /\ AppendEvent(StatusEvent(c, "claimed", ""))
        /\ ops' = [ops EXCEPT ![c] = "claimed"]
        /\ delivered' = [delivered EXCEPT ![<<items[c].kind, items[c].work>>] = @ + 1]
        /\ c \in pending /\ ops[c] = "enqueue" /\ items[c] \in Item
        /\ pending' = pending \ {c} /\ heap' \subseteq heap
        /\ \A j \in pending' : HeapKey(j, items[j]) \in heap'
  <2>1. PICK k \in Best :
          /\ Pop(k)
          /\ AppendEvent(StatusEvent(k[3], "claimed", ""))
          /\ ops' = [ops EXCEPT ![k[3]] = "claimed"]
          /\ delivered' = [delivered EXCEPT ![<<items[k[3]].kind, items[k[3]].work>>] = @ + 1]
    BY DEF Claim
  <2>2. /\ k[3] \in pending /\ ops[k[3]] = "enqueue" /\ items[k[3]] \in Item
        /\ pending' = pending \ {k[3]} /\ heap' \subseteq heap
        /\ \A j \in pending' : HeapKey(j, items[j]) \in heap'
    BY <2>1, PopTakesOne
  <2>3. k[3] \in Ids
    BY <1>a, <2>2 DEF TypeOK
  <2> QED
    BY <2>1, <2>2, <2>3
<1> DEFINE e == StatusEvent(c, "claimed", "")
<1>2. /\ c \in pending /\ ops[c] = "enqueue" /\ items[c] \in Item
      /\ pending' = pending \ {c} /\ heap' \subseteq heap
      /\ \A j \in pending' : HeapKey(j, items[j]) \in heap'
  BY <1>1
<1>3. TypeOK /\ IndexInv /\ TodoInv /\ LogInv /\ MemoryMatchesLog
  BY <1>a
<1>4. e \in Event /\ e.id = c /\ e.op = "claimed"
  BY DEF StatusEvent, Event, Ops, Reasons
<1>5. log' \in Seq(Event) /\ torn' \in BOOLEAN /\ LogInv'
  BY <1>1, <1>3, <1>4, AppendKeepsLog
<1>6. /\ items' = items /\ todo' = todo /\ mode' = mode
      /\ crashes' = crashes /\ faults' = faults
      /\ mode = "up" /\ todo = Idle
  BY DEF Claim, MayClaim, Running
<1>7. /\ \A j \in Ids : ops'[j] = IF j = c THEN "claimed" ELSE ops[j]
      /\ ops' \in [Ids -> Ops]
  <2>1. ops \in [Ids -> Ops] /\ "claimed" \in Ops
    BY <1>3 DEF TypeOK, Ops
  <2>2. ops' = [ops EXCEPT ![c] = "claimed"]
    BY <1>1
  <2> QED
    BY <2>1, <2>2
<1>8. delivered' \in [KnownKinds \X Works -> Nat]
  <2>1. <<items[c].kind, items[c].work>> \in KnownKinds \X Works
    BY <1>2 DEF Item
  <2>2. \A w \in KnownKinds \X Works :
          [delivered EXCEPT ![w] = @ + 1] \in [KnownKinds \X Works -> Nat]
    BY <1>3 DEF TypeOK
  <2> QED
    BY <1>1, <2>1, <2>2
<1>9. IndexInv'
  <2>1. \A i \in Ids : ops'[i] = "none" <=> items'[i] = NoItem
    BY <1>2, <1>3, <1>4, <1>6, <1>7 DEF IndexInv
  <2>2. \A i \in pending' : ops'[i] = "enqueue"
    BY <1>2, <1>3, <1>7 DEF IndexInv, TypeOK
  <2>3. PendingIsQueued'
    BY <1>2, <1>3, <1>6 DEF IndexInv, PendingIsQueued
  <2>4. \A l \in heap' : items'[l[3]] # NoItem /\ l = HeapKey(l[3], items'[l[3]])
    BY <1>2, <1>3, <1>6 DEF IndexInv
  <2> QED
    BY <2>1, <2>2, <2>3, <2>4 DEF IndexInv
<1>10. MemoryMatchesLog'
  <2> SUFFICES ASSUME faults = 0 PROVE MemoryMatchesLog'
    BY <1>6 DEF MemoryMatchesLog
  <2>1. \A j \in Ids : ops[j] = FoldOp(log, j) /\ items[j] = FoldItem(log, j)
    BY <1>3, <1>6 DEF MemoryMatchesLog
  <2>2. \A j \in Ids : ops'[j] = FoldOp(log', j) /\ items'[j] = FoldItem(log', j)
    <3>1. AppendEvent(e)
      BY <1>1
    <3>2. \A j \in Ids : e.id # j => FoldOp(log', j) = FoldOp(log, j)
                                     /\ FoldItem(log', j) = FoldItem(log, j)
      BY <1>3, <1>4, <3>1, AppendFolds
    <3>3. FoldOp(log', c) = "claimed" /\ FoldItem(log', c) = FoldItem(log, c)
      <4>1. FoldOp(log, c) # "none"
        BY <1>2, <2>1
      <4> QED
        BY <1>3, <1>4, <3>1, <4>1, AppendFolds
    <3> QED
      BY <1>4, <1>6, <1>7, <2>1, <3>2, <3>3
  <2>3. pending' = {j \in Ids : ops'[j] = "enqueue"}
    BY <1>2, <1>3, <1>6, <1>7 DEF MemoryMatchesLog
  <2> QED
    BY <2>2, <2>3 DEF MemoryMatchesLog
<1>11. TypeOK'
  BY <1>2, <1>3, <1>5, <1>6, <1>7, <1>8 DEF TypeOK
<1>12. TodoInv'
  BY <1>6 DEF TodoInv, Idle
<1> QED
  BY <1>5, <1>9, <1>10, <1>11, <1>12 DEF Inv

\* Popping without a claim event (nothing poppable, or the append raised).
LEMMA PopInv ==
  ASSUME Inv, ClaimNothing \/ ClaimFails
  PROVE  Inv'
<1>1. /\ pending' \subseteq pending /\ heap' \subseteq heap
      /\ \A j \in pending' : HeapKey(j, items[j]) \in heap'
      /\ faults' = 0 => faults = 0 /\ pending' = pending /\ torn' = torn
      /\ faults' \in 0 .. MaxFaults
  <2>1. CASE ClaimNothing
    <3>1. pending = {}
      BY <2>1, PendingPoppable DEF ClaimNothing
    <3> QED
      BY <2>1, <3>1 DEF ClaimNothing, Inv, TypeOK
  <2>2. CASE ClaimFails
    <3>1. PICK k \in Best : Pop(k)
      BY <2>2 DEF ClaimFails
    <3>2. pending' \subseteq pending /\ heap' \subseteq heap
          /\ \A j \in pending' : HeapKey(j, items[j]) \in heap'
      BY <3>1, PopTakesOne
    <3>3. faults' = faults + 1 /\ faults < MaxFaults
      BY <2>2 DEF ClaimFails, AppendFails
    <3>4. faults' # 0 /\ faults' \in 0 .. MaxFaults
      BY <3>3, ConstantsOK DEF Inv, TypeOK
    <3> QED
      BY <3>2, <3>4
  <2> QED
    BY <2>1, <2>2
<1>2. UNCHANGED <<log, ops, items, todo, mode, crashes, delivered>>
  BY DEF ClaimNothing, ClaimFails, AppendFails
<1>3. torn' \in BOOLEAN
  <2>1. torn \in BOOLEAN
    BY DEF Inv, TypeOK
  <2>2. torn' = torn \/ torn' = TRUE
    BY DEF ClaimNothing, ClaimFails, AppendFails
  <2> QED
    BY <2>1, <2>2
<1>4. TypeOK'
  BY <1>1, <1>2, <1>3 DEF Inv, TypeOK
<1>5. IndexInv'
  BY <1>1, <1>2 DEF Inv, IndexInv, PendingIsQueued
<1>6. TodoInv'
  BY <1>2 DEF Inv, TodoInv
<1>7. LogInv'
  BY <1>1, <1>2 DEF Inv, LogInv
<1>8. MemoryMatchesLog'
  BY <1>1, <1>2 DEF Inv, MemoryMatchesLog
<1> QED
  BY <1>4, <1>5, <1>6, <1>7, <1>8 DEF Inv

\* enqueue keeps the invariant ...
LEMMA EnqueueInv ==
  ASSUME Inv, NEW i \in Ids, NEW item \in Item, Enqueue(i, item)
  PROVE  Inv'
<1>1. /\ mode # "down" /\ todo = Idle
      /\ UNCHANGED <<todo, mode, crashes, faults, delivered>>
  BY DEF Enqueue, Unlocked
<1>2. EnqueueEvent(i, item) \in EnqueueEvents
      /\ EnqueueEvent(i, item).id = i /\ EnqueueEvent(i, item).item = item
  BY EnqueueEventType
<1>3. IndexType' /\ IndexInv' /\ LogInv' /\ MemoryMatchesLog'
  BY <1>1, <1>2, EnqueueUpdate DEF Enqueue, Fresh
<1>4. TypeOK'
  BY <1>1, <1>3 DEF Inv, TypeOK, IndexType
<1>5. TodoInv'
  BY <1>1 DEF TodoInv, Idle
<1> QED
  BY <1>3, <1>4, <1>5 DEF Inv

\* ... and so do mark_done and cancel.
LEMMA EndInv ==
  ASSUME Inv, NEW i \in Ids, MarkDone(i) \/ Cancel(i)
  PROVE  Inv'
<1>1. /\ mode # "down" /\ todo = Idle
      /\ UNCHANGED <<todo, mode, crashes, faults, delivered>>
  BY DEF MarkDone, Cancel, Running
<1>2. IndexType' /\ IndexInv' /\ LogInv' /\ MemoryMatchesLog'
  <2>1. CASE MarkDone(i)
    BY <1>1, <2>1, TerminalUpdate DEF MarkDone, TerminalOps, Reasons
  <2>2. CASE Cancel(i)
    BY <1>1, <2>2, TerminalUpdate DEF Cancel, TerminalOps, Reasons
  <2> QED
    BY <2>1, <2>2
<1>3. TypeOK'
  BY <1>1, <1>2 DEF Inv, TypeOK, IndexType
<1>4. TodoInv'
  BY <1>1 DEF TodoInv, Idle
<1> QED
  BY <1>2, <1>3, <1>4 DEF Inv

\* Starting an operation of several appends touches neither log nor index.
LEMMA BeginInv ==
  ASSUME Inv, UNCHANGED <<log, torn, ops, items, pending, heap, crashes, faults, delivered>>,
         TodoInv', mode # "down", mode' \in {"loaded", "recovering", "up"},
         todo' \in [cancel : SUBSET Ids, reason : Reasons, enqueue : SUBSET EnqueueEvents]
  PROVE  Inv'
<1>1. TypeOK'
  BY DEF Inv, TypeOK
<1>2. IndexInv'
  BY DEF Inv, IndexInv, PendingIsQueued
<1>3. LogInv'
  BY DEF Inv, LogInv
<1>4. MemoryMatchesLog'
  BY DEF Inv, MemoryMatchesLog
<1> QED
  BY <1>1, <1>2, <1>3, <1>4 DEF Inv

\* enqueue_task_ready begins.
LEMMA ReadyInv ==
  ASSUME Inv, NEW i \in Ids, NEW item \in Item, EnqueueTaskReady(i, item)
  PROVE  Inv'
<1> DEFINE TodoType == [cancel : SUBSET Ids, reason : Reasons,
                        enqueue : SUBSET EnqueueEvents]
<1>1. /\ todo' = Todo(PendingTaskReady(item.work), "replaced", {EnqueueEvent(i, item)})
      /\ UNCHANGED <<log, torn, ops, items, pending, heap, mode, crashes, faults, delivered>>
      /\ ops[i] = "none" /\ mode # "down" /\ mode' \in {"loaded", "recovering", "up"}
  BY DEF EnqueueTaskReady, Fresh, Unlocked
<1>2. PendingTaskReady(item.work) \subseteq Ids
      /\ \A j \in PendingTaskReady(item.work) : ops[j] = "enqueue"
  BY DEF PendingTaskReady, Inv, TypeOK
<1>3. todo' \in TodoType
  BY <1>1, <1>2, EnqueueEventType DEF Todo, Reasons
<1>4. TodoInv'
  BY <1>1, <1>2, EnqueueEventType DEF TodoInv, Todo
<1> QED
  BY <1>1, <1>3, <1>4, BeginInv

\* cancel_all_pending_of_kind begins, and recover_claimed begins and ends.
LEMMA OperationsInv ==
  ASSUME Inv,
         CancelAllPendingOfKind("moment_continue") \/ RecoverClaimed \/ Recovered
  PROVE  Inv'
<1> DEFINE TodoType == [cancel : SUBSET Ids, reason : Reasons,
                        enqueue : SUBSET EnqueueEvents]
<1>1. CASE CancelAllPendingOfKind("moment_continue")
  <2> DEFINE S == {j \in pending : /\ items[j] # NoItem
                                   /\ items[j].kind = "moment_continue"
                                   /\ ops[j] = "enqueue"}
  <2>1. /\ S \in SUBSET Ids /\ \A j \in S : ops[j] = "enqueue"
        /\ todo' = Todo(S, "continuous_disabled", {})
    BY <1>1 DEF CancelAllPendingOfKind, Inv, TypeOK
  <2> HIDE DEF S
  <2>2. /\ UNCHANGED <<log, torn, ops, items, pending, heap, mode, crashes, faults, delivered>>
        /\ mode # "down" /\ mode' \in {"loaded", "recovering", "up"}
    BY <1>1 DEF CancelAllPendingOfKind, Unlocked
  <2>3. todo' \in TodoType
    BY <2>1 DEF Todo, Reasons
  <2>4. TodoInv'
    BY <2>1, <2>2 DEF TodoInv, Todo
  <2> QED
    BY <2>2, <2>3, <2>4, BeginInv
<1>2. CASE RecoverClaimed \/ Recovered
  <2>1. /\ UNCHANGED <<log, torn, ops, items, pending, heap, todo, crashes, faults, delivered>>
        /\ mode # "down" /\ mode' \in {"loaded", "recovering", "up"} /\ todo = Idle
    BY <1>2 DEF RecoverClaimed, Recovered
  <2>2. TodoInv' /\ todo' \in TodoType
    BY <2>1 DEF Idle, TodoInv, Reasons
  <2> QED
    BY <2>1, <2>2, BeginInv
<1> QED
  BY <1>1, <1>2

\* recover_claimed takes up one claimed wake.
LEMMA RecoverInv ==
  ASSUME Inv, NEW i \in Ids, NEW clone \in Ids, NEW at \in Times,
         RecoverOne(i, clone, at)
  PROVE  Inv'
<1> DEFINE TodoType == [cancel : SUBSET Ids, reason : Reasons,
                        enqueue : SUBSET EnqueueEvents]
<1>1. /\ UNCHANGED <<log, torn, ops, items, pending, heap, mode, crashes, faults, delivered>>
      /\ mode = "recovering" /\ ops[i] = "claimed" /\ ops[clone] = "none"
  BY DEF RecoverOne, Fresh
<1>2. items[i] \in Item
  BY <1>1 DEF Inv, TypeOK, IndexInv
<1>3. [items[i] EXCEPT !.at = at] \in Item
  BY <1>2 DEF Item
<1>4. PICK E \in SUBSET {EnqueueEvent(clone, [items[i] EXCEPT !.at = at])} :
        todo' = Todo({i}, "interrupted_redelivery", E)
  BY DEF RecoverOne
<1>5. E \subseteq EnqueueEvents /\ \A e \in E : e.id = clone
  BY <1>3, EnqueueEventType
<1>6. todo' \in TodoType
  BY <1>4, <1>5 DEF Todo, Reasons
<1>7. TodoInv'
  BY <1>1, <1>4, <1>5 DEF TodoInv, Todo
<1> QED
  BY <1>1, <1>6, <1>7, BeginInv

\* With nothing in progress there is nothing to show.
LEMMA IdleIsFine ==
  /\ Idle \in [cancel : SUBSET Ids, reason : Reasons, enqueue : SUBSET EnqueueEvents]
  /\ todo' = Idle => TodoInv'
<1>1. Idle \in [cancel : SUBSET Ids, reason : Reasons, enqueue : SUBSET EnqueueEvents]
  BY DEF Idle, Reasons
<1>2. Idle.cancel = {} /\ Idle.enqueue = {}
  BY DEF Idle
<1>3. todo' = Idle => TodoInv'
  BY <1>2 DEF TodoInv
<1> QED
  BY <1>1, <1>3

\* One cancel of such an operation ...
LEMMA CancelStepInv ==
  ASSUME Inv, NEW i \in Ids, CancelStep(i)
  PROVE  Inv'
<1> DEFINE TodoType == [cancel : SUBSET Ids, reason : Reasons,
                        enqueue : SUBSET EnqueueEvents]
<1>0. todo \in TodoType /\ TodoInv /\ ops \in [Ids -> Ops]
  BY DEF Inv, TypeOK
<1>a. Idle \in TodoType /\ (todo' = Idle => TodoInv')
  BY IdleIsFine
<1>1. Inv'
  <2>1. /\ mode # "down" /\ i \in todo.cancel /\ ops[i] # "none"
        /\ AppendEvent(StatusEvent(i, "cancelled", todo.reason))
        /\ IndexTerminal(i, "cancelled")
        /\ todo' = IF todo.cancel = {i} /\ todo.enqueue = {} THEN Idle
                   ELSE [todo EXCEPT !.cancel = @ \ {i}]
        /\ UNCHANGED <<mode, crashes, faults, delivered>>
    BY <1>0 DEF CancelStep, TodoInv
  <2>2. IndexType' /\ IndexInv' /\ LogInv' /\ MemoryMatchesLog'
    BY <1>0, <2>1, TerminalUpdate DEF TerminalOps
  <2>3. todo' \in TodoType
    BY <1>0, <1>a, <2>1
  <2>4. TodoInv'
    <3>1. \A j \in Ids : ops'[j] = IF j = i THEN "cancelled" ELSE ops[j]
      BY <1>0, <2>1 DEF IndexTerminal
    <3>2. CASE todo' = Idle
      BY <1>a, <3>2
    <3>3. CASE todo' = [todo EXCEPT !.cancel = @ \ {i}]
      <4>1. todo'.cancel = todo.cancel \ {i} /\ todo'.enqueue = todo.enqueue
        BY <1>0, <3>3
      <4>2. \A e \in todo.enqueue : e.id \in Ids
        BY <1>0 DEF EnqueueEvents, Event
      <4> QED
        BY <1>0, <2>1, <3>1, <4>1, <4>2 DEF TodoInv
    <3> QED
      BY <2>1, <3>2, <3>3
  <2>5. TypeOK'
    <3>1. /\ mode' \in {"down", "loaded", "recovering", "up"}
          /\ crashes' \in 0 .. MaxCrashes /\ faults' \in 0 .. MaxFaults
          /\ delivered' \in [KnownKinds \X Works -> Nat]
      BY <2>1 DEF Inv, TypeOK
    <3> QED
      BY <2>2, <2>3, <3>1 DEF TypeOK, IndexType
  <2> QED
    BY <2>2, <2>4, <2>5 DEF Inv
<1> QED
  BY <1>1

\* ... and its enqueue.
LEMMA EnqueueStepInv ==
  ASSUME Inv, EnqueueStep
  PROVE  Inv'
<1> DEFINE TodoType == [cancel : SUBSET Ids, reason : Reasons,
                        enqueue : SUBSET EnqueueEvents]
<1>0. todo \in TodoType /\ TodoInv /\ ops \in [Ids -> Ops]
  BY DEF Inv, TypeOK
<1>a. Idle \in TodoType /\ (todo' = Idle => TodoInv')
  BY IdleIsFine
<1>1. Inv'
  <2>1. PICK e \in todo.enqueue : AppendEvent(e) /\ IndexEnqueue(e.id, e.item)
    BY DEF EnqueueStep
  <2>2. mode # "down" /\ todo' = Idle /\ UNCHANGED <<mode, crashes, faults, delivered>>
    BY DEF EnqueueStep
  <2>3. e \in EnqueueEvents /\ ops[e.id] = "none"
    BY <1>0, <2>1 DEF TodoInv
  <2>5. IndexType' /\ IndexInv' /\ LogInv' /\ MemoryMatchesLog'
    BY <1>0, <2>1, <2>2, <2>3, EnqueueUpdate
  <2>6. TypeOK'
    BY <1>a, <2>2, <2>5 DEF Inv, TypeOK, IndexType
  <2> QED
    BY <1>a, <2>2, <2>5, <2>6 DEF Inv
<1> QED
  BY <1>1

\* A failed append, a reset, a crash and a load.
LEMMA RestInv ==
  ASSUME Inv, OperationFails \/ StepFails \/ ResetEmpty \/ Crash \/ Load
  PROVE  Inv'
<1> DEFINE TodoType == [cancel : SUBSET Ids, reason : Reasons,
                        enqueue : SUBSET EnqueueEvents]
<1>0. TypeOK /\ IndexInv /\ TodoInv /\ LogInv /\ MemoryMatchesLog
  BY DEF Inv
<1>a. Idle \in TodoType /\ (todo' = Idle => TodoInv')
  BY IdleIsFine
<1>1. CASE OperationFails \/ StepFails
  <2>0. faults' = faults + 1 /\ faults < MaxFaults
    BY <1>1 DEF OperationFails, StepFails, AppendFails
  <2>a. faults' # 0 /\ faults' \in 0 .. MaxFaults
    BY <1>0, <2>0, ConstantsOK DEF TypeOK
  <2>1. /\ UNCHANGED <<log, ops, items, pending, heap, mode, crashes, delivered>>
        /\ todo' = todo \/ todo' = Idle
    BY <1>1 DEF OperationFails, StepFails, AppendFails
  <2>2. torn' \in BOOLEAN
    <3>1. torn \in BOOLEAN
      BY <1>0 DEF TypeOK
    <3>2. torn' = torn \/ torn' = TRUE
      BY <1>1 DEF OperationFails, StepFails, AppendFails
    <3> QED
      BY <3>1, <3>2
  <2>3. TypeOK'
    BY <1>0, <1>a, <2>a, <2>1, <2>2 DEF TypeOK
  <2>4. IndexInv'
    BY <1>0, <2>1 DEF IndexInv, PendingIsQueued
  <2>5. TodoInv'
    BY <1>0, <1>a, <2>1 DEF TodoInv
  <2>6. LogInv' /\ MemoryMatchesLog'
    BY <1>0, <2>a, <2>1 DEF LogInv, MemoryMatchesLog
  <2> QED
    BY <2>3, <2>4, <2>5, <2>6 DEF Inv
<1>2. CASE ResetEmpty
  <2>1. /\ log' = <<>> /\ torn' = FALSE /\ pending' = {} /\ heap' = {}
        /\ ops' = [i \in Ids |-> "none"] /\ items' = [i \in Ids |-> NoItem]
        /\ delivered' = [w \in KnownKinds \X Works |-> 0]
        /\ UNCHANGED <<todo, mode, crashes, faults>> /\ todo = Idle
    BY <1>2 DEF ResetEmpty, Running
  <2>2. \A i \in Ids : EventsOf(log', i) = {} /\ EnqueuesOf(log', i) = {}
    BY <2>1 DEF EventsOf, EnqueuesOf
  <2>3. TypeOK'
    <3>1. log' \in Seq(Event) /\ ops' \in [Ids -> Ops]
      BY <2>1 DEF Ops
    <3>2. items' \in [Ids -> Item \cup {NoItem}] /\ delivered' \in [KnownKinds \X Works -> Nat]
      BY <2>1
    <3>3. torn' \in BOOLEAN
      BY <2>1
    <3> QED
      BY <1>0, <2>1, <3>1, <3>2, <3>3 DEF TypeOK
  <2>4. IndexInv'
    BY <2>1 DEF IndexInv, PendingIsQueued
  <2>5. LogInv'
    BY <2>1, <2>2 DEF LogInv, Bounded
  <2>6. MemoryMatchesLog'
    BY <2>1, <2>2 DEF MemoryMatchesLog, FoldOp, FoldItem
  <2> QED
    BY <1>a, <2>1, <2>3, <2>4, <2>5, <2>6 DEF Inv
<1>3. CASE Crash
  <2>1. /\ pending' = {} /\ heap' = {} /\ todo' = Idle /\ mode' = "down"
        /\ ops' = [i \in Ids |-> "none"] /\ items' = [i \in Ids |-> NoItem]
        /\ crashes < MaxCrashes /\ crashes' = crashes + 1
        /\ UNCHANGED <<log, torn, faults, delivered>>
    BY <1>3 DEF Crash
  <2>2. TypeOK'
    <3>1. ops' \in [Ids -> Ops] /\ items' \in [Ids -> Item \cup {NoItem}]
      BY <2>1 DEF Ops
    <3>2. crashes' \in 0 .. MaxCrashes
      BY <1>0, <2>1, ConstantsOK DEF TypeOK
    <3> QED
      BY <1>0, <1>a, <2>1, <3>1, <3>2 DEF TypeOK
  <2>3. IndexInv'
    BY <2>1 DEF IndexInv, PendingIsQueued
  <2>4. LogInv'
    BY <1>0, <2>1 DEF LogInv
  <2>5. MemoryMatchesLog'
    BY <2>1 DEF MemoryMatchesLog
  <2> QED
    BY <1>a, <2>1, <2>2, <2>3, <2>4, <2>5 DEF Inv
<1>4. CASE Load
  <2>1. /\ ops' = [i \in Ids |-> FoldOp(log, i)] /\ items' = [i \in Ids |-> FoldItem(log, i)]
        /\ pending' = {i \in Ids : FoldOp(log, i) = "enqueue"}
        /\ heap' = {HeapKey(i, FoldItem(log, i)) : i \in {j \in Ids : FoldOp(log, j) = "enqueue"}}
        /\ mode' = "loaded" /\ UNCHANGED <<log, torn, todo, crashes, faults, delivered>>
    BY <1>4 DEF Load
  <2>2. \A i \in Ids : /\ FoldOp(log, i) \in Ops
                       /\ FoldItem(log, i) \in Item \cup {NoItem}
                       /\ FoldOp(log, i) = "none" <=> FoldItem(log, i) = NoItem
    BY <1>0, FoldType
  <2>3. TypeOK'
    <3>1. ops' \in [Ids -> Ops] /\ items' \in [Ids -> Item \cup {NoItem}]
      BY <2>1, <2>2
    <3>2. heap' \in SUBSET {HeapKey(i, item) : i \in Ids, item \in Item}
      BY <2>1, <2>2
    <3>3. /\ log' \in Seq(Event) /\ pending' \in SUBSET Ids /\ todo' \in TodoType
          /\ mode' \in {"down", "loaded", "recovering", "up"}
          /\ crashes' \in 0 .. MaxCrashes /\ faults' \in 0 .. MaxFaults
          /\ delivered' \in [KnownKinds \X Works -> Nat]
      BY <1>0, <2>1 DEF TypeOK
    <3>4. torn' \in BOOLEAN
      BY <1>0, <2>1 DEF TypeOK
    <3> QED
      BY <3>1, <3>2, <3>3, <3>4 DEF TypeOK
  <2>4. IndexInv'
    <3>1. \A i \in Ids, item \in Item : HeapKey(i, item)[3] = i
      BY DEF HeapKey
    <3> QED
      BY <2>1, <2>2, <3>1 DEF IndexInv, PendingIsQueued
  <2>5. todo = Idle
    BY <1>0, <1>4 DEF Load, TodoInv
  <2>6. LogInv'
    BY <1>0, <2>1 DEF LogInv
  <2>7. MemoryMatchesLog'
    BY <2>1 DEF MemoryMatchesLog
  <2> QED
    BY <1>a, <2>1, <2>3, <2>4, <2>5, <2>6, <2>7 DEF Inv
<1> QED
  BY <1>1, <1>2, <1>3, <1>4

\* Every step of the queue keeps the invariant.
LEMMA NextInv == Inv /\ [Next]_vars => Inv'
<1> SUFFICES ASSUME Inv, [Next]_vars PROVE Inv'
  OBVIOUS
<1>1. CASE UNCHANGED vars
  <2>1. TypeOK' /\ IndexInv' /\ TodoInv'
    BY <1>1 DEF vars, Inv, TypeOK, IndexInv, PendingIsQueued, TodoInv
  <2>2. LogInv' /\ MemoryMatchesLog'
    BY <1>1 DEF vars, Inv, LogInv, MemoryMatchesLog
  <2> QED
    BY <2>1, <2>2 DEF Inv
<1>2. CASE \E i \in Ids, kind \in Kinds, w \in Works, at \in Times :
             LET item == [kind |-> kind, work |-> w, at |-> at] IN
             Enqueue(i, item) \/ EnqueueTaskReady(i, item)
  <2>1. PICK i \in Ids, item \in Item : Enqueue(i, item) \/ EnqueueTaskReady(i, item)
    BY <1>2, ConstantsOK DEF Item
  <2> QED
    BY <2>1, EnqueueInv, ReadyInv
<1>3. CASE \E i \in Ids : MarkDone(i) \/ Cancel(i)
  BY <1>3, EndInv
<1>4. CASE \E i, clone \in Ids, at \in Times : RecoverOne(i, clone, at)
  BY <1>4, RecoverInv
<1>5. CASE \/ CancelAllPendingOfKind("moment_continue")
           \/ RecoverClaimed \/ Recovered
  BY <1>5, OperationsInv
<1>6. CASE Claim
  BY <1>6, ClaimInv
<1>7. CASE ClaimNothing \/ ClaimFails
  BY <1>7, PopInv
<1>8. CASE EnqueueStep \/ \E i \in Ids : CancelStep(i)
  BY <1>8, EnqueueStepInv, CancelStepInv
<1>9. CASE OperationFails \/ StepFails \/ ResetEmpty \/ Crash \/ Load
  BY <1>9, RestInv
<1> QED
  BY <1>1, <1>2, <1>3, <1>4, <1>5, <1>6, <1>7, <1>8, <1>9 DEF Next

-----------------------------------------------------------------------------
(* The theorems                                                            *)

LEMMA AlwaysInv == Spec => []Inv
  BY InitInv, NextInv, PTL DEF Spec

\* The queue's variables always have their types.
THEOREM TypeCorrect == Spec => []TypeOK
<1>1. Inv => TypeOK
  BY DEF Inv
<1> QED
  BY <1>1, AlwaysInv, PTL

\* The index kept by hand is at every moment the fold of the log, so a crash at
\* any point loses nothing that was acknowledged (as long as appends succeed).
THEOREM MemoryAgrees == Spec => []MemoryMatchesLog
<1>1. Inv => MemoryMatchesLog
  BY DEF Inv
<1> QED
  BY <1>1, AlwaysInv, PTL

\* No pending wake ever drops out of the heap that claim pops, not even when
\* appends fail.
THEOREM PendingStaysQueued == Spec => []PendingIsQueued
<1>1. Inv => PendingIsQueued
  BY DEF Inv, IndexInv
<1> QED
  BY <1>1, AlwaysInv, PTL

\* The three together: what the running process believes about the wakes is
\* true, for any wakes, kinds and number of deaths.
THEOREM IndexCorrect == Spec => []IndexIsTrue
<1>1. TypeOK /\ PendingIsQueued /\ MemoryMatchesLog => IndexIsTrue
  BY DEF IndexIsTrue
<1> QED
  BY <1>1, TypeCorrect, MemoryAgrees, PendingStaysQueued, PTL

\* While the process is down there is no index.
DownInv == mode = "down" => ops = [i \in Ids |-> "none"]

LEMMA AlwaysDown == Spec => []DownInv
<1>1. Init => DownInv
  BY DEF Init, DownInv
<1>2. DownInv /\ [Next]_vars => DownInv'
  <2> SUFFICES ASSUME DownInv, [Next]_vars, mode' = "down"
               PROVE  ops' = [i \in Ids |-> "none"]
    BY DEF DownInv
  <2>1. Crash \/ UNCHANGED vars
    <3>1. ~ \E i \in Ids, kind \in Kinds, w \in Works, at \in Times :
              LET item == [kind |-> kind, work |-> w, at |-> at] IN
              Enqueue(i, item) \/ EnqueueTaskReady(i, item)
      <4>1. \A i, item : ~Enqueue(i, item)
        BY DEF Enqueue, Unlocked
      <4>2. \A i, item : ~EnqueueTaskReady(i, item)
        BY DEF EnqueueTaskReady, Unlocked
      <4> QED
        BY <4>1, <4>2
    <3>2. ~ \E i \in Ids : MarkDone(i) \/ Cancel(i) \/ CancelStep(i)
      BY DEF MarkDone, Cancel, CancelStep, Running
    <3>3. ~(Claim \/ ClaimNothing \/ ClaimFails)
      BY DEF Claim, ClaimNothing, ClaimFails, MayClaim, Running
    <3>4. ~(OperationFails \/ StepFails \/ EnqueueStep \/ ResetEmpty \/ Load)
      BY DEF OperationFails, StepFails, EnqueueStep, ResetEmpty, Load, Unlocked, Running
    <3>5. ~(RecoverClaimed \/ Recovered \/ CancelAllPendingOfKind("moment_continue"))
      BY DEF RecoverClaimed, Recovered, CancelAllPendingOfKind, Unlocked
    <3>6. ~ \E i, clone \in Ids, at \in Times : RecoverOne(i, clone, at)
      BY DEF RecoverOne
    <3> QED
      BY <3>1, <3>2, <3>3, <3>4, <3>5, <3>6 DEF Next
  <2> QED
    BY <2>1 DEF Crash, DownInv, vars
<1> QED
  BY <1>1, <1>2, PTL DEF Spec

\* Only claim moves a wake from enqueue to claimed.
LEMMA OnlyClaimClaims ==
  ASSUME Inv, DownInv, [Next]_vars, NEW i \in Ids, ClaimedBy(i)
  PROVE  Claim
<1>0. ops \in [Ids -> Ops]
  BY DEF Inv, TypeOK
<1>1. ops[i] = "enqueue" /\ ops'[i] = "claimed"
  BY DEF ClaimedBy
<1>2. ~UNCHANGED ops
  BY <1>1
<1>3. ~ \E j \in Ids, item \in Item : Enqueue(j, item) \/ EnqueueTaskReady(j, item)
  BY <1>0, <1>1 DEF Enqueue, EnqueueTaskReady, IndexEnqueue
<1>4. ~ \E j \in Ids : MarkDone(j) \/ Cancel(j) \/ CancelStep(j)
  BY <1>0, <1>1 DEF MarkDone, Cancel, CancelStep, IndexTerminal
<1>5. ~EnqueueStep
  <2>1. \A j : IndexEnqueue(j.id, j.item) => ops'[i] \in {ops[i], "enqueue"}
    BY <1>0 DEF IndexEnqueue
  <2> QED
    BY <1>1, <2>1 DEF EnqueueStep
<1>6. ~Load
  BY <1>1 DEF Load, DownInv
<1>7. ~Crash /\ ~ResetEmpty
  BY <1>1 DEF Crash, ResetEmpty
<1>8. ~(\/ CancelAllPendingOfKind("moment_continue") \/ ClaimNothing \/ ClaimFails
        \/ OperationFails \/ RecoverClaimed \/ Recovered \/ StepFails
        \/ \E j, clone \in Ids, at \in Times : RecoverOne(j, clone, at))
  BY <1>2 DEF CancelAllPendingOfKind, ClaimNothing, ClaimFails, OperationFails,
              RecoverClaimed, Recovered, StepFails, RecoverOne
<1>9. \A kind \in Kinds, w \in Works, at \in Times :
        [kind |-> kind, work |-> w, at |-> at] \in Item
  BY ConstantsOK DEF Item
<1> QED
  BY <1>2, <1>3, <1>4, <1>5, <1>6, <1>7, <1>8, <1>9 DEF Next, vars

\* claim returns the first pending wake in (band, created_at, id) order: stale
\* heap entries never make it skip or reorder one, even after failed appends.
THEOREM ClaimIsBest == Spec => ClaimTakesBest
<1>1. Inv /\ DownInv /\ [Next]_vars =>
        [\A i, j \in Ids : ClaimedBy(i) /\ j \in pending /\ j # i =>
           Before(HeapKey(i, items[i]), HeapKey(j, items[j]))]_vars
  <2> SUFFICES ASSUME Inv, DownInv, [Next]_vars, NEW i \in Ids, NEW j \in Ids,
                      ClaimedBy(i), j \in pending, j # i
               PROVE  Before(HeapKey(i, items[i]), HeapKey(j, items[j]))
    OBVIOUS
  <2>1. PICK k \in Best : ops' = [ops EXCEPT ![k[3]] = "claimed"]
    BY OnlyClaimClaims DEF Claim
  <2>2. ops \in [Ids -> Ops] /\ ops[i] = "enqueue" /\ ops'[i] = "claimed"
    BY DEF Inv, TypeOK, ClaimedBy
  <2>3. k[3] = i
    BY <2>1, <2>2
  <2>4. k = HeapKey(i, items[i])
    BY <2>3 DEF Best, Poppable, Inv, IndexInv
  <2>5. HeapKey(j, items[j]) \in Poppable /\ HeapKey(j, items[j])[3] = j
    BY PendingPoppable
  <2> QED
    BY <2>3, <2>4, <2>5 DEF Best
<1> QED
  BY <1>1, AlwaysInv, AlwaysDown, PTL DEF Spec, ClaimTakesBest

-----------------------------------------------------------------------------
(* The queue implements the ledger                                         *)

\* While the process is up the view is the index.
LEMMA ViewIsIndex ==
  ASSUME Inv, faults = 0, mode # "down"
  PROVE  /\ \A i \in Ids : StatusOf[i] = ops[i] /\ ItemOf[i] = items[i]
         /\ pending = {i \in Ids : StatusOf[i] = "enqueue"}
  BY DEF Inv, MemoryMatchesLog, StatusOf, ItemOf

\* What an append of an event does to the view.
LEMMA ViewAppend ==
  ASSUME Inv, faults = 0, faults' = 0, NEW e \in Event, AppendEvent(e),
         e.op = "enqueue" \/ StatusOf[e.id] # "none"
  PROVE  /\ StatusOf' = [StatusOf EXCEPT ![e.id] = e.op]
         /\ ItemOf' = IF e.op = "enqueue" THEN [ItemOf EXCEPT ![e.id] = e.item] ELSE ItemOf
<1>0. TypeOK /\ LogInv /\ e.id \in Ids
  BY DEF Inv, Event
<1>1. \A i \in Ids : /\ e.id # i => FoldOp(log', i) = FoldOp(log, i)
                                   /\ FoldItem(log', i) = FoldItem(log, i)
                     /\ e.id = i /\ e.op = "enqueue" =>
                          FoldOp(log', i) = "enqueue" /\ FoldItem(log', i) = e.item
                     /\ e.id = i /\ e.op # "enqueue" /\ FoldOp(log, i) # "none" =>
                          FoldOp(log', i) = e.op /\ FoldItem(log', i) = FoldItem(log, i)
  BY <1>0, AppendFolds
<1>2. StatusOf' = [StatusOf EXCEPT ![e.id] = e.op]
  BY <1>0, <1>1 DEF StatusOf
<1>3. CASE e.op = "enqueue"
  BY <1>0, <1>1, <1>2, <1>3 DEF ItemOf
<1>4. CASE e.op # "enqueue"
  <2>1. FoldOp(log, e.id) # "none"
    BY <1>0, <1>4 DEF StatusOf
  <2>2. \A i \in Ids : FoldItem(log', i) = FoldItem(log, i)
    BY <1>1, <1>4, <2>1
  <2> QED
    BY <1>2, <1>4, <2>2 DEF ItemOf
<1> QED
  BY <1>3, <1>4

\* An enqueue of the queue is an enqueue of the ledger ...
LEMMA EnqueueMaps ==
  ASSUME Inv, faults = 0, faults' = 0, mode # "down", NEW e \in EnqueueEvents, ops[e.id] = "none",
         AppendEvent(e)
  PROVE  \E i \in Ids : Ledger!Enqueue(i)
<1>1. e \in Event /\ e.op = "enqueue" /\ e.id \in Ids /\ e.item \in Item
  BY DEF EnqueueEvents, Event
<1>2. /\ StatusOf' = [StatusOf EXCEPT ![e.id] = "enqueue"]
      /\ ItemOf' = [ItemOf EXCEPT ![e.id] = e.item]
  BY <1>1, ViewAppend
<1>3. StatusOf[e.id] = "none"
  BY <1>1, ViewIsIndex
<1> QED
  <2>1. Ledger!Item = Item
    BY DEF Ledger!Item, Item, Ledger!KnownKinds, KnownKinds, Ledger!Priority, Priority
  <2>2. \E it \in Ledger!Item : ItemOf' = [ItemOf EXCEPT ![e.id] = it]
    BY <1>1, <1>2, <2>1
  <2> QED
    BY <1>1, <1>2, <1>3, <2>2 DEF Ledger!Enqueue, StatusOf, ItemOf

\* ... and the end of an open wake is the ledger's.
LEMMA EndMaps ==
  ASSUME Inv, faults = 0, faults' = 0, mode # "down", NEW i \in Ids, NEW op \in TerminalOps,
         NEW r \in Reasons, ops[i] \in {"enqueue", "claimed"},
         op = "done" => ops[i] = "claimed",
         AppendEvent(StatusEvent(i, op, r))
  PROVE  Ledger!Done(i) \/ Ledger!Cancel(i)
<1>1. /\ StatusEvent(i, op, r) \in Event /\ StatusEvent(i, op, r).id = i
      /\ StatusEvent(i, op, r).op = op /\ op # "enqueue"
  BY DEF StatusEvent, Event, Ops, TerminalOps
<1>2. StatusOf[i] = ops[i]
  BY ViewIsIndex
<1>3. StatusOf' = [StatusOf EXCEPT ![i] = op] /\ ItemOf' = ItemOf
  BY <1>1, <1>2, ViewAppend
<1>4. CASE op = "done"
  BY <1>2, <1>3, <1>4 DEF Ledger!Done, StatusOf, ItemOf
<1>5. CASE op = "cancelled"
  BY <1>2, <1>3, <1>5 DEF Ledger!Cancel, StatusOf, ItemOf
<1> QED
  BY <1>4, <1>5 DEF TerminalOps

\* A claim of the queue is a claim of the ledger.
LEMMA ClaimMaps ==
  ASSUME Inv, faults = 0, Claim
  PROVE  \E i \in Ids : Ledger!Claim(i)
<1>1. PICK k \in Best : Pop(k) /\ AppendEvent(StatusEvent(k[3], "claimed", ""))
  BY DEF Claim
<1>2. PICK c \in Ids : c = k[3] /\ c \in pending /\ ops[c] = "enqueue"
  <2>1. k[3] \in pending /\ ops[k[3]] = "enqueue"
    BY <1>1, PopTakesOne
  <2>2. pending \subseteq Ids
    BY DEF Inv, TypeOK
  <2> QED
    BY <2>1, <2>2
<1>3. mode # "down" /\ faults' = 0 /\ \A j \in Ids : ops[j] # "claimed"
  <2>1. Running /\ faults' = faults /\ (faults > 0 \/ \A j \in Ids : ops[j] # "claimed")
    BY DEF Claim, MayClaim
  <2>2. ~(faults > 0)
    OBVIOUS
  <2> QED
    BY <2>1, <2>2 DEF Running
<1>4. /\ \A i \in Ids : StatusOf[i] = ops[i] /\ ItemOf[i] = items[i]
      /\ pending = {i \in Ids : StatusOf[i] = "enqueue"}
  BY <1>3, ViewIsIndex
<1>5. StatusOf' = [StatusOf EXCEPT ![c] = "claimed"] /\ ItemOf' = ItemOf
  <2>1. /\ StatusEvent(c, "claimed", "") \in Event /\ StatusEvent(c, "claimed", "").id = c
        /\ StatusEvent(c, "claimed", "").op = "claimed"
    BY DEF StatusEvent, Event, Ops, Reasons
  <2> QED
    BY <1>1, <1>2, <1>3, <1>4, <2>1, ViewAppend
<1>6. k = HeapKey(c, items[c])
  BY <1>2 DEF Best, Poppable, Inv, IndexInv
<1>7. \A j \in pending : j # c => Before(HeapKey(c, items[c]), HeapKey(j, items[j]))
  <2> SUFFICES ASSUME NEW j \in pending, j # c
               PROVE  Before(k, HeapKey(j, items[j]))
    BY <1>6
  <2>1. HeapKey(j, items[j]) \in Poppable /\ HeapKey(j, items[j])[3] = j
    BY PendingPoppable
  <2> QED
    BY <1>2, <2>1 DEF Best
<1>8. Ledger!Claim(c)
  <2>1. \A j \in Ids : StatusOf[j] = "enqueue" /\ j # c =>
          Before(HeapKey(c, ItemOf[c]), HeapKey(j, ItemOf[j]))
    BY <1>4, <1>7
  <2> QED
    BY <1>2, <1>3, <1>4, <1>5, <2>1 DEF Ledger!Claim, StatusOf, ItemOf, Ledger!Before,
       Ledger!HeapKey, Before, HeapKey, Ledger!Priority, Priority, Ledger!IsoRank, IsoRank
<1> QED
  BY <1>8

\* An empty log knows no wake.
LEMMA EmptyLog ==
  ASSUME NEW i \in Ids
  PROVE  FoldOp(<<>>, i) = "none" /\ FoldItem(<<>>, i) = NoItem
<1>1. EnqueuesOf(<<>>, i) = {}
  BY DEF EnqueuesOf, EventsOf
<1> QED
  BY <1>1 DEF FoldOp, FoldItem

\* A step by which no append fails is a step of the ledger, or invisible to it.
LEMMA GoodStepMaps ==
  ASSUME Inv, faults = 0, faults' = 0, [Next]_vars
  PROVE  [Ledger!Next]_(Ledger!vars)
<1>1. CASE UNCHANGED log
  BY <1>1 DEF Ledger!vars, StatusOf, ItemOf
<1>2. CASE \E i \in Ids : Ledger!Enqueue(i) \/ Ledger!Claim(i) \/ Ledger!Done(i) \/ Ledger!Cancel(i)
  BY <1>2 DEF Ledger!Next
<1>3. CASE \E i \in Ids, item \in Item : Enqueue(i, item)
  <2>1. PICK i \in Ids, item \in Item : Enqueue(i, item)
    BY <1>3
  <2>2. mode # "down" /\ ops[i] = "none" /\ AppendEvent(EnqueueEvent(i, item))
    BY <2>1 DEF Enqueue, Unlocked, Fresh
  <2> QED
    BY <1>2, <2>2, EnqueueMaps, EnqueueEventType
<1>4. CASE EnqueueStep
  <2>1. PICK e \in todo.enqueue : AppendEvent(e)
    BY <1>4 DEF EnqueueStep
  <2>2. e \in EnqueueEvents /\ ops[e.id] = "none" /\ mode # "down"
    BY <1>4, <2>1 DEF EnqueueStep, Inv, TypeOK, TodoInv
  <2> QED
    BY <1>2, <2>1, <2>2, EnqueueMaps
<1>5. CASE Claim
  BY <1>2, <1>5, ClaimMaps
<1>6. CASE \E i \in Ids : MarkDone(i) \/ Cancel(i)
  <2>1. PICK i \in Ids : MarkDone(i) \/ Cancel(i)
    BY <1>6
  <2>2. CASE MarkDone(i)
    BY <1>2, <2>2, EndMaps DEF MarkDone, Running, TerminalOps, Reasons
  <2>3. CASE Cancel(i)
    BY <1>2, <2>3, EndMaps DEF Cancel, Running, TerminalOps, Reasons
  <2> QED
    BY <2>1, <2>2, <2>3
<1>7. CASE \E i \in Ids : CancelStep(i)
  <2>1. PICK i \in Ids : CancelStep(i)
    BY <1>7
  <2>2. /\ mode # "down" /\ ops[i] \in {"enqueue", "claimed"}
        /\ AppendEvent(StatusEvent(i, "cancelled", todo.reason)) /\ todo.reason \in Reasons
    BY <2>1 DEF CancelStep, Inv, TypeOK, TodoInv
  <2> QED
    BY <1>2, <2>2, EndMaps DEF TerminalOps
<1>8. CASE ResetEmpty
  <2>1. log' = <<>>
    BY <1>8 DEF ResetEmpty
  <2>2. \A i \in Ids : FoldOp(log', i) = "none" /\ FoldItem(log', i) = NoItem
    BY <2>1, EmptyLog
  <2>3. NoItem = Ledger!NoItem
    BY DEF NoItem, Ledger!NoItem
  <2> QED
    BY <2>2, <2>3 DEF Ledger!Next, Ledger!Forget, StatusOf, ItemOf
<1>9. CASE \E i \in Ids, kind \in Kinds, w \in Works, at \in Times :
             EnqueueTaskReady(i, [kind |-> kind, work |-> w, at |-> at])
  BY <1>1, <1>9 DEF EnqueueTaskReady
<1>10. CASE \/ CancelAllPendingOfKind("moment_continue") \/ ClaimNothing \/ ClaimFails
            \/ OperationFails \/ RecoverClaimed \/ Recovered \/ StepFails \/ Crash \/ Load
            \/ \E j, clone \in Ids, at \in Times : RecoverOne(j, clone, at)
            \/ UNCHANGED vars
  BY <1>1, <1>10 DEF CancelAllPendingOfKind, ClaimNothing, ClaimFails, OperationFails,
     AppendFails, RecoverClaimed, Recovered, StepFails, Crash, Load, RecoverOne, vars
<1>11. \A kind \in Kinds, w \in Works, at \in Times :
         [kind |-> kind, work |-> w, at |-> at] \in Item
  BY ConstantsOK DEF Item
<1> QED
  BY <1>3, <1>4, <1>5, <1>6, <1>7, <1>8, <1>9, <1>10, <1>11 DEF Next

\* faults only grows.
LEMMA FaultsGrow ==
  ASSUME Inv, [Next]_vars
  PROVE  faults' = faults \/ faults' = faults + 1
<1>1. CASE AppendFails
  BY <1>1 DEF AppendFails
<1>2. CASE ~AppendFails
  BY <1>2 DEF Next, vars, Enqueue, EnqueueTaskReady, MarkDone, Cancel, Claim, ClaimNothing,
     ClaimFails, OperationFails, StepFails, CancelAllPendingOfKind, RecoverClaimed,
     RecoverOne, Recovered, CancelStep, EnqueueStep, ResetEmpty, Crash, Load
<1> QED
  BY <1>1, <1>2

\* Every step of the queue is a step of the ledger, or invisible to it; the first
\* append that raises is the ledger's Forget.
LEMMA StepMaps ==
  ASSUME Inv, [Next]_vars
  PROVE  [Ledger!Next]_(Ledger!vars)
<1>1. faults \in Nat /\ (faults' = faults \/ faults' = faults + 1)
  BY FaultsGrow DEF Inv, TypeOK
<1>2. CASE faults = 0 /\ faults' = 0
  BY <1>2, GoodStepMaps
<1>3. CASE faults' # 0
  <2>1. StatusOf' = [i \in Ids |-> "none"] /\ ItemOf' = [i \in Ids |-> NoItem]
    BY <1>3 DEF StatusOf, ItemOf
  <2>2. NoItem = Ledger!NoItem
    BY DEF NoItem, Ledger!NoItem
  <2> QED
    BY <2>1, <2>2 DEF Ledger!Next, Ledger!Forget
<1> QED
  BY <1>1, <1>2, <1>3

\* Until an append fails, the queue implements the ledger: a process death
\* anywhere, even between two appends of one operation, and the rebuild of the
\* index from the log are invisible to it.
THEOREM QueueImplementsLedger == Spec => ImplementsLedger
<1>1. Init => Ledger!Init
  <2> SUFFICES ASSUME Init PROVE Ledger!Init
    OBVIOUS
  <2>1. \A i \in Ids : FoldOp(log, i) = "none" /\ FoldItem(log, i) = NoItem
    <3>1. log = <<>>
      BY DEF Init
    <3> QED
      BY <3>1, EmptyLog
  <2>2. NoItem = Ledger!NoItem
    BY DEF NoItem, Ledger!NoItem
  <2> QED
    BY <2>1, <2>2 DEF Ledger!Init, StatusOf, ItemOf
<1>2. Inv /\ [Next]_vars => [Ledger!Next]_(Ledger!vars)
  BY StepMaps
<1> QED
  BY <1>1, <1>2, AlwaysInv, PTL DEF Spec, ImplementsLedger, Ledger!Spec

-----------------------------------------------------------------------------
(* Finished wakes                                                          *)

\* A wake still to be enqueued has no line on the log, and a wake that is
\* finished on disk is known to be finished (an append that fails can only make
\* memory lag behind for wakes that are open on disk).
FinalInv ==
  /\ \A e \in todo.enqueue : EventsOf(log, e.id) = {}
  /\ mode # "down" => \A i \in Ids :
       FoldOp(log, i) \in TerminalOps => ops[i] = FoldOp(log, i)

\* An append leaves the fold of a wake that is not its own alone.
LEMMA AppendElsewhere ==
  ASSUME Inv, NEW e \in Event, AppendEvent(e), NEW i \in Ids, e.id # i
  PROVE  /\ FoldOp(log', i) = FoldOp(log, i)
         /\ EventsOf(log', i) = EventsOf(log, i)
<1>1. CASE torn
  BY <1>1 DEF AppendEvent
<1>2. CASE ~torn
  <2>1. log' = Append(log, e) /\ log \in Seq(Event)
    BY <1>2 DEF AppendEvent, Inv, TypeOK
  <2>2. Bounded(EventsOf(log, i)) /\ Bounded(EnqueuesOf(log, i))
    BY DEF Inv, LogInv
  <2> QED
    BY <2>1, <2>2, FoldAppend, AppendPositions
<1> QED
  BY <1>1, <1>2 DEF Inv, TypeOK

\* An append of an event that is not an end cannot finish a wake; one that is
\* an end gives the wake that op, or leaves it as it was.
LEMMA AppendHere ==
  ASSUME Inv, NEW e \in Event, AppendEvent(e)
  PROVE  FoldOp(log', e.id) \in {FoldOp(log, e.id), e.op, "none"}
<1>0. e.id \in Ids
  BY DEF Event
<1>1. CASE torn
  BY <1>1 DEF AppendEvent
<1>2. CASE ~torn
  <2>1. log' = Append(log, e) /\ log \in Seq(Event)
    BY <1>2 DEF AppendEvent, Inv, TypeOK
  <2>2. Bounded(EventsOf(log, e.id)) /\ Bounded(EnqueuesOf(log, e.id))
    BY <1>0 DEF Inv, LogInv
  <2> QED
    BY <1>0, <2>1, <2>2, FoldAppend
<1> QED
  BY <1>1, <1>2 DEF Inv, TypeOK

\* What an operation in progress still has to do.
LEMMA TodoParts ==
  ASSUME Inv
  PROVE  /\ todo.reason \in Reasons
         /\ todo.cancel \subseteq Ids
         /\ \A i \in todo.cancel : ops[i] \in {"enqueue", "claimed"}
         /\ \A e \in todo.enqueue :
              /\ e \in EnqueueEvents /\ e \in Event /\ e.op = "enqueue"
              /\ e.id \in Ids /\ e.item \in Item /\ ops[e.id] = "none"
         /\ todo = Todo(todo.cancel, todo.reason, todo.enqueue)
<1>1. /\ todo \in [cancel : SUBSET Ids, reason : Reasons, enqueue : SUBSET EnqueueEvents]
      /\ TodoInv
  BY DEF Inv, TypeOK
<1>2. \A e \in EnqueueEvents : e \in Event /\ e.op = "enqueue" /\ e.id \in Ids /\ e.item \in Item
  BY DEF EnqueueEvents, Event
<1> QED
  BY <1>1, <1>2 DEF TodoInv, Todo

\* What every append does: it is about a wake that is not finished, neither in
\* memory nor on disk, and memory takes over its op.
Appends(e) ==
  /\ AppendEvent(e)
  /\ e \in Event
  /\ mode # "down" /\ mode' = mode
  /\ ops[e.id] \in {"none", "enqueue", "claimed"}
  /\ ops[e.id] = "none" => EventsOf(log, e.id) = {}
  /\ ops' = [ops EXCEPT ![e.id] = e.op]

\* Each step appends one event, empties the log, loads it, or leaves log and ops
\* alone (or the process dies).
LEMMA OneAppend ==
  ASSUME Inv, FinalInv, [Next]_vars
  PROVE  \/ \E e \in Event : Appends(e)
         \/ log' = <<>>
         \/ Load
         \/ Crash
         \/ UNCHANGED <<log, ops>> /\ (mode' # "down" => mode # "down")
<1>0. TypeOK /\ TodoInv /\ IndexInv
  BY DEF Inv
<1>1. ASSUME NEW i \in Ids, NEW item \in Item, Enqueue(i, item)
      PROVE  Appends(EnqueueEvent(i, item))
  <2>1. EnqueueEvent(i, item) \in Event /\ EnqueueEvent(i, item).id = i
        /\ EnqueueEvent(i, item).op = "enqueue"
    BY EnqueueEventType DEF EnqueueEvents, EnqueueEvent
  <2>2. mode # "down" /\ mode' = mode /\ ops[i] = "none" /\ EventsOf(log, i) = {}
    BY <1>1 DEF Enqueue, Unlocked, Fresh
  <2> QED
    BY <1>1, <2>1, <2>2 DEF Appends, Enqueue, IndexEnqueue
<1>2. ASSUME NEW i \in Ids, MarkDone(i) \/ Cancel(i) \/ CancelStep(i)
      PROVE  \E e \in Event : Appends(e)
  <2>1. \E op \in TerminalOps, r \in Reasons :
          AppendEvent(StatusEvent(i, op, r)) /\ IndexTerminal(i, op)
    <3>1. "done" \in TerminalOps /\ "cancelled" \in TerminalOps
          /\ "" \in Reasons /\ "open_moment_failed" \in Reasons /\ todo.reason \in Reasons
      BY TodoParts DEF TerminalOps, Reasons
    <3>2. CASE MarkDone(i)
      BY <3>1, <3>2 DEF MarkDone
    <3>3. CASE Cancel(i)
      BY <3>1, <3>3 DEF Cancel
    <3>4. CASE CancelStep(i)
      BY <3>1, <3>4 DEF CancelStep
    <3> QED
      BY <1>2, <3>2, <3>3, <3>4
  <2>a. PICK op \in TerminalOps, r \in Reasons :
          AppendEvent(StatusEvent(i, op, r)) /\ IndexTerminal(i, op)
    BY <2>1
  <2>2. mode # "down" /\ mode' = mode /\ ops[i] \in {"enqueue", "claimed"}
    BY <1>2, TodoParts DEF MarkDone, Cancel, CancelStep, Running
  <2>3. StatusEvent(i, op, r) \in Event /\ StatusEvent(i, op, r).id = i
        /\ StatusEvent(i, op, r).op = op
    BY DEF StatusEvent, Event, Ops, TerminalOps
  <2> QED
    BY <2>a, <2>2, <2>3 DEF Appends, IndexTerminal
<1>3. ASSUME Claim PROVE \E e \in Event : Appends(e)
  <2>1. PICK k \in Best : /\ Pop(k)
                          /\ AppendEvent(StatusEvent(k[3], "claimed", ""))
                          /\ ops' = [ops EXCEPT ![k[3]] = "claimed"]
    BY <1>3 DEF Claim
  <2>2. k[3] \in Ids /\ ops[k[3]] = "enqueue"
    <3>1. k[3] \in pending /\ ops[k[3]] = "enqueue"
      BY <2>1, PopTakesOne
    <3>2. pending \subseteq Ids
      BY <1>0 DEF TypeOK
    <3> QED
      BY <3>1, <3>2
  <2>3. StatusEvent(k[3], "claimed", "") \in Event
        /\ StatusEvent(k[3], "claimed", "").id = k[3]
        /\ StatusEvent(k[3], "claimed", "").op = "claimed"
    BY <2>2 DEF StatusEvent, Event, Ops, Reasons
  <2>4. mode # "down" /\ mode' = mode
    BY <1>3 DEF Claim, MayClaim, Running
  <2> QED
    BY <2>1, <2>2, <2>3, <2>4 DEF Appends
<1>4. ASSUME EnqueueStep PROVE \E e \in Event : Appends(e)
  <2>1. PICK e \in todo.enqueue : AppendEvent(e) /\ IndexEnqueue(e.id, e.item)
    BY <1>4 DEF EnqueueStep
  <2>2. e \in Event /\ e.op = "enqueue" /\ ops[e.id] = "none" /\ EventsOf(log, e.id) = {}
    BY <2>1, TodoParts DEF FinalInv
  <2>3. mode # "down" /\ mode' = mode
    BY <1>4 DEF EnqueueStep
  <2> QED
    BY <2>1, <2>2, <2>3 DEF Appends, IndexEnqueue
<1>5. \A kind \in Kinds, w \in Works, at \in Times :
        [kind |-> kind, work |-> w, at |-> at] \in Item
  BY ConstantsOK DEF Item
<1>6. CASE \E i \in Ids, item \in Item : EnqueueTaskReady(i, item)
  BY <1>6 DEF EnqueueTaskReady
<1>7. CASE \/ CancelAllPendingOfKind("moment_continue") \/ ClaimNothing \/ ClaimFails
           \/ OperationFails \/ RecoverClaimed \/ Recovered \/ StepFails
           \/ \E i, clone \in Ids, at \in Times : RecoverOne(i, clone, at)
           \/ UNCHANGED vars
  <2>1. UNCHANGED <<log, ops>>
    BY <1>7 DEF CancelAllPendingOfKind, ClaimNothing, ClaimFails, OperationFails,
       AppendFails, RecoverClaimed, Recovered, StepFails, RecoverOne, vars
  <2>2. mode' # "down" => mode # "down"
    BY <1>7 DEF CancelAllPendingOfKind, ClaimNothing, ClaimFails, OperationFails,
       RecoverClaimed, Recovered, StepFails, RecoverOne, vars
  <2> QED
    BY <2>1, <2>2
<1>8. CASE ResetEmpty
  BY <1>8 DEF ResetEmpty
<1>9. \A i \in Ids, item \in Item : EnqueueEvent(i, item) \in Event
  BY EnqueueEventType DEF EnqueueEvents
<1> QED
  BY <1>1, <1>2, <1>3, <1>4, <1>5, <1>6, <1>7, <1>8, <1>9 DEF Next

\* Such an append finishes no wake behind memory's back.
LEMMA AppendsFinal ==
  ASSUME Inv, FinalInv, NEW e \in Event, Appends(e), NEW i \in Ids
  PROVE  /\ FoldOp(log', i) \in TerminalOps => ops'[i] = FoldOp(log', i)
         /\ FoldOp(log, i) \in TerminalOps => FoldOp(log', i) = FoldOp(log, i)
<1>0. ops \in [Ids -> Ops] /\ e.id \in Ids /\ mode # "down"
  BY DEF Inv, TypeOK, Event, Appends
<1>1. FoldOp(log, i) \in TerminalOps => ops[i] = FoldOp(log, i)
  BY <1>0 DEF FinalInv
<1>2. CASE e.id # i
  BY <1>0, <1>1, <1>2, AppendElsewhere DEF Appends
<1>3. CASE e.id = i
  <2>1. FoldOp(log, i) \notin TerminalOps
    BY <1>0, <1>1, <1>3 DEF Appends, TerminalOps
  <2>2. ops'[i] = e.op
    BY <1>0, <1>3 DEF Appends
  <2>3. FoldOp(log', i) \in {FoldOp(log, i), e.op, "none"}
    BY <1>3, AppendHere DEF Appends
  <2> QED
    BY <2>1, <2>2, <2>3 DEF TerminalOps
<1> QED
  BY <1>2, <1>3

\* The lines of a wake still to be enqueued: none, after every step.
LEMMA FreshStays ==
  ASSUME Inv, FinalInv, [Next]_vars
  PROVE  \A e \in todo'.enqueue : EventsOf(log', e.id) = {}
<1> SUFFICES ASSUME NEW e \in todo'.enqueue PROVE EventsOf(log', e.id) = {}
  OBVIOUS
<1>0. TypeOK /\ TodoInv
  BY DEF Inv
<1>1. CASE todo' = Idle
  BY <1>1 DEF Idle
<1>2. CASE \E i \in Ids : CancelStep(i)
  <2>1. PICK i \in Ids : CancelStep(i)
    BY <1>2
  <2>2. e \in todo.enqueue
    <3>1. todo' = Idle \/ todo' = [todo EXCEPT !.cancel = @ \ {i}]
      BY <2>1 DEF CancelStep
    <3>2. Idle.enqueue = {}
      BY DEF Idle
    <3>3. [todo EXCEPT !.cancel = @ \ {i}].enqueue = todo.enqueue
      BY TodoParts DEF Todo
    <3> QED
      BY <3>1, <3>2, <3>3
  <2>3. e.id \in Ids /\ i # e.id /\ EventsOf(log, e.id) = {}
    <3>1. ops[e.id] = "none" /\ e.id \in Ids
      BY <2>2, TodoParts
    <3>2. ops[i] \in {"enqueue", "claimed"}
      BY <2>1, TodoParts DEF CancelStep
    <3> QED
      BY <2>2, <3>1, <3>2 DEF FinalInv
  <2>4. /\ StatusEvent(i, "cancelled", todo.reason) \in Event
        /\ StatusEvent(i, "cancelled", todo.reason).id = i
        /\ AppendEvent(StatusEvent(i, "cancelled", todo.reason))
    BY <1>0, <2>1 DEF CancelStep, StatusEvent, Event, Ops, TypeOK
  <2> QED
    BY <2>3, <2>4, AppendElsewhere
<1>3. CASE \E i \in Ids, item \in Item : EnqueueTaskReady(i, item)
  <2>1. PICK i \in Ids, item \in Item : EnqueueTaskReady(i, item)
    BY <1>3
  <2>2. e = EnqueueEvent(i, item) /\ EventsOf(log, i) = {} /\ log' = log
    BY <2>1 DEF EnqueueTaskReady, Todo, Fresh
  <2> QED
    BY <2>2, EnqueueEventType
<1>4. CASE \E i, clone \in Ids, at \in Times : RecoverOne(i, clone, at)
  <2>1. PICK i \in Ids, clone \in Ids, at \in Times : RecoverOne(i, clone, at)
    BY <1>4
  <2>2. e = EnqueueEvent(clone, [items[i] EXCEPT !.at = at])
    BY <2>1 DEF RecoverOne, Todo
  <2> QED
    BY <2>1, <2>2 DEF RecoverOne, Fresh, EnqueueEvent
<1>5. CASE UNCHANGED <<log, todo>>
  BY <1>5 DEF FinalInv
<1>6. CASE CancelAllPendingOfKind("moment_continue")
  BY <1>6 DEF CancelAllPendingOfKind, Todo
<1>7. CASE todo = Idle /\ UNCHANGED todo
  BY <1>7 DEF Idle
<1>8. CASE \E i \in Ids, item \in Item : Enqueue(i, item)
  BY <1>7, <1>8 DEF Enqueue, Unlocked
<1>9. CASE Claim \/ ClaimNothing \/ ClaimFails \/ ResetEmpty \/ \E i \in Ids : MarkDone(i) \/ Cancel(i)
  BY <1>7, <1>9 DEF Claim, ClaimNothing, ClaimFails, ResetEmpty, MarkDone, Cancel, MayClaim, Running
<1>10. CASE OperationFails \/ RecoverClaimed \/ Recovered
  BY <1>7, <1>10 DEF OperationFails, RecoverClaimed, Recovered, Unlocked
<1>11. CASE EnqueueStep \/ StepFails \/ Crash
  BY <1>1, <1>11 DEF EnqueueStep, StepFails, Crash
<1>12. CASE Load \/ UNCHANGED vars
  BY <1>5, <1>12 DEF Load, vars
<1>13. \A kind \in Kinds, w \in Works, at \in Times :
        [kind |-> kind, work |-> w, at |-> at] \in Item
  BY ConstantsOK DEF Item
<1> QED
  BY <1>2, <1>3, <1>4, <1>6, <1>8, <1>9, <1>10, <1>11, <1>12, <1>13 DEF Next

LEMMA FinalStep ==
  ASSUME Inv, FinalInv, [Next]_vars
  PROVE  /\ FinalInv'
         /\ log' # <<>> => \A i \in Ids : FoldOp(log, i) \in TerminalOps =>
              FoldOp(log', i) = FoldOp(log, i)
<1>1. CASE \E e \in Event : Appends(e)
  <2>1. PICK e \in Event : Appends(e)
    BY <1>1
  <2> QED
    BY <2>1, AppendsFinal, FreshStays DEF FinalInv
<1>2. CASE log' = <<>>
  <2>1. \A i \in Ids : FoldOp(log', i) = "none"
    BY <1>2, EmptyLog
  <2> QED
    BY <1>2, <2>1, FreshStays DEF FinalInv, TerminalOps
<1>3. CASE Load
  <2>1. log' = log /\ \A i \in Ids : ops'[i] = FoldOp(log, i)
    BY <1>3 DEF Load
  <2> QED
    BY <2>1, FreshStays DEF FinalInv
<1>4. CASE Crash
  BY <1>4, FreshStays DEF FinalInv, Crash
<1>5. CASE UNCHANGED <<log, ops>> /\ (mode' # "down" => mode # "down")
  BY <1>5, FreshStays DEF FinalInv
<1> QED
  BY <1>1, <1>2, <1>3, <1>4, <1>5, OneAppend

LEMMA AlwaysFinal == Spec => []FinalInv
<1>1. Init => FinalInv
  <2> SUFFICES ASSUME Init PROVE FinalInv
    OBVIOUS
  <2>1. \A i \in Ids : FoldOp(log, i) = "none"
    BY EmptyLog DEF Init
  <2> QED
    BY <2>1 DEF Init, FinalInv, Idle, TerminalOps
<1>2. Inv /\ FinalInv /\ [Next]_vars => FinalInv'
  BY FinalStep
<1> QED
  BY <1>1, <1>2, AlwaysInv, PTL DEF Spec

\* A wake that is done or cancelled on disk is never claimable again, whatever
\* crashes, recoveries and failed appends follow: ids are fresh uuids, and an
\* operation only finishes what the index has as open.
THEOREM FinalStaysFinal == Spec => TerminalIsFinal
<1>1. Inv /\ FinalInv /\ [Next]_vars =>
        [log' # <<>> => \A i \in Ids : FoldOp(log, i) \in TerminalOps =>
           FoldOp(log', i) = FoldOp(log, i)]_vars
  BY FinalStep
<1> QED
  BY <1>1, AlwaysInv, AlwaysFinal, PTL DEF Spec, TerminalIsFinal

-----------------------------------------------------------------------------
(* Delivery: what a step does to the log's view of the wakes               *)

\* As long as no append has failed, a step leaves the view alone,
Still == UNCHANGED <<log, StatusOf, ItemOf, delivered>>

\* adds a wake to it,
Adds(e) ==
  /\ log' = Append(log, e)
  /\ EventsOf(log, e.id) = {}
  /\ StatusOf[e.id] = "none"
  /\ StatusOf' = [StatusOf EXCEPT ![e.id] = "enqueue"]
  /\ ItemOf' = [ItemOf EXCEPT ![e.id] = e.item]
  /\ UNCHANGED delivered

\* hands one out,
Claims(i) ==
  /\ log' = Append(log, StatusEvent(i, "claimed", ""))
  /\ StatusOf[i] = "enqueue" /\ ItemOf[i] \in Item
  /\ \A j \in Ids : StatusOf[j] # "claimed"
  /\ StatusOf' = [StatusOf EXCEPT ![i] = "claimed"]
  /\ UNCHANGED ItemOf
  /\ delivered' = [delivered EXCEPT ![<<ItemOf[i].kind, ItemOf[i].work>>] = @ + 1]

\* ends one,
Ends(i, op, r) ==
  /\ log' = Append(log, StatusEvent(i, op, r))
  /\ StatusOf[i] \in {"enqueue", "claimed"}
  /\ StatusOf' = [StatusOf EXCEPT ![i] = op]
  /\ UNCHANGED <<ItemOf, delivered>>

\* or empties it.
Empties ==
  /\ log' = <<>>
  /\ StatusOf' = [i \in Ids |-> "none"]
  /\ ItemOf' = [i \in Ids |-> NoItem]
  /\ delivered' = [w \in KnownKinds \X Works |-> 0]

\* The work of two items is the same.
SameWork(x, y) == x.kind = y.kind /\ x.work = y.work

SocialKinds == {"user_message", "wait_reply", "wait_timeout"}

\* At most once: social work has one wake, which is not handed out while it
\* waits to be claimed; what recovery enqueues again is not social.
OnceInv ==
  /\ \A e \in todo.enqueue : e.item.kind \in ReEnqueueOnRecover
  /\ faults = 0 => \A i \in Ids : ItemOf[i].kind \in SocialKinds =>
       /\ \A j \in Ids : SameWork(ItemOf[j], ItemOf[i]) => i = j
       /\ delivered[<<ItemOf[i].kind, ItemOf[i].work>>] <= 1
       /\ StatusOf[i] = "enqueue" => delivered[<<ItemOf[i].kind, ItemOf[i].work>>] = 0
  /\ faults = 0 => \A kind \in SocialKinds, w \in Works :
       delivered[<<kind, w>>] = 0 \/ \E i \in Ids : ItemOf[i].kind = kind /\ ItemOf[i].work = w

\* Line n cancels a durable wake whose moment was interrupted; a later line
\* enqueues its work again.
Interrupted(n) ==
  /\ log[n].reason = "interrupted_redelivery"
  /\ ItemOf[log[n].id].kind \in ReEnqueueOnRecover

Redelivered(n) ==
  \E m \in DOMAIN log :
    m > n /\ log[m].op = "enqueue" /\ SameWork(log[m].item, ItemOf[log[n].id])

\* At least once: every such line is made up for, or recovery is just about to.
Covered(n) ==
  \/ Redelivered(n)
  \/ mode = "recovering" /\ \E e \in todo.enqueue : SameWork(e.item, ItemOf[log[n].id])

RedeliverInv ==
  faults = 0 =>
    /\ \A e, f \in todo.enqueue : e = f
    /\ \A n \in DOMAIN log : Interrupted(n) => Covered(n)
    /\ todo.reason = "interrupted_redelivery" =>
         /\ mode = "recovering"
         /\ \A i \in todo.cancel : ItemOf[i].kind \in ReEnqueueOnRecover =>
              \E e \in todo.enqueue : SameWork(e.item, ItemOf[i])

\* No pile-up: one wake is in flight, a task has at most two open wakes, and what
\* is about to be enqueued finds at most one of its task left.
AtMostOne(S) == \A i, j \in S : i = j
AtMostTwo(S) == \A i, j, k \in S : i = j \/ j = k \/ i = k

OpenReady(w) ==
  {i \in Ids : StatusOf[i] \in {"enqueue", "claimed"} /\ ItemOf[i].kind = "task_ready"
               /\ ItemOf[i].work = w}

BusyInv ==
  faults = 0 =>
    /\ \A i, j \in Ids : StatusOf[i] = "claimed" /\ StatusOf[j] = "claimed" => i = j
    /\ \A w \in Works : AtMostTwo(OpenReady(w))
    /\ \A e \in todo.enqueue : e.item.kind = "task_ready" =>
         AtMostOne(OpenReady(e.item.work) \ todo.cancel)

-----------------------------------------------------------------------------
(* Every step is one of the five                                           *)

LEMMA EmptyView ==
  ASSUME log' = <<>>
  PROVE  StatusOf' = [i \in Ids |-> "none"] /\ ItemOf' = [i \in Ids |-> NoItem]
  BY EmptyLog DEF StatusOf, ItemOf

\* The view of an append while none has failed.
LEMMA AddsView ==
  ASSUME Inv, faults = 0, faults' = 0, mode # "down",
         NEW e \in EnqueueEvents, ops[e.id] = "none", EventsOf(log, e.id) = {},
         AppendEvent(e), UNCHANGED delivered
  PROVE  Adds(e)
<1>1. e \in Event /\ e.op = "enqueue" /\ e.id \in Ids
  BY DEF EnqueueEvents, Event
<1>2. log' = Append(log, e)
  BY DEF AppendEvent, Inv, LogInv
<1>3. StatusOf[e.id] = "none"
  BY <1>1, ViewIsIndex
<1> QED
  BY <1>1, <1>2, <1>3, ViewAppend DEF Adds

LEMMA EndsView ==
  ASSUME Inv, faults = 0, faults' = 0, mode # "down",
         NEW i \in Ids, NEW op \in TerminalOps, NEW r \in Reasons,
         ops[i] \in {"enqueue", "claimed"},
         AppendEvent(StatusEvent(i, op, r)), UNCHANGED delivered
  PROVE  Ends(i, op, r)
<1>1. /\ StatusEvent(i, op, r) \in Event /\ StatusEvent(i, op, r).id = i
      /\ StatusEvent(i, op, r).op = op /\ op # "enqueue"
  BY DEF StatusEvent, Event, Ops, TerminalOps
<1>2. log' = Append(log, StatusEvent(i, op, r))
  BY DEF AppendEvent, Inv, LogInv
<1>3. StatusOf[i] = ops[i]
  BY ViewIsIndex
<1> QED
  BY <1>1, <1>2, <1>3, ViewAppend DEF Ends

LEMMA ClaimsView ==
  ASSUME Inv, faults = 0, Claim
  PROVE  \E i \in Ids : Claims(i)
<1>1. PICK k \in Best : /\ Pop(k) /\ AppendEvent(StatusEvent(k[3], "claimed", ""))
                        /\ delivered' = [delivered EXCEPT ![<<items[k[3]].kind, items[k[3]].work>>] = @ + 1]
  BY DEF Claim
<1>2. k[3] \in pending /\ ops[k[3]] = "enqueue" /\ items[k[3]] \in Item
  BY <1>1, PopTakesOne
<1>3. k[3] \in Ids
  BY <1>2 DEF Inv, TypeOK
<1>4. /\ StatusEvent(k[3], "claimed", "") \in Event
      /\ StatusEvent(k[3], "claimed", "").id = k[3]
      /\ StatusEvent(k[3], "claimed", "").op = "claimed"
  BY <1>3 DEF StatusEvent, Event, Ops, Reasons
<1>5. mode # "down" /\ faults' = 0 /\ \A j \in Ids : ops[j] # "claimed"
  <2>1. Running /\ faults' = faults /\ (faults > 0 \/ \A j \in Ids : ops[j] # "claimed")
    BY DEF Claim, MayClaim
  <2>2. ~(faults > 0)
    OBVIOUS
  <2> QED
    BY <2>1, <2>2 DEF Running
<1>6. \A j \in Ids : StatusOf[j] = ops[j] /\ ItemOf[j] = items[j]
  BY <1>5, ViewIsIndex
<1>7. log' = Append(log, StatusEvent(k[3], "claimed", ""))
  BY <1>1 DEF AppendEvent, Inv, LogInv
<1>8. StatusOf' = [StatusOf EXCEPT ![k[3]] = "claimed"] /\ ItemOf' = ItemOf
  BY <1>1, <1>2, <1>3, <1>4, <1>5, <1>6, ViewAppend
<1> QED
  BY <1>1, <1>2, <1>3, <1>5, <1>6, <1>7, <1>8 DEF Claims

\* What a step leaves to be done when it leaves the view alone: as before, or
\* nothing, or the operation it begins.
Begins ==
  \/ UNCHANGED todo /\ (mode' = mode \/ todo = Idle)
  \/ \E i \in Ids, item \in Item : EnqueueTaskReady(i, item)
  \/ CancelAllPendingOfKind("moment_continue")
  \/ \E i, clone \in Ids, at \in Times : RecoverOne(i, clone, at)
  \/ Crash

\* Where an added wake comes from: its caller, with work of its own that is not a
\* ready task, or the operation in progress.
AddsFrom(e) ==
  \/ /\ todo = Idle /\ e.item.kind # "task_ready"
     /\ \A j \in Ids : ItemOf[j] # NoItem => ~SameWork(ItemOf[j], e.item)
  \/ e \in todo.enqueue /\ todo.cancel = {}

\* Who ends a wake: the worker, or the operation in progress.
EndsFrom(i, r) ==
  \/ todo = Idle /\ UNCHANGED todo /\ r # "interrupted_redelivery"
  \/ /\ i \in todo.cancel /\ r = todo.reason
     /\ \/ todo.enqueue = {} /\ todo.cancel = {i} /\ todo' = Idle
        \/ todo' = Todo(todo.cancel \ {i}, todo.reason, todo.enqueue)

LEMMA FiveSteps ==
  ASSUME Inv, FinalInv, [Next]_vars, faults = 0, faults' = 0
  PROVE  \/ Still /\ Begins
         \/ \E e \in EnqueueEvents : Adds(e) /\ AddsFrom(e) /\ todo' = Idle /\ mode' = mode
         \/ \E i \in Ids : Claims(i) /\ todo = Idle /\ UNCHANGED <<todo, mode>>
         \/ \E i \in Ids, op \in TerminalOps, r \in Reasons :
              Ends(i, op, r) /\ EndsFrom(i, r) /\ mode' = mode
         \/ Empties /\ todo = Idle /\ UNCHANGED <<todo, mode>>
<1>1. ASSUME UNCHANGED <<log, delivered>> PROVE Still
  BY <1>1 DEF Still, StatusOf, ItemOf
<1>2. CASE \E i \in Ids, item \in Item : Enqueue(i, item)
  <2>1. PICK i \in Ids, item \in Item : Enqueue(i, item)
    BY <1>2
  <2>2. /\ EnqueueEvent(i, item) \in EnqueueEvents /\ EnqueueEvent(i, item).id = i
        /\ EnqueueEvent(i, item).item = item
    BY EnqueueEventType
  <2>3. /\ mode # "down" /\ todo = Idle /\ UNCHANGED <<todo, mode, delivered>>
        /\ ops[i] = "none" /\ EventsOf(log, i) = {} /\ AppendEvent(EnqueueEvent(i, item))
        /\ item.kind # "task_ready"
    BY <2>1 DEF Enqueue, Unlocked, Fresh
  <2>4. \A j \in Ids : ItemOf[j] # NoItem => ~SameWork(ItemOf[j], item)
    BY <2>1 DEF Enqueue, ItemOf, SameWork
  <2>5. Adds(EnqueueEvent(i, item))
    BY <2>2, <2>3, AddsView
  <2>6. AddsFrom(EnqueueEvent(i, item))
    BY <2>2, <2>3, <2>4 DEF AddsFrom
  <2> QED
    BY <2>2, <2>3, <2>5, <2>6
<1>3. CASE EnqueueStep
  <2>1. PICK e \in todo.enqueue : AppendEvent(e)
    BY <1>3 DEF EnqueueStep
  <2>2. todo.cancel = {} /\ todo' = Idle /\ mode # "down" /\ UNCHANGED <<mode, delivered>>
    BY <1>3 DEF EnqueueStep
  <2>3. e \in EnqueueEvents /\ ops[e.id] = "none" /\ EventsOf(log, e.id) = {}
    BY TodoParts DEF FinalInv
  <2>4. Adds(e)
    BY <2>1, <2>2, <2>3, AddsView
  <2> QED
    BY <2>1, <2>2, <2>3, <2>4 DEF AddsFrom
<1>4. CASE Claim
  BY <1>4, ClaimsView DEF Claim, MayClaim, Running
<1>5. CASE \E i \in Ids : MarkDone(i) \/ Cancel(i)
  <2>1. PICK i \in Ids : MarkDone(i) \/ Cancel(i)
    BY <1>5
  <2>2. /\ mode # "down" /\ todo = Idle /\ UNCHANGED <<todo, mode, delivered>>
        /\ ops[i] \in {"enqueue", "claimed"}
    BY <2>1 DEF MarkDone, Cancel, Running
  <2>3. \E op \in TerminalOps, r \in Reasons :
          AppendEvent(StatusEvent(i, op, r)) /\ r # "interrupted_redelivery"
    <3>1. /\ "done" \in TerminalOps /\ "cancelled" \in TerminalOps
          /\ "" \in Reasons /\ "open_moment_failed" \in Reasons
      BY DEF TerminalOps, Reasons
    <3>2. CASE MarkDone(i)
      BY <3>1, <3>2 DEF MarkDone
    <3>3. CASE Cancel(i)
      BY <3>1, <3>3 DEF Cancel
    <3> QED
      BY <2>1, <3>2, <3>3
  <2> QED
    BY <2>2, <2>3, EndsView DEF EndsFrom
<1>6. CASE \E i \in Ids : CancelStep(i)
  <2>1. PICK i \in Ids : CancelStep(i)
    BY <1>6
  <2>2. /\ mode # "down" /\ i \in todo.cancel /\ UNCHANGED <<mode, delivered>>
        /\ ops[i] \in {"enqueue", "claimed"} /\ todo.reason \in Reasons
        /\ AppendEvent(StatusEvent(i, "cancelled", todo.reason))
    BY <2>1, TodoParts DEF CancelStep
  <2>3. \/ todo.enqueue = {} /\ todo.cancel = {i} /\ todo' = Idle
        \/ todo' = Todo(todo.cancel \ {i}, todo.reason, todo.enqueue)
    <3>1. todo = [cancel |-> todo.cancel, reason |-> todo.reason, enqueue |-> todo.enqueue]
      BY TodoParts DEF Todo
    <3>2. [todo EXCEPT !.cancel = @ \ {i}] = Todo(todo.cancel \ {i}, todo.reason, todo.enqueue)
      BY <3>1 DEF Todo
    <3> QED
      BY <2>1, <3>2 DEF CancelStep
  <2>4. "cancelled" \in TerminalOps
    BY DEF TerminalOps
  <2> QED
    BY <2>2, <2>3, <2>4, EndsView DEF EndsFrom
<1>7. CASE ResetEmpty
  BY <1>7, EmptyView DEF ResetEmpty, Running, Empties
<1>8. CASE \E i \in Ids, item \in Item : EnqueueTaskReady(i, item)
  BY <1>1, <1>8 DEF EnqueueTaskReady, Begins
<1>9. CASE CancelAllPendingOfKind("moment_continue")
  BY <1>1, <1>9 DEF CancelAllPendingOfKind, Begins
<1>10. CASE \E i, clone \in Ids, at \in Times : RecoverOne(i, clone, at)
  BY <1>1, <1>10 DEF RecoverOne, Begins
<1>11. CASE Crash
  BY <1>1, <1>11 DEF Crash, Begins
<1>12. CASE ClaimNothing \/ RecoverClaimed \/ Recovered \/ UNCHANGED vars
  BY <1>1, <1>12 DEF ClaimNothing, RecoverClaimed, Recovered, vars, Begins
<1>13. CASE Load
  <2>1. todo = Idle
    BY <1>13 DEF Load, Inv, TodoInv
  <2> QED
    BY <1>1, <1>13, <2>1 DEF Load, Begins
<1>14. CASE ClaimFails \/ OperationFails \/ StepFails
  BY <1>14 DEF ClaimFails, OperationFails, StepFails, AppendFails
<1>15. \A kind \in Kinds, w \in Works, at \in Times :
         [kind |-> kind, work |-> w, at |-> at] \in Item
  BY ConstantsOK DEF Item
<1> QED
  BY <1>2, <1>3, <1>4, <1>5, <1>6, <1>7, <1>8, <1>9, <1>10, <1>11, <1>12, <1>13, <1>14, <1>15
     DEF Next

\* The view has the type of the index.
LEMMA ViewType ==
  ASSUME Inv
  PROVE  /\ StatusOf \in [Ids -> Ops]
         /\ ItemOf \in [Ids -> Item \cup {NoItem}]
         /\ \A i \in Ids : StatusOf[i] = "none" <=> ItemOf[i] = NoItem
<1>1. \A i \in Ids : /\ FoldOp(log, i) \in Ops
                     /\ FoldItem(log, i) \in Item \cup {NoItem}
                     /\ FoldOp(log, i) = "none" <=> FoldItem(log, i) = NoItem
  BY FoldType DEF Inv
<1>2. "none" \in Ops
  BY DEF Ops
<1> QED
  BY <1>1, <1>2 DEF StatusOf, ItemOf

LEMMA NoItemKind == NoItem.kind \notin KnownKinds
  BY DEF NoItem, KnownKinds, Priority

LEMMA KindSets ==
  /\ SocialKinds \subseteq KnownKinds
  /\ ReEnqueueOnRecover \cap SocialKinds = {}
  BY DEF SocialKinds, ReEnqueueOnRecover, KnownKinds, Priority

\* What recovery enqueues is durable, and has the work of the wake it replaces.
LEMMA RecoverTodo ==
  ASSUME Inv, NEW i \in Ids, NEW clone \in Ids, NEW at \in Times, RecoverOne(i, clone, at)
  PROVE  \E E : /\ todo' = Todo({i}, "interrupted_redelivery", E)
                /\ \A e, f \in E : e = f
                /\ \A e \in E : /\ e.item.kind \in ReEnqueueOnRecover
                                /\ e.item.kind = items[i].kind /\ e.item.work = items[i].work
                /\ items[i].kind \in ReEnqueueOnRecover => E # {}
<1> DEFINE item == [items[i] EXCEPT !.at = at]
           E == IF items[i].kind \in ReEnqueueOnRecover
                  THEN {EnqueueEvent(clone, item)} ELSE {}
<1>1. items[i] \in Item
  BY DEF RecoverOne, Inv, TypeOK, IndexInv
<1>2. item \in Item /\ item.kind = items[i].kind /\ item.work = items[i].work
  BY <1>1 DEF Item
<1>3. EnqueueEvent(clone, item).item = item
  BY <1>2, EnqueueEventType
<1>4. todo' = Todo({i}, "interrupted_redelivery", E)
  BY DEF RecoverOne
<1> HIDE DEF item
<1>5. /\ \A e, f \in E : e = f
      /\ \A e \in E : /\ e.item.kind \in ReEnqueueOnRecover
                      /\ e.item.kind = items[i].kind /\ e.item.work = items[i].work
      /\ items[i].kind \in ReEnqueueOnRecover => E # {}
  BY <1>2, <1>3
<1> QED
  BY <1>4, <1>5

-----------------------------------------------------------------------------
(* At most once                                                            *)

\* What is about to be enqueued is durable, after every step.
LEMMA DurableTodo ==
  ASSUME Inv, FinalInv, OnceInv, [Next]_vars
  PROVE  \A e \in todo'.enqueue : e.item.kind \in ReEnqueueOnRecover
<1>1. CASE UNCHANGED todo
  BY <1>1 DEF OnceInv
<1>2. CASE todo' = Idle
  BY <1>2 DEF Idle
<1>3. CASE \E i \in Ids, item \in Item : EnqueueTaskReady(i, item)
  <2>1. PICK i \in Ids, item \in Item : EnqueueTaskReady(i, item)
    BY <1>3
  <2>2. item.kind = "task_ready" /\ todo'.enqueue = {EnqueueEvent(i, item)}
    BY <2>1 DEF EnqueueTaskReady, Todo
  <2> QED
    BY <2>2, EnqueueEventType DEF ReEnqueueOnRecover
<1>4. CASE \E i, clone \in Ids, at \in Times : RecoverOne(i, clone, at)
  BY <1>4, RecoverTodo DEF Todo
<1>5. CASE \E i \in Ids : CancelStep(i)
  <2>1. PICK i \in Ids : CancelStep(i)
    BY <1>5
  <2>2. todo' = Idle \/ todo' = [todo EXCEPT !.cancel = @ \ {i}]
    BY <2>1 DEF CancelStep
  <2>3. [todo EXCEPT !.cancel = @ \ {i}].enqueue = todo.enqueue
    BY TodoParts DEF Todo
  <2>4. todo' = Idle \/ todo'.enqueue = todo.enqueue
    BY <2>2, <2>3
  <2> QED
    BY <1>2, <2>4 DEF OnceInv
<1>6. CASE CancelAllPendingOfKind("moment_continue")
  BY <1>6 DEF CancelAllPendingOfKind, Todo
<1>7. CASE \/ \E i \in Ids, item \in Item : Enqueue(i, item)
           \/ \E i \in Ids : MarkDone(i) \/ Cancel(i)
           \/ Claim \/ ClaimNothing \/ ClaimFails \/ OperationFails \/ RecoverClaimed
           \/ Recovered \/ ResetEmpty \/ Load \/ UNCHANGED vars
  BY <1>1, <1>7 DEF Enqueue, MarkDone, Cancel, Claim, ClaimNothing, ClaimFails,
     OperationFails, RecoverClaimed, Recovered, ResetEmpty, Load, vars
<1>8. CASE EnqueueStep \/ StepFails \/ Crash
  BY <1>2, <1>8 DEF EnqueueStep, StepFails, Crash
<1>9. \A kind \in Kinds, w \in Works, at \in Times :
        [kind |-> kind, work |-> w, at |-> at] \in Item
  BY ConstantsOK DEF Item
<1> QED
  BY <1>3, <1>4, <1>5, <1>6, <1>7, <1>8, <1>9 DEF Next

\* Without a failed append so far, there was none before the step.
LEMMA FaultsBefore ==
  ASSUME Inv, [Next]_vars, faults' = 0
  PROVE  faults = 0
  BY FaultsGrow DEF Inv, TypeOK

LEMMA OnceStep ==
  ASSUME Inv, FinalInv, OnceInv, [Next]_vars
  PROVE  OnceInv'
<1> DEFINE Mine(i) == ItemOf[i].kind \in SocialKinds =>
             /\ \A j \in Ids : SameWork(ItemOf[j], ItemOf[i]) => i = j
             /\ delivered[<<ItemOf[i].kind, ItemOf[i].work>>] <= 1
             /\ StatusOf[i] = "enqueue" => delivered[<<ItemOf[i].kind, ItemOf[i].work>>] = 0
           Known == \A kind \in SocialKinds, w \in Works :
             delivered[<<kind, w>>] = 0
               \/ \E i \in Ids : ItemOf[i].kind = kind /\ ItemOf[i].work = w
<1> SUFFICES ASSUME faults' = 0 PROVE (\A i \in Ids : Mine(i))' /\ Known'
  BY DurableTodo DEF OnceInv
<1>0. faults = 0
  BY FaultsBefore
<1>1. /\ \A i \in Ids : Mine(i)
      /\ Known
      /\ StatusOf \in [Ids -> Ops] /\ ItemOf \in [Ids -> Item \cup {NoItem}]
      /\ \A i \in Ids : StatusOf[i] = "none" <=> ItemOf[i] = NoItem
      /\ delivered \in [KnownKinds \X Works -> Nat]
  BY <1>0, ViewType DEF OnceInv, Inv, TypeOK
<1>2. CASE Still
  BY <1>1, <1>2 DEF Still
<1>3. CASE \E e \in EnqueueEvents : Adds(e) /\ AddsFrom(e)
  <2>1. PICK e \in EnqueueEvents : Adds(e) /\ AddsFrom(e)
    BY <1>3
  <2>2. e.id \in Ids /\ e.item \in Item
    BY DEF EnqueueEvents, Event
  <2>3. /\ \A i \in Ids : StatusOf'[i] = IF i = e.id THEN "enqueue" ELSE StatusOf[i]
        /\ \A i \in Ids : ItemOf'[i] = IF i = e.id THEN e.item ELSE ItemOf[i]
        /\ delivered' = delivered /\ ItemOf[e.id] = NoItem
    BY <1>1, <2>1, <2>2 DEF Adds
  <2>4. \/ \A j \in Ids : ItemOf[j] # NoItem => ~SameWork(ItemOf[j], e.item)
        \/ e.item.kind \notin SocialKinds
    BY <2>1, KindSets DEF AddsFrom, OnceInv
  <2>5. ~SameWork(NoItem, e.item)
    BY <2>2, NoItemKind DEF SameWork, Item
  <2>6. e.item.kind \in SocialKinds => \A j \in Ids : ~SameWork(ItemOf[j], e.item)
    BY <2>4, <2>5
  <2>7. e.item.kind \in SocialKinds => delivered[<<e.item.kind, e.item.work>>] = 0
    BY <1>1, <2>2, <2>6 DEF SameWork, Item
  <2>8. Mine(e.id)'
    BY <2>2, <2>3, <2>6, <2>7 DEF SameWork
  <2>9. ASSUME NEW i \in Ids, i # e.id PROVE Mine(i)'
    <3>1. ItemOf'[i] = ItemOf[i] /\ StatusOf'[i] = StatusOf[i]
      BY <2>3, <2>9
    <3>2. ItemOf[i].kind \in SocialKinds => ~SameWork(e.item, ItemOf[i])
      BY <2>6 DEF SameWork
    <3>3. ASSUME NEW j \in Ids, SameWork(ItemOf'[j], ItemOf[i]), ItemOf[i].kind \in SocialKinds
          PROVE  i = j
      BY <1>1, <2>3, <3>2, <3>3
    <3> QED
      BY <1>1, <2>3, <3>1, <3>3
  <2>10. Known'
    <3>1. ASSUME NEW kind \in SocialKinds, NEW w \in Works
          PROVE  \/ delivered[<<kind, w>>] = 0
                 \/ \E i \in Ids : ItemOf'[i].kind = kind /\ ItemOf'[i].work = w
      <4>1. ASSUME NEW i \in Ids, ItemOf[i].kind = kind
            PROVE  ItemOf'[i] = ItemOf[i]
        BY <2>3, <4>1, NoItemKind, KindSets
      <4> QED
        BY <1>1, <4>1
    <3> QED
      BY <2>3, <3>1
  <2> QED
    BY <2>8, <2>9, <2>10
<1>4. CASE \E i \in Ids : Claims(i)
  <2>1. PICK c \in Ids : Claims(c)
    BY <1>4
  <2>2. /\ \A i \in Ids : StatusOf'[i] = IF i = c THEN "claimed" ELSE StatusOf[i]
        /\ ItemOf' = ItemOf /\ StatusOf[c] = "enqueue" /\ ItemOf[c] \in Item
    BY <1>1, <2>1 DEF Claims
  <2>3. <<ItemOf[c].kind, ItemOf[c].work>> \in KnownKinds \X Works
    BY <2>2 DEF Item
  <2>4. \A p \in KnownKinds \X Works :
          delivered'[p] = IF p = <<ItemOf[c].kind, ItemOf[c].work>>
                            THEN delivered[p] + 1 ELSE delivered[p]
    BY <1>1, <2>1, <2>3 DEF Claims
  <2>5. ASSUME NEW i \in Ids PROVE Mine(i)'
    <3> SUFFICES ASSUME ItemOf[i].kind \in SocialKinds PROVE Mine(i)'
      BY <2>2
    <3>1. ItemOf[i] \in Item
      BY <1>1, NoItemKind, KindSets
    <3>2. <<ItemOf[i].kind, ItemOf[i].work>> \in KnownKinds \X Works
      BY <3>1 DEF Item
    <3>3. CASE i = c
      BY <1>1, <2>2, <2>3, <2>4, <3>3
    <3>4. CASE i # c
      <4>1. <<ItemOf[i].kind, ItemOf[i].work>> # <<ItemOf[c].kind, ItemOf[c].work>>
        BY <1>1, <3>4 DEF SameWork
      <4> QED
        BY <1>1, <2>2, <2>4, <3>2, <3>4, <4>1
    <3> QED
      BY <3>3, <3>4
  <2>6. Known'
    <3>1. ASSUME NEW kind \in SocialKinds, NEW w \in Works
          PROVE  \/ delivered'[<<kind, w>>] = 0
                 \/ \E i \in Ids : ItemOf'[i].kind = kind /\ ItemOf'[i].work = w
      <4>1. <<kind, w>> \in KnownKinds \X Works
        BY KindSets
      <4>2. CASE <<kind, w>> = <<ItemOf[c].kind, ItemOf[c].work>>
        BY <2>2, <4>2
      <4>3. CASE <<kind, w>> # <<ItemOf[c].kind, ItemOf[c].work>>
        BY <1>1, <2>2, <2>4, <4>1, <4>3
      <4> QED
        BY <4>2, <4>3
    <3> QED
      BY <3>1
  <2> QED
    BY <2>5, <2>6
<1>5. CASE \E i \in Ids, op \in TerminalOps, r \in Reasons : Ends(i, op, r)
  <2>1. PICK c \in Ids, op \in TerminalOps, r \in Reasons : Ends(c, op, r)
    BY <1>5
  <2>2. /\ \A i \in Ids : StatusOf'[i] = IF i = c THEN op ELSE StatusOf[i]
        /\ ItemOf' = ItemOf /\ delivered' = delivered /\ op # "enqueue"
    BY <1>1, <2>1 DEF Ends, TerminalOps
  <2> QED
    BY <1>1, <2>2
<1>6. CASE Empties
  <2>1. \A i \in Ids : ItemOf'[i].kind \notin SocialKinds
    BY <1>6, NoItemKind, KindSets DEF Empties
  <2>2. \A kind \in SocialKinds, w \in Works : delivered'[<<kind, w>>] = 0
    BY <1>6, KindSets DEF Empties
  <2> QED
    BY <2>1, <2>2
<1> QED
  BY <1>0, <1>2, <1>3, <1>4, <1>5, <1>6, FiveSteps

LEMMA AlwaysOnce == Spec => []OnceInv
<1>1. Init => OnceInv
  <2> SUFFICES ASSUME Init PROVE OnceInv
    OBVIOUS
  <2>1. \A i \in Ids : ItemOf[i].kind \notin SocialKinds
    BY EmptyLog, NoItemKind, KindSets DEF Init, ItemOf
  <2>2. \A kind \in SocialKinds, w \in Works : delivered[<<kind, w>>] = 0
    BY KindSets DEF Init
  <2> QED
    BY <2>1, <2>2 DEF OnceInv, Init, Idle
<1>2. Inv /\ FinalInv /\ OnceInv /\ [Next]_vars => OnceInv'
  BY OnceStep
<1> QED
  BY <1>1, <1>2, AlwaysInv, AlwaysFinal, PTL DEF Spec

\* "at-most-once social content": whatever recovery does with the claimed wakes of
\* a dead process, and if it dies again in the middle of it, a user's message or
\* answer is handed out once.
THEOREM SocialOnce == Spec => []SocialAtMostOnce
<1>1. Inv /\ OnceInv => SocialAtMostOnce
  <2> SUFFICES ASSUME Inv, OnceInv, faults = 0,
                      NEW kind \in SocialKinds, NEW w \in Works
               PROVE  delivered[<<kind, w>>] <= 1
    BY DEF SocialAtMostOnce, SocialKinds
  <2>1. delivered[<<kind, w>>] \in Nat
    BY KindSets DEF Inv, TypeOK
  <2> QED
    BY <2>1 DEF OnceInv
<1> QED
  BY <1>1, AlwaysInv, AlwaysOnce, PTL

-----------------------------------------------------------------------------
(* No pile-up                                                              *)

\* enqueue_task_ready is about to replace everything of the task that is not in
\* flight.
LEMMA ReadyReplaces ==
  ASSUME Inv, BusyInv, faults = 0, NEW i \in Ids, NEW item \in Item,
         EnqueueTaskReady(i, item)
  PROVE  AtMostOne(OpenReady(item.work) \ PendingTaskReady(item.work))
<1>1. mode # "down"
  BY DEF EnqueueTaskReady, Unlocked
<1>2. /\ \A j \in Ids : StatusOf[j] = ops[j] /\ ItemOf[j] = items[j]
      /\ pending = {j \in Ids : StatusOf[j] = "enqueue"}
      /\ \A j \in Ids : StatusOf[j] = "none" <=> ItemOf[j] = NoItem
  BY <1>1, ViewIsIndex, ViewType
<1>3. ASSUME NEW j \in OpenReady(item.work) \ PendingTaskReady(item.work)
      PROVE  j \in Ids /\ StatusOf[j] = "claimed"
  BY <1>2, <1>3 DEF OpenReady, PendingTaskReady
<1> QED
  BY <1>3 DEF BusyInv, AtMostOne

LEMMA BusyStep ==
  ASSUME Inv, FinalInv, BusyInv, [Next]_vars
  PROVE  BusyInv'
<1> SUFFICES ASSUME faults' = 0
             PROVE  /\ \A i, j \in Ids : StatusOf'[i] = "claimed" /\ StatusOf'[j] = "claimed" => i = j
                    /\ \A w \in Works : AtMostTwo(OpenReady(w)')
                    /\ \A e \in todo'.enqueue : e.item.kind = "task_ready" =>
                         AtMostOne(OpenReady(e.item.work)' \ todo'.cancel)
  BY DEF BusyInv, AtMostTwo, AtMostOne
<1>0. faults = 0
  BY FaultsBefore
<1>1. /\ \A i, j \in Ids : StatusOf[i] = "claimed" /\ StatusOf[j] = "claimed" => i = j
      /\ \A w \in Works : AtMostTwo(OpenReady(w))
      /\ \A e \in todo.enqueue : e.item.kind = "task_ready" =>
           AtMostOne(OpenReady(e.item.work) \ todo.cancel)
      /\ StatusOf \in [Ids -> Ops] /\ ItemOf \in [Ids -> Item \cup {NoItem}]
      /\ \A i \in Ids : StatusOf[i] = "none" <=> ItemOf[i] = NoItem
  BY <1>0, ViewType DEF BusyInv
<1>2. ASSUME \A i \in Ids : ItemOf'[i] = ItemOf[i],
             \A i \in Ids : StatusOf'[i] \in {"enqueue", "claimed"} => StatusOf[i] \in {"enqueue", "claimed"}
      PROVE  \A w : OpenReady(w)' \subseteq OpenReady(w)
  BY <1>2 DEF OpenReady
<1>3. ASSUME NEW S, NEW T, S \subseteq T
      PROVE  (AtMostOne(T) => AtMostOne(S)) /\ (AtMostTwo(T) => AtMostTwo(S))
  BY <1>3 DEF AtMostOne, AtMostTwo
<1>4. CASE Still /\ Begins
  <2>1. StatusOf' = StatusOf /\ ItemOf' = ItemOf
    BY <1>4 DEF Still
  <2>2. \A w : OpenReady(w)' = OpenReady(w)
    BY <2>1 DEF OpenReady
  <2>3. ASSUME NEW e \in todo'.enqueue, e.item.kind = "task_ready"
        PROVE  AtMostOne(OpenReady(e.item.work) \ todo'.cancel)
    <3>1. CASE UNCHANGED todo
      BY <1>1, <2>3, <3>1
    <3>2. CASE \E i \in Ids, item \in Item : EnqueueTaskReady(i, item)
      <4>1. PICK i \in Ids, item \in Item : EnqueueTaskReady(i, item)
        BY <3>2
      <4>2. e.item = item /\ todo'.cancel = PendingTaskReady(item.work)
        BY <2>3, <4>1, EnqueueEventType DEF EnqueueTaskReady, Todo
      <4> QED
        BY <1>0, <4>1, <4>2, ReadyReplaces
    <3>3. CASE CancelAllPendingOfKind("moment_continue") \/ Crash
      <4>1. CASE CancelAllPendingOfKind("moment_continue")
        <5>1. PICK S : todo' = Todo(S, "continuous_disabled", {})
          BY <4>1 DEF CancelAllPendingOfKind
        <5>2. todo'.enqueue = {}
          BY <5>1 DEF Todo
        <5> QED
          BY <2>3, <5>2
      <4>2. CASE Crash
        <5>1. todo'.enqueue = {}
          BY <4>2 DEF Crash, Idle
        <5> QED
          BY <2>3, <5>1
      <4> QED
        BY <3>3, <4>1, <4>2
    <3>4. CASE \E i, clone \in Ids, at \in Times : RecoverOne(i, clone, at)
      <4>1. PICK i \in Ids, clone \in Ids, at \in Times : RecoverOne(i, clone, at)
        BY <3>4
      <4>2. /\ todo'.cancel = {i} /\ e.item.kind = items[i].kind /\ e.item.work = items[i].work
        BY <2>3, <4>1, RecoverTodo DEF Todo
      <4>3. mode # "down" /\ ops[i] = "claimed"
        BY <4>1 DEF RecoverOne
      <4>4. StatusOf[i] = "claimed" /\ ItemOf[i] = items[i]
        BY <1>0, <4>3, ViewIsIndex
      <4>5. i \in OpenReady(e.item.work)
        BY <2>3, <4>2, <4>4 DEF OpenReady
      <4>6. e.item.work \in Works
        <5>1. ItemOf[i] \in Item
          BY <1>1, <4>4
        <5> QED
          BY <4>2, <4>4, <5>1 DEF Item
      <4>7. AtMostTwo(OpenReady(e.item.work))
        BY <1>1, <4>6
      <4> QED
        BY <4>2, <4>5, <4>7 DEF AtMostTwo, AtMostOne
    <3> QED
      BY <1>4, <3>1, <3>2, <3>3, <3>4 DEF Begins
  <2> QED
    BY <1>1, <2>1, <2>2, <2>3
<1>5. CASE \E e \in EnqueueEvents : Adds(e) /\ AddsFrom(e) /\ todo' = Idle /\ mode' = mode
  <2>1. PICK e \in EnqueueEvents : Adds(e) /\ AddsFrom(e) /\ todo' = Idle
    BY <1>5
  <2>2. e.id \in Ids /\ e.item \in Item
    BY DEF EnqueueEvents, Event
  <2>3. /\ \A i \in Ids : StatusOf'[i] = IF i = e.id THEN "enqueue" ELSE StatusOf[i]
        /\ \A i \in Ids : ItemOf'[i] = IF i = e.id THEN e.item ELSE ItemOf[i]
    BY <1>1, <2>1, <2>2 DEF Adds
  <2>4. todo'.enqueue = {}
    BY <2>1 DEF Idle
  <2>5. ASSUME NEW w \in Works PROVE AtMostTwo(OpenReady(w)')
    <3>1. OpenReady(w)' \subseteq OpenReady(w) \cup {e.id}
      BY <2>2, <2>3 DEF OpenReady
    <3>2. CASE e.item.kind = "task_ready" /\ e.item.work = w
      <4>1. AtMostOne(OpenReady(w))
        BY <1>1, <2>1, <3>2 DEF AddsFrom
      <4> QED
        BY <3>1, <4>1 DEF AtMostOne, AtMostTwo
    <3>3. CASE ~(e.item.kind = "task_ready" /\ e.item.work = w)
      <4>1. OpenReady(w)' \subseteq OpenReady(w)
        BY <2>2, <2>3, <3>3 DEF OpenReady
      <4> QED
        BY <1>1, <1>3, <4>1
    <3> QED
      BY <3>2, <3>3
  <2> QED
    BY <1>1, <2>3, <2>4, <2>5
<1>6. CASE \E i \in Ids : Claims(i) /\ todo = Idle /\ UNCHANGED <<todo, mode>>
  <2>1. PICK c \in Ids : Claims(c) /\ todo' = Idle
    BY <1>6
  <2>2. /\ \A i \in Ids : StatusOf'[i] = IF i = c THEN "claimed" ELSE StatusOf[i]
        /\ ItemOf' = ItemOf /\ StatusOf[c] = "enqueue"
        /\ \A i \in Ids : StatusOf[i] # "claimed"
    BY <1>1, <2>1 DEF Claims
  <2>3. todo'.enqueue = {}
    BY <2>1 DEF Idle
  <2>4. \A w : OpenReady(w)' \subseteq OpenReady(w)
    BY <1>2, <2>2
  <2>5. \A i, j \in Ids : StatusOf'[i] = "claimed" /\ StatusOf'[j] = "claimed" => i = j
    BY <2>2
  <2>6. \A w \in Works : AtMostTwo(OpenReady(w)')
    BY <1>1, <1>3, <2>4
  <2> QED
    BY <2>3, <2>5, <2>6
<1>7. CASE \E i \in Ids, op \in TerminalOps, r \in Reasons :
             Ends(i, op, r) /\ EndsFrom(i, r) /\ mode' = mode
  <2>1. PICK c \in Ids, op \in TerminalOps, r \in Reasons : Ends(c, op, r) /\ EndsFrom(c, r)
    BY <1>7
  <2>2. /\ \A i \in Ids : StatusOf'[i] = IF i = c THEN op ELSE StatusOf[i]
        /\ ItemOf' = ItemOf /\ op \notin {"enqueue", "claimed"}
    BY <1>1, <2>1 DEF Ends, TerminalOps
  <2>3. \A w : OpenReady(w)' \subseteq OpenReady(w) \ {c}
    BY <2>2 DEF OpenReady
  <2>4. ASSUME NEW e \in todo'.enqueue, e.item.kind = "task_ready"
        PROVE  AtMostOne(OpenReady(e.item.work)' \ todo'.cancel)
    <3>0. /\ todo' # Idle
          /\ \/ todo = Idle /\ todo' = todo
             \/ todo' = Idle
             \/ todo' = Todo(todo.cancel \ {c}, todo.reason, todo.enqueue)
      <4>0. Idle.enqueue = {}
        BY DEF Idle
      <4>1. todo' # Idle
        BY <2>4, <4>0
      <4> QED
        BY <2>1, <4>1 DEF EndsFrom
    <3>1. e \in todo.enqueue /\ todo.cancel \subseteq todo'.cancel \cup {c}
      <4>1. todo' = Todo(todo.cancel \ {c}, todo.reason, todo.enqueue)
        BY <3>0
      <4>2. todo'.cancel = todo.cancel \ {c} /\ todo'.enqueue = todo.enqueue
        BY <4>1 DEF Todo
      <4> QED
        BY <2>4, <4>2
    <3>2. OpenReady(e.item.work)' \ todo'.cancel \subseteq OpenReady(e.item.work) \ todo.cancel
      BY <2>3, <3>1
    <3>3. AtMostOne(OpenReady(e.item.work) \ todo.cancel)
      BY <1>1, <2>4, <3>1
    <3> DEFINE S == OpenReady(e.item.work)' \ todo'.cancel
    <3>4. S \subseteq OpenReady(e.item.work) \ todo.cancel
      BY <3>2
    <3> HIDE DEF S
    <3>5. AtMostOne(S)
      BY <1>3, <3>3, <3>4
    <3> QED
      BY <3>5 DEF S
  <2>5. \A i, j \in Ids : StatusOf'[i] = "claimed" /\ StatusOf'[j] = "claimed" => i = j
    BY <1>1, <2>2
  <2>6. ASSUME NEW w \in Works PROVE AtMostTwo(OpenReady(w)')
    <3>1. OpenReady(w)' \subseteq OpenReady(w)
      BY <2>3
    <3> QED
      BY <1>1, <1>3, <3>1
  <2> QED
    BY <2>4, <2>5, <2>6
<1>8. CASE Empties /\ todo = Idle /\ UNCHANGED <<todo, mode>>
  <2>1. \A i \in Ids : StatusOf'[i] = "none"
    BY <1>8 DEF Empties
  <2>2. \A w : OpenReady(w)' = {}
    BY <2>1 DEF OpenReady
  <2>3. todo'.enqueue = {}
    BY <1>8 DEF Idle
  <2> QED
    BY <2>1, <2>2, <2>3 DEF AtMostTwo
<1> QED
  BY <1>0, <1>4, <1>5, <1>6, <1>7, <1>8, FiveSteps

LEMMA AlwaysBusy == Spec => []BusyInv
<1>1. Init => BusyInv
  <2> SUFFICES ASSUME Init PROVE BusyInv
    OBVIOUS
  <2>1. \A i \in Ids : StatusOf[i] = "none"
    BY EmptyLog DEF Init, StatusOf
  <2>2. \A w : OpenReady(w) = {}
    BY <2>1 DEF OpenReady
  <2> QED
    BY <2>1, <2>2 DEF BusyInv, Init, Idle, AtMostTwo
<1>2. Inv /\ FinalInv /\ BusyInv /\ [Next]_vars => BusyInv'
  BY BusyStep
<1> QED
  BY <1>1, <1>2, AlwaysInv, AlwaysFinal, PTL DEF Spec

\* A set without three different elements has at most two.
LEMMA TwoAtMost ==
  ASSUME NEW S, AtMostTwo(S)
  PROVE  Cardinality(S) <= 2
<1>1. CASE S = {}
  BY <1>1, FS_EmptySet
<1>2. CASE S # {}
  <2>1. PICK a \in S : TRUE
    BY <1>2
  <2>2. CASE S = {a}
    <3>1. Cardinality({a}) = 1
      BY FS_Singleton
    <3> QED
      BY <2>2, <3>1
  <2>3. CASE S # {a}
    <3>1. PICK b \in S : b # a
      BY <2>1, <2>3
    <3>2. S = {a} \cup {b}
      BY <2>1, <3>1 DEF AtMostTwo
    <3>3. IsFiniteSet({a}) /\ Cardinality({a}) = 1
      BY FS_Singleton
    <3>4. Cardinality({a} \cup {b}) = Cardinality({a}) + 1
      BY <3>1, <3>3, FS_AddElement
    <3> QED
      BY <3>2, <3>3, <3>4
  <2> QED
    BY <2>2, <2>3
<1> QED
  BY <1>1, <1>2

\* The ready signals of a task do not pile up, however often it is reported ready
\* and wherever the process dies: at most two of its wakes are open.
THEOREM ReadyBounded == Spec => []TaskReadyBounded
<1>1. Inv /\ BusyInv => TaskReadyBounded
  <2> SUFFICES ASSUME Inv, BusyInv, Unlocked, faults = 0, NEW w \in Works
               PROVE  Cardinality(OpenTaskReady(w)) <= 2
    BY DEF TaskReadyBounded
  <2>1. mode # "down"
    BY DEF Unlocked
  <2>2. \A i \in Ids : StatusOf[i] = ops[i] /\ ItemOf[i] = items[i]
    BY <2>1, ViewIsIndex
  <2>3. OpenTaskReady(w) = OpenReady(w)
    BY <2>2 DEF OpenTaskReady, OpenReady
  <2>4. AtMostTwo(OpenReady(w))
    BY DEF BusyInv
  <2> QED
    BY <2>3, <2>4, TwoAtMost
<1> QED
  BY <1>1, AlwaysInv, AlwaysBusy, PTL

-----------------------------------------------------------------------------
(* At least once                                                           *)

\* An append leaves the earlier lines where they are.
LEMMA OneLineMore ==
  ASSUME NEW e \in Event, log \in Seq(Event), log' = Append(log, e)
  PROVE  /\ Len(log) \in Nat
         /\ \A n \in DOMAIN log : /\ n \in DOMAIN log' /\ log'[n] = log[n]
                                  /\ log[n].id \in Ids /\ Len(log) + 1 > n
         /\ \A n \in DOMAIN log' : n \in DOMAIN log \/ n = Len(log) + 1
         /\ Len(log) + 1 \in DOMAIN log' /\ log'[Len(log) + 1] = e
<1>1. /\ Len(log) \in Nat /\ Len(log') = Len(log) + 1
      /\ DOMAIN log = 1..Len(log) /\ DOMAIN log' = 1..Len(log')
      /\ \A n \in 1..Len(log) : log'[n] = log[n] /\ log[n] \in Event
      /\ log'[Len(log) + 1] = e
  OBVIOUS
<1>2. \A x \in Event : x.id \in Ids
  BY DEF Event
<1> QED
  BY <1>1, <1>2

LEMMA RedeliveredStays ==
  ASSUME NEW e \in Event, log \in Seq(Event), log' = Append(log, e),
         NEW n \in DOMAIN log, Redelivered(n), ItemOf'[log[n].id] = ItemOf[log[n].id]
  PROVE  Redelivered(n)'
<1>1. PICK m \in DOMAIN log :
        m > n /\ log[m].op = "enqueue" /\ SameWork(log[m].item, ItemOf[log[n].id])
  BY DEF Redelivered
<1>2. m \in DOMAIN log' /\ log'[m] = log[m] /\ log'[n] = log[n]
  BY OneLineMore
<1> QED
  BY <1>1, <1>2 DEF Redelivered, SameWork

LEMMA RedeliverStep ==
  ASSUME CrashInRecovery = FALSE, Inv, FinalInv, RedeliverInv, [Next]_vars
  PROVE  RedeliverInv'
<1> DEFINE Single == \A e, f \in todo.enqueue : e = f
           Lines == \A n \in DOMAIN log : Interrupted(n) => Covered(n)
           Begun == todo.reason = "interrupted_redelivery" =>
             /\ mode = "recovering"
             /\ \A i \in todo.cancel : ItemOf[i].kind \in ReEnqueueOnRecover =>
                  \E e \in todo.enqueue : SameWork(e.item, ItemOf[i])
<1> SUFFICES ASSUME faults' = 0 PROVE Single' /\ Lines' /\ Begun'
  BY DEF RedeliverInv
<1>0. faults = 0
  BY FaultsBefore
<1>1. /\ Single /\ Lines /\ Begun
      /\ StatusOf \in [Ids -> Ops] /\ ItemOf \in [Ids -> Item \cup {NoItem}]
      /\ log \in Seq(Event)
  BY <1>0, ViewType DEF RedeliverInv, Inv, TypeOK
<1>2. Idle.enqueue = {} /\ Idle.reason = "" /\ Idle.cancel = {}
  BY DEF Idle
<1>3. todo = Idle \/ mode # "recovering" => \A n \in DOMAIN log : Interrupted(n) => Redelivered(n)
  BY <1>1, <1>2 DEF Covered
<1>4. CASE Still /\ Begins
  <2>1. UNCHANGED <<log, ItemOf>>
    BY <1>4 DEF Still
  <2>2. \A n \in DOMAIN log : (Interrupted(n)' <=> Interrupted(n)) /\ (Redelivered(n)' <=> Redelivered(n))
    BY <2>1 DEF Interrupted, Redelivered, SameWork
  <2>3. ASSUME todo = Idle \/ mode # "recovering" PROVE Lines'
    BY <1>3, <2>1, <2>2, <2>3 DEF Covered
  <2>4. CASE UNCHANGED <<todo, mode>>
    <3>1. \A n \in DOMAIN log : Covered(n)' <=> Covered(n)
      BY <2>1, <2>2, <2>4 DEF Covered, SameWork
    <3> QED
      BY <1>1, <2>1, <2>2, <2>4, <3>1 DEF SameWork
  <2>5. CASE UNCHANGED todo /\ todo = Idle
    BY <1>2, <2>3, <2>5
  <2>6. CASE \E i \in Ids, item \in Item : EnqueueTaskReady(i, item)
    <3>1. PICK i \in Ids, item \in Item : EnqueueTaskReady(i, item)
      BY <2>6
    <3>2. /\ todo = Idle
          /\ todo' = Todo(PendingTaskReady(item.work), "replaced", {EnqueueEvent(i, item)})
      BY <3>1 DEF EnqueueTaskReady, Unlocked
    <3>3. Single' /\ Begun'
      BY <3>2 DEF Todo
    <3> QED
      BY <2>3, <3>2, <3>3
  <2>7. CASE CancelAllPendingOfKind("moment_continue")
    <3>1. todo = Idle /\ \E S : todo' = Todo(S, "continuous_disabled", {})
      BY <2>7 DEF CancelAllPendingOfKind, Unlocked
    <3>2. Single' /\ Begun'
      BY <3>1 DEF Todo
    <3> QED
      BY <2>3, <3>1, <3>2
  <2>8. CASE \E i, clone \in Ids, at \in Times : RecoverOne(i, clone, at)
    <3>1. PICK i \in Ids, clone \in Ids, at \in Times : RecoverOne(i, clone, at)
      BY <2>8
    <3>2. todo = Idle /\ mode = "recovering" /\ mode' = mode /\ ops[i] = "claimed"
      BY <3>1 DEF RecoverOne
    <3>3. ItemOf[i] = items[i]
      BY <1>0, <3>2, ViewIsIndex
    <3>4. PICK E : /\ todo' = Todo({i}, "interrupted_redelivery", E)
                   /\ \A e, f \in E : e = f
                   /\ \A e \in E : /\ e.item.kind \in ReEnqueueOnRecover
                                   /\ e.item.kind = items[i].kind /\ e.item.work = items[i].work
                   /\ items[i].kind \in ReEnqueueOnRecover => E # {}
      BY <3>1, RecoverTodo
    <3>5. todo'.cancel = {i} /\ todo'.enqueue = E
      BY <3>4 DEF Todo
    <3>6. Single'
      BY <3>4, <3>5
    <3>7. Begun'
      BY <2>1, <3>2, <3>3, <3>4, <3>5 DEF SameWork
    <3> QED
      BY <2>3, <3>2, <3>6, <3>7
  <2>9. CASE Crash
    <3>1. mode # "recovering" /\ todo' = Idle
      BY <2>9 DEF Crash
    <3> QED
      BY <1>2, <2>3, <3>1
  <2> QED
    BY <1>4, <2>4, <2>5, <2>6, <2>7, <2>8, <2>9 DEF Begins
<1>5. CASE \E e \in EnqueueEvents : Adds(e) /\ AddsFrom(e) /\ todo' = Idle /\ mode' = mode
  <2>1. PICK e \in EnqueueEvents : Adds(e) /\ AddsFrom(e) /\ todo' = Idle
    BY <1>5
  <2>2. e \in Event /\ e.id \in Ids /\ e.op = "enqueue" /\ e.reason = ""
    BY DEF EnqueueEvents, Event
  <2>3. /\ log' = Append(log, e) /\ EventsOf(log, e.id) = {}
        /\ \A i \in Ids \ {e.id} : ItemOf'[i] = ItemOf[i]
    BY <1>1, <2>1 DEF Adds
  <2>4. ASSUME NEW n \in DOMAIN log, Interrupted(n)'
        PROVE  Redelivered(n)'
    <3>1. log'[n] = log[n] /\ log[n].id \in Ids
      BY <1>1, <2>2, <2>3, OneLineMore
    <3>2. log[n].id # e.id
      BY <2>3 DEF EventsOf
    <3>3. ItemOf'[log[n].id] = ItemOf[log[n].id]
      BY <2>3, <3>1, <3>2
    <3>4. Interrupted(n)
      BY <2>4, <3>1, <3>3 DEF Interrupted
    <3>5. CASE Redelivered(n)
      BY <1>1, <2>2, <2>3, <3>3, <3>5, RedeliveredStays
    <3>6. CASE \E f \in todo.enqueue : SameWork(f.item, ItemOf[log[n].id])
      <4>1. PICK f \in todo.enqueue : SameWork(f.item, ItemOf[log[n].id])
        BY <3>6
      <4>2. f = e
        BY <1>1, <1>2, <2>1, <4>1 DEF AddsFrom
      <4>3. /\ Len(log) + 1 \in DOMAIN log' /\ Len(log) + 1 > n
            /\ log'[Len(log) + 1] = e
        BY <1>1, <2>2, <2>3, OneLineMore
      <4> QED
        BY <2>2, <3>1, <3>3, <4>1, <4>2, <4>3 DEF Redelivered, SameWork
    <3> QED
      BY <1>1, <3>4, <3>5, <3>6 DEF Covered
  <2>5. ASSUME NEW n \in DOMAIN log', Interrupted(n)' PROVE Covered(n)'
    <3>1. n \in DOMAIN log \/ n = Len(log) + 1
      BY <1>1, <2>2, <2>3, OneLineMore
    <3>2. log'[Len(log) + 1].reason # "interrupted_redelivery"
      BY <1>1, <2>2, <2>3, OneLineMore
    <3> QED
      BY <2>4, <2>5, <3>1, <3>2 DEF Interrupted, Covered
  <2> QED
    BY <1>2, <2>1, <2>5
<1>6. CASE \E i \in Ids : Claims(i) /\ todo = Idle /\ UNCHANGED <<todo, mode>>
  <2>1. PICK c \in Ids : Claims(c) /\ todo = Idle /\ todo' = todo
    BY <1>6
  <2>2. /\ StatusEvent(c, "claimed", "") \in Event
        /\ StatusEvent(c, "claimed", "").reason = ""
    BY DEF StatusEvent, Event, Ops, Reasons
  <2>3. log' = Append(log, StatusEvent(c, "claimed", "")) /\ ItemOf' = ItemOf
    BY <2>1 DEF Claims
  <2>4. ASSUME NEW n \in DOMAIN log', Interrupted(n)' PROVE Covered(n)'
    <3>1. log'[n].reason = "interrupted_redelivery"
      BY <2>4 DEF Interrupted
    <3>2. n \in DOMAIN log /\ log'[n] = log[n]
      BY <1>1, <2>2, <2>3, <3>1, OneLineMore
    <3>3. Interrupted(n)
      BY <2>3, <2>4, <3>2 DEF Interrupted
    <3>4. Redelivered(n)'
      BY <1>1, <1>3, <2>1, <2>2, <2>3, <3>2, <3>3, RedeliveredStays
    <3> QED
      BY <3>4 DEF Covered
  <2> QED
    BY <1>2, <2>1, <2>4
<1>7. CASE \E i \in Ids, op \in TerminalOps, r \in Reasons :
             Ends(i, op, r) /\ EndsFrom(i, r) /\ mode' = mode
  <2>1. PICK c \in Ids, op \in TerminalOps, r \in Reasons :
          Ends(c, op, r) /\ EndsFrom(c, r) /\ mode' = mode
    BY <1>7
  <2>2. /\ StatusEvent(c, op, r) \in Event
        /\ StatusEvent(c, op, r).reason = r /\ StatusEvent(c, op, r).id = c
    BY DEF StatusEvent, Event, Ops, TerminalOps
  <2>3. log' = Append(log, StatusEvent(c, op, r)) /\ ItemOf' = ItemOf
    BY <2>1 DEF Ends
  <2>4. \/ todo = Idle /\ todo' = todo /\ r # "interrupted_redelivery"
        \/ c \in todo.cancel /\ r = todo.reason /\ todo.enqueue = {} /\ todo' = Idle
        \/ /\ c \in todo.cancel /\ r = todo.reason
           /\ todo'.cancel = todo.cancel \ {c} /\ todo'.reason = todo.reason
           /\ todo'.enqueue = todo.enqueue
    BY <2>1 DEF EndsFrom, Todo
  <2>5. Single'
    BY <1>1, <1>2, <2>4
  <2>6. Begun'
    BY <1>1, <1>2, <2>1, <2>3, <2>4 DEF SameWork
  <2>7. todo'.enqueue = todo.enqueue
    BY <1>2, <2>4
  <2>8. ASSUME NEW n \in DOMAIN log, Interrupted(n)' PROVE Covered(n)'
    <3>1. log'[n] = log[n]
      BY <1>1, <2>2, <2>3, OneLineMore
    <3>2. Interrupted(n)
      BY <2>3, <2>8, <3>1 DEF Interrupted
    <3>3. CASE Redelivered(n)
      BY <1>1, <2>2, <2>3, <3>3, RedeliveredStays DEF Covered
    <3>4. CASE mode = "recovering" /\ \E e \in todo.enqueue : SameWork(e.item, ItemOf[log[n].id])
      BY <2>1, <2>3, <2>7, <3>1, <3>4 DEF Covered, SameWork
    <3> QED
      BY <1>1, <3>2, <3>3, <3>4 DEF Covered
  <2>9. ASSUME NEW n, n = Len(log) + 1, Interrupted(n)' PROVE Covered(n)'
    <3>1. log'[n] = StatusEvent(c, op, r)
      BY <1>1, <2>2, <2>3, <2>9, OneLineMore
    <3>2. r = "interrupted_redelivery" /\ ItemOf[c].kind \in ReEnqueueOnRecover
      BY <2>2, <2>3, <2>9, <3>1 DEF Interrupted
    <3>3. mode = "recovering" /\ \E e \in todo.enqueue : SameWork(e.item, ItemOf[c])
      BY <1>1, <2>4, <3>2
    <3> QED
      BY <2>1, <2>2, <2>3, <2>7, <3>1, <3>3 DEF Covered, SameWork
  <2>10. Lines'
    <3>1. \A n \in DOMAIN log' : n \in DOMAIN log \/ n = Len(log) + 1
      BY <1>1, <2>2, <2>3, OneLineMore
    <3> QED
      BY <2>8, <2>9, <3>1
  <2> QED
    BY <2>5, <2>6, <2>10
<1>8. CASE Empties /\ todo = Idle /\ UNCHANGED <<todo, mode>>
  <2>1. DOMAIN log' = {}
    BY <1>8 DEF Empties
  <2>2. todo'.enqueue = {} /\ todo'.reason = ""
    BY <1>2, <1>8
  <2> QED
    BY <2>1, <2>2
<1> QED
  BY <1>0, <1>4, <1>5, <1>6, <1>7, <1>8, FiveSteps

LEMMA AlwaysRedeliver ==
  ASSUME CrashInRecovery = FALSE
  PROVE  Spec => []RedeliverInv
<1>1. Init => RedeliverInv
  <2> SUFFICES ASSUME Init PROVE RedeliverInv
    OBVIOUS
  <2>1. DOMAIN log = {}
    BY DEF Init
  <2>2. todo.enqueue = {} /\ todo.reason = ""
    BY DEF Init, Idle
  <2> QED
    BY <2>1, <2>2 DEF RedeliverInv
<1>2. Inv /\ FinalInv /\ RedeliverInv /\ [Next]_vars => RedeliverInv'
  BY RedeliverStep
<1> QED
  BY <1>1, <1>2, AlwaysInv, AlwaysFinal, PTL DEF Spec

\* A durable wake whose moment a process death interrupted is delivered again,
\* if recovery itself is not interrupted: recover_claimed cancels the wake before
\* it enqueues the clone.
THEOREM Redelivery ==
  ASSUME CrashInRecovery = FALSE
  PROVE  Spec => []DurableRedelivered
<1>1. Inv /\ RedeliverInv => DurableRedelivered
  <2> SUFFICES ASSUME Inv, RedeliverInv, mode = "up", faults = 0, NEW n \in DOMAIN log,
                      log[n].reason = "interrupted_redelivery",
                      FoldItem(log, log[n].id).kind \in {"timer", "task_ready", "moment_continue"}
               PROVE  \E m \in DOMAIN log :
                        /\ m > n /\ log[m].op = "enqueue"
                        /\ log[m].item.kind = FoldItem(log, log[n].id).kind
                        /\ log[m].item.work = FoldItem(log, log[n].id).work
    BY DEF DurableRedelivered
  <2>1. log[n].id \in Ids
    <3>1. log[n] \in Event
      BY DEF Inv, TypeOK
    <3> QED
      BY <3>1 DEF Event
  <2>2. ItemOf[log[n].id] = FoldItem(log, log[n].id)
    BY <2>1 DEF ItemOf
  <2>3. Interrupted(n)
    BY <2>2 DEF Interrupted, ReEnqueueOnRecover
  <2>4. Redelivered(n)
    BY <2>3 DEF RedeliverInv, Covered
  <2> QED
    BY <2>2, <2>4 DEF Redelivered, SameWork
<1> QED
  BY <1>1, AlwaysInv, AlwaysRedeliver, PTL

\* The delivery the wake queue promises: social content at most once, durable work
\* at least once, and ready signals that do not pile up.
THEOREM DeliveryHolds ==
  ASSUME CrashInRecovery = FALSE
  PROVE  Spec => []DeliveryAsPromised
<1>1. SocialAtMostOnce /\ DurableRedelivered /\ TaskReadyBounded => DeliveryAsPromised
  BY DEF DeliveryAsPromised
<1> QED
  BY <1>1, SocialOnce, Redelivery, ReadyBounded, PTL
=============================================================================
