----------------------------- MODULE EncodeQueue -----------------------------
(***************************************************************************)
(* The encode queue (elyra/memory/embed/queue.py) between the promoter,    *)
(* which puts atoms and links them, and the drain that gives atoms their   *)
(* vectors, with the priority gate of memory/embed/gate.py, the write hook *)
(* and the poll body of presence/worker.py.                                *)
(*                                                                         *)
(* The drain pops under the queue's lock and works outside it: it reads a  *)
(* row, encodes it under the gate and then puts the copy it read with a    *)
(* new status, while the promoter links, re-puts and overflows rows.       *)
(* EncodeWorker models which thread polls; at most one does.               *)
(***************************************************************************)
EXTENDS Integers, Sequences, FiniteSets, SequencesExt

CONSTANTS
  Atoms,        \* atom ids, 1 .. N: a larger id is a newer atom
  Historic,     \* atoms stored before semantic memory was switched on
  MaxSize,      \* encode_queue_max
  MaxItems,     \* encode_max_items_per_tick
  MaxAttempts,  \* encode_max_attempts
  CatchupMax,   \* embed_catchup_max: none -> pending marks of one process
  Lookups,      \* forwards that meals, the graph and the API ask for
  MaxFaults,    \* bound on failed forwards, upserts and health probes;
                \* a process death counts for all of them
  MaxReputs     \* bound on re-puts of a stored atom

NoAtom == 0
NoRow  == [st |-> "absent", tries |-> 0, ok |-> FALSE, next |-> NoAtom, kind |-> "text"]
Row    == [st : {"absent", "none", "pending", "ready", "failed", "skipped"},
           tries : 0 .. MaxAttempts, ok : BOOLEAN, next : Atoms \cup {NoAtom},
           kind : {"text", "media", "empty"}]
Copy   == [id : Atoms \cup {NoAtom}, row : Row]   \* a row as some thread read it
NoCopy == [id |-> NoAtom, row |-> NoRow]
Lanes  == {"atom_create", "catchup"}
Item   == [id : Atoms, lane : Lanes]
NoWork == [item |-> [id |-> NoAtom, lane |-> "catchup"], row |-> NoRow]

VARIABLES
  rows,     \* the atoms of the store
  vec,      \* atoms the index holds a vector of
  p1, p2,   \* the two lanes of EncodeQueue
  put,      \* the promoter: [pc, id, prev]
  over,     \* per thread: the dropped atom it has still to mark as skipped
  pc,       \* where the poll is
  todo,     \* what the catch-up (copies) or the scan (ids) still has to handle
  seen,     \* drain: ids popped in this call
  deferred, \* drain: items to enqueue again when the call ends
  cur,      \* drain: the item in hand, with the copy of its row
  res,      \* drain: the outcome of the forward
  n,        \* drain: items processed
  embOk,    \* drain: embedder.health() at its start
  holder,   \* EmbedderGate._holder
  waiting,  \* lookups blocked in acquire
  marked,   \* _embed_catchup_marked
  faults, reputs, \* bounds
  forwards, \* history: forwards of each atom in this drain call
  asked,    \* lookups so far
  passed,   \* history: bulk forwards begun while a lookup waits
  dropped   \* history: atoms an enqueue at capacity dropped

store == <<rows, vec>>
queue == <<p1, p2, dropped>>
tick  == <<pc, todo, seen, deferred, cur, res, n, embOk, marked, forwards>>
gate  == <<holder, waiting, asked, passed>>
env   == <<faults, reputs>>
vars  == <<store, queue, put, over, tick, gate, env>>

-----------------------------------------------------------------------------
(* EncodeQueue                                                             *)

Queued == ToSet(p1) \cup ToSet(p2)

\* _drop_oldest_locked: the oldest of P2, and of P1 when P2 is empty.
Oldest == IF p2 # <<>> THEN Head(p2) ELSE Head(p1)

\* enqueue: one locked section; p is the thread that will mark what was dropped
\* ("flush": store=None, nothing is marked).
Enqueue(a, lane, p) ==
  LET known == a \in Queued
      full  == ~known /\ Len(p1) + Len(p2) >= MaxSize
      old   == IF full THEN Oldest ELSE NoAtom
      gone  == {old} \cup (IF lane = "atom_create" THEN {a} ELSE {})
      q2    == SelectSeq(p2, LAMBDA x : x \notin gone)
      q1    == SelectSeq(p1, LAMBDA x : x # old)
  IN  IF a \in ToSet(p1) \/ (known /\ lane = "catchup")
      THEN UNCHANGED <<p1, p2, dropped, over>>
      ELSE /\ p1' = IF lane = "atom_create" THEN Append(q1, a) ELSE q1
           /\ p2' = IF lane = "catchup" THEN Append(q2, a) ELSE q2
           /\ dropped' = dropped \cup ({old} \ {NoAtom})
           /\ over' = IF p = "flush" THEN over
                      ELSE [over EXCEPT ![p] = [id |-> old, row |-> NoRow]]

\* _mark_overflow, first half: contains() and get_atom().
OverflowRead(p) ==
  /\ over[p].id # NoAtom /\ over[p].row = NoRow
  /\ LET a == over[p].id
     IN  over' = [over EXCEPT ![p] =
                   IF a \in Queued \/ rows[a].st \notin {"pending", "none", "failed"}
                   THEN NoCopy ELSE [id |-> a, row |-> rows[a]]]
  /\ UNCHANGED <<store, queue, put, tick, gate, env>>

\* _mark_overflow, second half: _mark_atom_status puts the copy it read.
OverflowWrite(p) ==
  /\ over[p].row # NoRow
  /\ rows' = [rows EXCEPT ![over[p].id] = [over[p].row EXCEPT !.st = "skipped"]]
  /\ over' = [over EXCEPT ![p] = NoCopy]
  /\ UNCHANGED <<vec, queue, put, tick, gate, env>>

-----------------------------------------------------------------------------
(* The promoter: _link_and_put with the store's write hook                 *)

Stored  == {a \in Atoms : rows[a].st # "absent"}
Newest(S) == CHOOSE a \in S : \A b \in S : b <= a

\* put_atom of the next atom, linked to the tail it found (the link of the
\* tail itself comes later).
Put(kind) ==
  /\ put.pc = "idle"
  /\ Stored # Atoms
  /\ LET a    == Newest(Atoms) - Cardinality(Atoms \ Stored) + 1
         prev == IF Stored = {} THEN NoAtom ELSE Newest(Stored)
     IN  /\ rows' = [rows EXCEPT ![a] = [NoRow EXCEPT !.st = "pending", !.kind = kind]]
         /\ put' = [pc |-> "hook", id |-> a, prev |-> prev]
  /\ UNCHANGED <<vec, queue, over, tick, gate, env>>

\* _reconcile_parent_parcel_meta puts the atom that was promoted last again.
Reput(a) ==
  /\ put.pc = "idle" /\ reputs < MaxReputs
  /\ a \notin Historic /\ a + 1 \notin Stored
  /\ rows[a].st = "pending"
  /\ put' = [pc |-> "hook", id |-> a, prev |-> NoAtom]
  /\ reputs' = reputs + 1
  /\ UNCHANGED <<store, queue, over, tick, gate, faults>>

\* _on_written: only pending atoms that were not encoded already.
OnWritten ==
  /\ put.pc = "hook"
  /\ LET row == rows[put.id]
     IN  IF row.ok THEN UNCHANGED <<queue, over>>
                   ELSE Enqueue(put.id, "atom_create", "promoter")
  /\ put' = [put EXCEPT !.pc = "link"]
  /\ UNCHANGED <<store, tick, gate, env>>

\* update_links of the tail: patches the stored row under the store's lock.
UpdateLinks ==
  /\ put.pc = "link" /\ over["promoter"] = NoCopy
  /\ rows' = IF put.prev = NoAtom THEN rows ELSE [rows EXCEPT ![put.prev].next = put.id]
  /\ put' = [pc |-> "idle", id |-> NoAtom, prev |-> NoAtom]
  /\ UNCHANGED <<vec, queue, over, tick, gate, env>>

-----------------------------------------------------------------------------
(* The poll: catch-up, scan, drain                                         *)

\* list_atoms(limit, newest_first=True)
NewestFirst(S, limit) ==
  LET all == SetToSortSeq(S, LAMBDA a, b : a > b)
  IN  SubSeq(all, 1, IF Len(all) < limit THEN Len(all) ELSE limit)

CopyOf(a) == [id |-> a, row |-> rows[a]]

\* catchup_none_atoms_for_encode: lists within the budget of the process.
PollStart ==
  /\ pc = "idle"
  /\ pc' = "catchup"
  /\ LET none == {a \in Atoms : rows[a].st = "none" /\ rows[a].kind # "empty"}
         ids  == NewestFirst(none, CatchupMax - marked)
     IN  todo' = [i \in DOMAIN ids |-> CopyOf(ids[i])]
  /\ UNCHANGED <<store, queue, put, over, seen, deferred, cur, res, n, embOk, marked,
                 forwards, gate, env>>

CatchUpOne ==
  /\ pc = "catchup" /\ todo # <<>>
  /\ rows' = [rows EXCEPT ![Head(todo).id] = [Head(todo).row EXCEPT !.st = "pending"]]
  /\ marked' = marked + 1
  /\ todo' = Tail(todo)
  /\ UNCHANGED <<vec, queue, put, over, pc, seen, deferred, cur, res, n, embOk, forwards,
                 gate, env>>

ScanListUnencoded ==   \* mutant: encoded atoms that the index refused are left out
  /\ pc = "catchup" /\ todo = <<>>
  /\ pc' = "scan"
  /\ todo' = NewestFirst({a \in Atoms : rows[a].st = "pending" /\ ~rows[a].ok}, MaxItems * 4)
  /\ UNCHANGED <<store, queue, put, over, seen, deferred, cur, res, n, embOk, marked,
                 forwards, gate, env>>

\* scan_pending_into_queue lists the newest pending atoms ...
ScanList ==
  /\ pc = "catchup" /\ todo = <<>>
  /\ pc' = "scan"
  /\ todo' = NewestFirst({a \in Atoms : rows[a].st = "pending"}, MaxItems * 4)
  /\ UNCHANGED <<store, queue, put, over, seen, deferred, cur, res, n, embOk, marked,
                 forwards, gate, env>>

\* ... and enqueues them one by one.
ScanOne ==
  /\ pc = "scan" /\ todo # <<>> /\ over["drain"] = NoCopy
  /\ Enqueue(Head(todo), "catchup", "drain")
  /\ todo' = Tail(todo)
  /\ UNCHANGED <<store, put, pc, seen, deferred, cur, res, n, embOk, marked, forwards,
                 gate, env>>

Fails ==
  /\ faults < MaxFaults
  /\ faults' = faults + 1

\* drain: the embedder's health is probed once.
DrainStart ==
  /\ pc = "scan" /\ todo = <<>> /\ over["drain"] = NoCopy
  /\ pc' = "pop"
  /\ seen' = {} /\ deferred' = <<>> /\ n' = 0
  /\ forwards' = [a \in Atoms |-> 0]
  /\ \/ embOk' = TRUE /\ UNCHANGED faults
     \/ embOk' = FALSE /\ Fails
  /\ UNCHANGED <<store, queue, put, over, todo, cur, res, marked, gate, reputs>>

PopHead ==
  /\ p1' = IF p1 # <<>> THEN Tail(p1) ELSE p1
  /\ p2' = IF p1 # <<>> THEN p2 ELSE Tail(p2)
  /\ UNCHANGED dropped

Popped == IF p1 # <<>> THEN [id |-> Head(p1), lane |-> "atom_create"]
                       ELSE [id |-> Head(p2), lane |-> "catchup"]

\* pop_next_bulk; an id of this call goes back to the tail, and a waiting
\* lookup ends the call.
Pop ==
  /\ pc = "pop" /\ n < MaxItems /\ Queued # {}
  /\ PopHead
  /\ \/ /\ Popped.id \in seen
        /\ deferred' = Append(deferred, Popped)
        /\ UNCHANGED <<pc, seen, n, cur>>
     \/ /\ Popped.id \notin seen /\ waiting # {}
        /\ deferred' = Append(deferred, Popped)
        /\ seen' = seen \cup {Popped.id} /\ n' = n + 1
        /\ pc' = "flush"
        /\ UNCHANGED cur
     \/ /\ Popped.id \notin seen /\ waiting = {}
        /\ cur' = [item |-> Popped, row |-> NoRow]
        /\ seen' = seen \cup {Popped.id} /\ n' = n + 1
        /\ pc' = "get"
        /\ UNCHANGED deferred
  /\ UNCHANGED <<store, put, over, todo, res, embOk, marked, forwards, gate, env>>

\* The budget of items or of time is spent, or the queue is empty.
StopDrain ==
  /\ pc = "pop"
  /\ n > 0 \/ Queued = {}
  /\ pc' = "flush"
  /\ UNCHANGED <<store, queue, put, over, todo, seen, deferred, cur, res, n, embOk, marked,
                 forwards, gate, env>>

Defer == deferred' = Append(deferred, cur.item)

\* _process_one up to the gate.
Get ==
  /\ pc = "get"
  /\ LET row == rows[cur.item.id]
     IN  /\ \/ /\ row.st \in {"absent", "ready", "skipped"}
               /\ pc' = "pop" /\ UNCHANGED res
            \/ /\ row.st \notin {"absent", "ready", "skipped"} /\ row.kind = "empty"
               /\ pc' = "mark" /\ res' = "no_modalities"
            \/ /\ row.st \notin {"absent", "ready", "skipped"} /\ row.kind # "empty"
               /\ pc' = (IF embOk THEN "gate" ELSE "pop") /\ UNCHANGED res
         /\ cur' = IF pc' = "pop" THEN NoWork ELSE [cur EXCEPT !.row = row]
  /\ IF ~embOk /\ pc' = "pop" THEN Defer ELSE UNCHANGED deferred
  /\ UNCHANGED <<store, queue, put, over, todo, seen, n, embOk, marked, forwards, gate, env>>

\* gate.acquire("bulk"): free, and no lookup waits.
AcquireBulk ==
  /\ pc = "gate" /\ holder = "none" /\ waiting = {}
  /\ holder' = "bulk" /\ pc' = "encode"
  /\ UNCHANGED <<store, queue, put, over, todo, seen, deferred, cur, res, n, embOk, marked,
                 forwards, waiting, asked, passed, env>>

\* acquire times out: the drain yields.
YieldBulk ==
  /\ pc = "gate" /\ (holder # "none" \/ waiting # {})
  /\ Defer /\ pc' = "flush" /\ cur' = NoWork
  /\ UNCHANGED <<store, queue, put, over, todo, seen, res, n, embOk, marked, forwards,
                 gate, env>>

\* encode_atom under the gate, which is released however it ends.
Encode ==
  /\ pc = "encode"
  /\ \/ cur.row.kind = "media" /\ res' = "media_unresolved" /\ UNCHANGED faults
     \/ cur.row.kind # "media" /\ res' = "vectors" /\ UNCHANGED faults
     \/ cur.row.kind # "media" /\ res' = "failed" /\ Fails
  /\ pc' = IF res' = "vectors" THEN "upsert" ELSE "mark"
  /\ holder' = "none"
  /\ forwards' = [forwards EXCEPT ![cur.item.id] = @ + 1]
  /\ UNCHANGED <<store, queue, put, over, todo, seen, deferred, cur, n, embOk, marked,
                 waiting, asked, passed, reputs>>

UpsertLate ==   \* mutant: ready is reported although the index refused
  /\ pc = "upsert"
  /\ res' = "ready"
  /\ \/ vec' = vec \cup {cur.item.id} /\ UNCHANGED faults
     \/ Fails /\ UNCHANGED vec
  /\ pc' = "mark"
  /\ UNCHANGED <<rows, queue, put, over, todo, seen, deferred, cur, n, embOk, marked,
                 forwards, gate, reputs>>

\* index.upsert: the store keeps the vector with status ready, or refuses.
Upsert ==
  /\ pc = "upsert"
  /\ \/ /\ vec' = vec \cup {cur.item.id}
        /\ rows' = [rows EXCEPT ![cur.item.id].st = "ready"]
        /\ res' = "ready" /\ UNCHANGED faults
     \/ res' = "not_held" /\ Fails /\ UNCHANGED store
  /\ pc' = "mark"
  /\ UNCHANGED <<queue, put, over, todo, seen, deferred, cur, n, embOk, marked, forwards,
                 gate, reputs>>

\* _mark_atom_status: the copy that was read before the forward is put back.
Marked(row, outcome) ==
  LET tries == IF row.tries < MaxAttempts THEN row.tries + 1 ELSE row.tries
  IN  CASE outcome = "no_modalities"    -> [row EXCEPT !.st = "skipped"]
        [] outcome = "media_unresolved" -> [row EXCEPT !.st = "pending"]
        [] outcome = "failed"           -> [row EXCEPT !.tries = tries, !.st =
                                             IF tries >= MaxAttempts THEN "failed" ELSE "pending"]
        [] outcome = "not_held"         -> [row EXCEPT !.tries = tries, !.st = "pending",
                                                       !.ok = TRUE]
        [] outcome = "ready"            -> [row EXCEPT !.tries = tries, !.st = "ready",
                                                       !.ok = TRUE]

Mark ==
  /\ pc = "mark"
  /\ rows' = [rows EXCEPT ![cur.item.id] = Marked(cur.row, res)]
  /\ IF res = "failed" /\ rows'[cur.item.id].st = "pending" THEN Defer
                                                           ELSE UNCHANGED deferred
  /\ pc' = "pop" /\ cur' = NoWork /\ res' = ""
  /\ UNCHANGED <<vec, queue, put, over, todo, seen, n, embOk, marked, forwards, gate, env>>

\* Deferred items go back to the tail of their lane after the call.
FlushOne ==
  /\ pc = "flush" /\ deferred # <<>>
  /\ Enqueue(Head(deferred).id, Head(deferred).lane, "flush")
  /\ deferred' = Tail(deferred)
  /\ UNCHANGED <<store, put, pc, todo, seen, cur, res, n, embOk, marked, forwards, gate, env>>

FlushEnd ==
  /\ pc = "flush" /\ deferred = <<>>
  /\ pc' = "idle" /\ seen' = {} /\ n' = 0 /\ res' = "" /\ embOk' = TRUE
  /\ cur' = NoWork
  /\ forwards' = [a \in Atoms |-> 0]
  /\ UNCHANGED <<store, queue, put, over, todo, deferred, marked, gate, env>>

-----------------------------------------------------------------------------
(* Lookups: GatedEmbedder._forward                                         *)

LookupAsk(c) ==
  /\ c \notin asked
  /\ asked' = asked \cup {c}
  /\ waiting' = waiting \cup {c}
  /\ passed' = IF waiting = {} THEN 0 ELSE passed
  /\ UNCHANGED <<store, queue, put, over, tick, holder, env>>

LookupGrant(c) ==
  /\ c \in waiting /\ holder = "none"
  /\ holder' = c /\ waiting' = waiting \ {c} /\ passed' = 0
  /\ UNCHANGED <<store, queue, put, over, tick, asked, env>>

LookupTimeout(c) ==
  /\ c \in waiting /\ holder # "none"
  /\ waiting' = waiting \ {c} /\ passed' = 0
  /\ UNCHANGED <<store, queue, put, over, tick, holder, asked, env>>

LookupDone(c) ==
  /\ holder = c
  /\ holder' = "none"
  /\ UNCHANGED <<store, queue, put, over, tick, waiting, asked, passed, env>>

-----------------------------------------------------------------------------
\* The process dies and starts again: the store is what survives.
Restart ==
  /\ faults = 0 /\ MaxFaults > 0 /\ faults' = MaxFaults
  /\ p1' = <<>> /\ p2' = <<>> /\ UNCHANGED dropped
  /\ put' = [pc |-> "idle", id |-> NoAtom, prev |-> NoAtom]
  /\ over' = [p \in {"promoter", "drain"} |-> NoCopy]
  /\ pc' = "idle" /\ todo' = <<>> /\ seen' = {} /\ deferred' = <<>> /\ n' = 0 /\ res' = ""
  /\ cur' = NoWork
  /\ embOk' = TRUE /\ marked' = 0 /\ forwards' = [a \in Atoms |-> 0]
  /\ holder' = "none" /\ waiting' = {} /\ passed' = 0
  /\ UNCHANGED <<store, asked, reputs>>

Init ==
  /\ rows = [a \in Atoms |-> IF a \in Historic
                             THEN [NoRow EXCEPT !.st = "none",
                                     !.next = IF a + 1 \in Historic THEN a + 1 ELSE NoAtom]
                             ELSE NoRow]
  /\ vec = {} /\ p1 = <<>> /\ p2 = <<>> /\ dropped = {}
  /\ put = [pc |-> "idle", id |-> NoAtom, prev |-> NoAtom]
  /\ over = [p \in {"promoter", "drain"} |-> NoCopy]
  /\ pc = "idle" /\ todo = <<>> /\ seen = {} /\ deferred = <<>> /\ n = 0 /\ res = ""
  /\ cur = NoWork
  /\ embOk = TRUE /\ marked = 0 /\ forwards = [a \in Atoms |-> 0]
  /\ holder = "none" /\ waiting = {} /\ asked = {} /\ passed = 0
  /\ faults = 0 /\ reputs = 0

Poll == \/ PollStart \/ CatchUpOne \/ ScanList \/ ScanOne \/ DrainStart \/ Pop \/ StopDrain
        \/ Get \/ AcquireBulk \/ YieldBulk \/ Encode \/ Upsert \/ Mark \/ FlushOne \/ FlushEnd

Promote == \/ \E kind \in {"text", "media", "empty"} : Put(kind)
           \/ \E a \in Atoms : Reput(a)
           \/ OnWritten \/ UpdateLinks

Next == \/ Poll \/ Promote \/ Restart
        \/ \E p \in {"promoter", "drain"} : OverflowRead(p) \/ OverflowWrite(p)
        \/ \E c \in Lookups : LookupAsk(c) \/ LookupGrant(c) \/ LookupTimeout(c) \/ LookupDone(c)

\* The worker thread polls for ever, and a thread that promotes, marks or looks
\* up goes on once it has begun.  Lookups are finitely many: a stream of them
\* that never pauses would keep the drain from the gate for good.
Fairness ==
  /\ WF_vars(Poll)
  /\ \A p \in {"promoter", "drain"} : WF_vars(OverflowRead(p) \/ OverflowWrite(p))
  /\ WF_vars(OnWritten \/ UpdateLinks)
  /\ \A c \in Lookups : WF_vars(LookupGrant(c) \/ LookupTimeout(c)) /\ WF_vars(LookupDone(c))

Spec == Init /\ [][Next]_vars /\ Fairness

-----------------------------------------------------------------------------
(* Properties                                                              *)

\* The state is well formed, and the two lanes hold each id at most once and
\* never more ids than encode_queue_max (the lock makes the dedupe atomic).
TypeOK ==
  /\ rows \in [Atoms -> Row] /\ vec \subseteq Atoms
  /\ IsInjective(p1 \o p2) /\ Queued \subseteq Atoms /\ Len(p1) + Len(p2) <= MaxSize
  /\ put.pc \in {"idle", "hook", "link"} /\ over \in [{"promoter", "drain"} -> Copy]
  /\ seen \subseteq Atoms /\ deferred \in Seq(Item) /\ n \in 0 .. MaxItems
  /\ holder \in {"none", "bulk"} \cup Lookups /\ waiting \subseteq Lookups

\* A row says ready only when the index holds the atom's vector (KD20), also
\* when the upsert is refused or the process dies between upsert and mark.
ReadyHasVector == \A a \in Atoms : rows[a].st = "ready" => a \in vec

\* An atom is given up for a cause: failed after encode_max_attempts forwards,
\* skipped when it has nothing to embed or the full queue dropped it.
GivenUpForCause ==
  \A a \in Atoms :
    /\ rows[a].st = "failed" => rows[a].tries = MaxAttempts
    /\ rows[a].st = "skipped" => rows[a].kind = "empty" \/ a \in dropped

\* KD-E15: one drain call never runs the model twice on one atom, although the
\* hook may enqueue it again while the call is running.
OncePerTick == \A a \in Atoms : forwards[a] <= 1

\* A lookup that waits for the gate is not overtaken by a bulk forward.
LookupNotOvertaken == passed = 0

\* Every text atom that is stored gets its vector or is given up.
Resolved ==
  \A a \in Atoms :
    (rows[a].st = "pending" /\ rows[a].kind = "text")
      ~> (rows[a].st \in {"ready", "failed", "skipped"})

\* What docs/design/memory/design-phase-1-implementation.md says of the weave:
\* between promotes at most one stored atom has no successor.
OneOpenTail ==
  put.pc = "idle" => Cardinality({a \in Stored : rows[a].next = NoAtom}) <= 1

\* With promoter, drain and lookups at work: an atom that says ready has its
\* vector, one that was given up had a cause, no atom is encoded twice in a tick,
\* and no waiting lookup is overtaken by bulk work.
EncodedFaithfully ==
  TypeOK /\ ReadyHasVector /\ GivenUpForCause /\ OncePerTick /\ LookupNotOvertaken
=============================================================================
