----------------------------- MODULE WakeItems -----------------------------
(***************************************************************************)
(* Wake items and their order (elyra/presence/queue.py): the kinds and     *)
(* their priority bands, the lifecycle ops, and the key by which claim     *)
(* chooses among pending wakes.                                            *)
(***************************************************************************)
EXTENDS Integers

CONSTANTS
  Ids,    \* wake ids (uuid4 values; ordered, for the heap's tie-break)
  Works,  \* payloads: what a wake is about (a message, a task, a timer, ...)
  Times,  \* wall-clock instants in microseconds; the clock may step back
  Second  \* microseconds per second

ASSUME ItemsOK ==
  /\ Ids \subseteq Int
  /\ Times \subseteq Nat
  /\ Second \in Nat \ {0}

\* KIND_PRIORITY: the lower band is served first.
Priority ==
  [user_message |-> 0, wait_reply |-> 0, wait_timeout |-> 1, timer |-> 2,
   task_ready |-> 3, moment_continue |-> 3, background |-> 4]

KnownKinds == DOMAIN Priority
TerminalOps == {"done", "cancelled"}
ReEnqueueOnRecover == {"timer", "task_ready", "moment_continue"}

\* Latest lifecycle op of a wake; "none" for an unknown one.
Ops == {"none", "enqueue", "claimed", "done", "cancelled"}

Item   == [kind : KnownKinds, work : Works, at : Times]
NoItem == [kind |-> "none"]

\* created_at is compared as text, and isoformat() leaves the fraction out when
\* it is zero: "...:05Z" sorts after every "...:05.xxxxxxZ".
IsoRank(t) == IF t % Second = 0 THEN t + Second ELSE t

\* _heap_key: band, then created_at, then id.
HeapKey(i, item) == <<Priority[item.kind], IsoRank(item.at), i>>

Before(k, l) ==
  \/ k[1] < l[1]
  \/ k[1] = l[1] /\ k[2] < l[2]
  \/ k[1] = l[1] /\ k[2] = l[2] /\ k[3] < l[3]
=============================================================================
