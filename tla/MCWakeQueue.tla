---------------------------- MODULE MCWakeQueue ----------------------------
(***************************************************************************)
(* The instance of WakeQueue that the run "wake_queue" checks: two wakes   *)
(* with two times and an append that raises, or three wakes of one time    *)
(* and appends that succeed.                                               *)
(***************************************************************************)
EXTENDS WakeQueue, SequencesExt

\* What has been enqueued, is about to be, or is remembered.
Enqueued == {e \in ToSet(log) \cup todo.enqueue : e.item # NoItem}
KnownIds == {e.id : e \in Enqueued} \cup {i \in Ids : items[i] # NoItem}
KnownTimes == {e.item.at : e \in Enqueued} \cup {items[i].at : i \in {j \in Ids : items[j] # NoItem}}

WithinBounds ==
  \/ KnownIds \subseteq {1, 2}
  \/ KnownTimes \subseteq {1} /\ faults = 0

MCSpec == Init /\ [][Next /\ WithinBounds']_vars
=============================================================================
