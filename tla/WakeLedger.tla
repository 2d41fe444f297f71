---------------------------- MODULE WakeLedger ----------------------------
(***************************************************************************)
(* What the wake queue promises: a ledger with one status per wake.  There *)
(* is no log, index, heap or crash here; a process death and the rebuild   *)
(* of the index are invisible at this level.                               *)
(***************************************************************************)
EXTENDS WakeItems

VARIABLES
  status,  \* the wake's latest op
  item     \* what was enqueued under the id

vars == <<status, item>>

Init ==
  /\ status = [i \in Ids |-> "none"]
  /\ item = [i \in Ids |-> NoItem]

\* A new wake becomes claimable.
Enqueue(i) ==
  /\ status[i] = "none"
  /\ status' = [status EXCEPT ![i] = "enqueue"]
  /\ \E it \in Item : item' = [item EXCEPT ![i] = it]

\* The first claimable wake in (band, created_at, id) order is handed out, one
\* at a time.
Claim(i) ==
  /\ status[i] = "enqueue"
  /\ \A j \in Ids : status[j] # "claimed"
  /\ \A j \in Ids : status[j] = "enqueue" /\ j # i =>
       Before(HeapKey(i, item[i]), HeapKey(j, item[j]))
  /\ status' = [status EXCEPT ![i] = "claimed"]
  /\ UNCHANGED item

\* Only a claimed wake is done; a wake is cancelled while it is open.
Done(i) ==
  /\ status[i] = "claimed"
  /\ status' = [status EXCEPT ![i] = "done"]
  /\ UNCHANGED item

Cancel(i) ==
  /\ status[i] \in {"enqueue", "claimed"}
  /\ status' = [status EXCEPT ![i] = "cancelled"]
  /\ UNCHANGED item

\* A full reset forgets every wake.
Forget ==
  /\ status' = [i \in Ids |-> "none"]
  /\ item' = [i \in Ids |-> NoItem]

Next ==
  \/ \E i \in Ids : Enqueue(i) \/ Claim(i) \/ Done(i) \/ Cancel(i)
  \/ Forget

Spec == Init /\ [][Next]_vars
=============================================================================
