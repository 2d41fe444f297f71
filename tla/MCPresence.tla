----------------------------- MODULE MCPresence -----------------------------
(***************************************************************************)
(* The instances of Presence that TLC checks.  In the run "presence" a     *)
(* behaviour may use everything there is.  What makes a large instance     *)
(* large is everything at once, so a behaviour of the run "worker" uses    *)
(* only what its focus names: continuous work and its switch; the waits of *)
(* two users with a job or with a process death; the waits when a moment   *)
(* cannot be opened; or two messages against a full buffer, a timer and    *)
(* the loss of the model.                                                  *)
(***************************************************************************)
EXTENDS Presence

VARIABLE focus  \* what this behaviour is about

\* All messages come from one user, or each user sends one.
OneSender == [m \in Msgs |-> "ann"]
EachTheirOwn == [m \in Msgs |-> IF m = 1 THEN "ann" ELSE "bob"]

\* The run "presence".

WholeSpec ==
  /\ Init /\ focus = "everything"
  /\ [][Next /\ UNCHANGED focus]_<<vars, focus>>
  /\ Fairness

\* The run "worker".

NoWaits == \A w \in Waits : waits[w].status = "absent"
NoDeath == bounds.crashes = MaxCrashes
NoFaults == bounds.faults = MaxFaults
NoWork == bounds.work = MaxWork
NoTimer == work["timer"] = 0 /\ inflight.kind # "timer"
NoJob == jobs = Jobs
OneUser == 2 \in unsent /\ \A w \in Waits : waits[w].user # "bob"
OneWait == \A w \in Waits \ {1} : waits[w].status = "absent"
SwitchUntouched == bounds.toggles = MaxToggles
ModelThere == bounds.outages = MaxOutages

WithinFocus ==
  /\ bounds.resets = MaxResets
  /\ CASE focus = "continuous" -> OneUser /\ OneWait /\ NoTimer /\ NoJob /\ NoFaults /\ ModelThere
       [] focus = "waits" -> (NoJob \/ NoDeath) /\ NoWork /\ NoFaults /\ ModelThere /\ SwitchUntouched
       [] focus = "waits faults" -> NoWork /\ NoJob /\ ModelThere /\ SwitchUntouched
       [] focus = "messages" -> NoWaits /\ NoJob /\ SwitchUntouched
                                /\ work["task_ready"] = 0 /\ inflight.kind # "task_ready"

WorkerSpec ==
  /\ focus \in {"continuous", "waits", "waits faults", "messages"} /\ Init
  /\ [][Next /\ UNCHANGED focus /\ WithinFocus']_<<vars, focus>>
=============================================================================
