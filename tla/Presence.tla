------------------------------ MODULE Presence ------------------------------
(***************************************************************************)
(* The presence worker of elyra/presence/worker.py: the phase machine that *)
(* claims wakes, runs one moment at a time and routes what users write     *)
(* meanwhile, with the interject buffer, the waits, continuous work, the   *)
(* full reset and the restart after a crash.                               *)
(*                                                                         *)
(* The worker lock makes an operation atomic for other threads; the lock   *)
(* is free while the do-loop runs.  The do-loop is reduced here to what it *)
(* does to messages: a model call sees them, a tool batch drains the       *)
(* buffer, and the loop stops.  Queue order inside a band is left open     *)
(* (WakeQueue has it).                                                     *)
(***************************************************************************)
EXTENDS Integers, Sequences, FiniteSets, SequencesExt

CONSTANTS
  Msgs,        \* messages users send
  Users,       \* user ids
  UserOf,      \* who sends a message
  Waits,       \* wait ids
  WorkKinds,   \* kinds of wakes other than messages this instance enumerates
  Jobs,        \* instrument jobs that complete
  Cap,         \* messages the interject buffer holds
  MaxHops,     \* max_tool_hops
  MaxStreak,   \* continuous.max_continue_streak
  MaxWork,     \* bound on work wakes that arrive
  MaxCrashes,  \* bound on process deaths
  MaxFaults,   \* bound on moments that cannot be opened
  MaxResets,   \* bound on full resets
  MaxOutages,  \* bound on losses of the model (usage hard stop, no credentials)
  MaxToggles   \* bound on switches of continuous work

Priority ==
  [user_message |-> 0, wait_reply |-> 0, wait_timeout |-> 1, timer |-> 2,
   task_ready |-> 3, moment_continue |-> 3, background |-> 4]
Social  == {"user_message", "wait_reply"}
Durable == {"timer", "task_ready", "moment_continue"}

ASSUME PresenceOK ==
  /\ UserOf \in [Msgs -> Users]
  /\ WorkKinds \subseteq {"timer", "task_ready"}
  /\ Cap \in Nat /\ MaxHops \in Nat /\ MaxStreak \in Nat /\ MaxWork \in Nat
  /\ MaxCrashes \in Nat /\ MaxFaults \in Nat /\ MaxResets \in Nat
  /\ MaxOutages \in Nat /\ MaxToggles \in Nat

VARIABLES
  up,       \* is the process running?
  phase,    \* PresenceWorker._phase
  at,       \* where the worker is: "poll", in the loop, or in its finalization
  hops,     \* model calls of the running moment
  result,   \* what the do-loop returned
  inflight, \* the claimed wake
  open,     \* is a moment open in the moment store?
  social,   \* pending message wakes
  work,     \* pending wakes of the other kinds, counted
  buffer,   \* InterjectBuffer
  chain,    \* messages drained into the moment's chain, not yet sent to the model
  waits,    \* the waits, with their user
  model,    \* model_available()
  enabled,  \* continuous.enabled
  streak,   \* continuous.streak
  resetting,\* "no", "disk" (phase 1), "memory" (phase 2), "end" (before the flag falls)
  glass,    \* messages on the glass
  unsent,   \* messages still to be written
  posted,   \* messages appended to the glass, not yet routed
  seen,     \* history: messages a model call has been given
  bouts,    \* history: how often a message started or entered a moment
  gone,     \* history: messages refused, or lost to a crash, a reset or a stop
  jobs,     \* jobs still running
  bounds    \* what is left of the bounds

queueVars == <<social, work>>
loopVars  == <<at, hops, result, inflight, open>>
msgVars   == <<glass, unsent, posted, seen, bouts, gone>>
contVars  == <<model, enabled, streak>>
vars == <<up, phase, at, hops, result, inflight, open, social, work, buffer, chain,
          waits, model, enabled, streak, resetting, glass, unsent, posted, seen, bouts, gone,
          jobs, bounds>>

-----------------------------------------------------------------------------
Nobody == ""
NoWake == [kind |-> "none", about |-> 0]
Wake(kind, about) == [kind |-> kind, about |-> about]

QueueKinds == {"timer", "task_ready", "wait_timeout", "moment_continue", "background"}
StopReasons == {"no_tools", "wait", "blocked", "policy", "time_continue_declined",
                "wall_clock", "error", "max_hops"}
\* MOMENT_CONTINUE_STOP_ALLOWLIST
MayContinue == {"no_tools", "time_continue_declined", "max_hops"}

NoResult == [stop |-> "none", progress |-> FALSE]

Pending == {w \in Waits : waits[w].status = "pending"}

PhaseKept(W) == IF W # {} THEN "waiting" ELSE phase   \* mutant: it is only ever raised

\* _phase_from_pending_waits_unlocked, for the waits W.
PhaseFrom(W) == IF W # {} THEN "waiting" ELSE "idle"

\* The worker lock is free: the worker is polling or inside the do-loop.
LoopSteps == {"hop", "reply"}
Unlocked  == up /\ at \in {"poll", "stopped"} \cup LoopSteps
Polling   == up /\ at = "poll"

Spend(b) == bounds[b] > 0 /\ bounds' = [bounds EXCEPT ![b] = @ - 1]

-----------------------------------------------------------------------------
(* API threads: what users write                                           *)

\* POST /api/messages, /api/wait/reply: the message goes on the glass ...
AppendMessage(m) ==
  /\ Unlocked
  /\ m \in unsent
  /\ unsent' = unsent \ {m}
  /\ IF resetting # "no"
       THEN gone' = gone \cup {m} /\ UNCHANGED <<glass, posted>>
       ELSE glass' = glass \cup {m} /\ posted' = posted \cup {m} /\ UNCHANGED gone
  /\ UNCHANGED <<up, phase, loopVars, queueVars, buffer, chain, waits, contVars,
                 resetting, seen, bouts, jobs, bounds>>

\* InterjectBuffer.try_add
HasRoom == Len(buffer) < Cap

\* mutant: a buffered message gets a durable wake as well
InterjectAndWake(m) ==
  /\ buffer' = IF HasRoom THEN Append(buffer, m) ELSE buffer
  /\ social' = social \cup {Wake("user_message", m)}
  /\ UNCHANGED <<waits, phase>>

\* interject while a moment runs: buffered, or a durable wake when it is full.
Interject(m) ==
  /\ IF HasRoom
       THEN buffer' = Append(buffer, m) /\ UNCHANGED social
       ELSE social' = social \cup {Wake("user_message", m)} /\ UNCHANGED buffer
  /\ UNCHANGED <<waits, phase>>

\* _apply_wait_reply_unlocked: the phase stays waiting until the claim.
WaitReply(m, w) ==
  /\ waits' = [waits EXCEPT ![w].status = "answered"]
  /\ social' = social \cup {Wake("wait_reply", m)}
  /\ UNCHANGED <<buffer, phase>>

\* The user_message route, with the cancellation of a stale wait.
UserMessage(m, stale) ==
  /\ waits' = [w \in Waits |-> IF w \in stale THEN [waits[w] EXCEPT !.status = "cancelled"]
                               ELSE waits[w]]
  /\ phase' = IF stale # {} /\ phase = "waiting" /\ Pending = stale THEN "idle" ELSE phase
  /\ social' = social \cup {Wake("user_message", m)}
  /\ UNCHANGED buffer

\* The decision of user_input.resolve_user_input outside a moment, when mine is
\* the first pending wait if it waits for this user.
IsReply(mine, fromWaitApi) == mine # {} /\ (fromWaitApi \/ phase = "waiting")

\* ... and is then routed by resolve_user_input.  The wait it may answer is the
\* first pending one (here: any one), if it waits for this user.
Route(m, fromWaitApi) ==
  /\ Unlocked /\ resetting = "no"
  /\ m \in posted
  /\ posted' = posted \ {m}
  /\ IF phase = "in_moment"
       THEN Interject(m)
       ELSE \E first \in (IF Pending = {} THEN {{}} ELSE {{w} : w \in Pending}) :
              LET mine == {w \in first : waits[w].user = UserOf[m]} IN
              IF IsReply(mine, fromWaitApi)
                THEN WaitReply(m, CHOOSE w \in mine : TRUE)
                ELSE UserMessage(m, mine)
  /\ UNCHANGED <<up, loopVars, work, chain, contVars, resetting, glass, unsent, seen,
                 bouts, gone, jobs, bounds>>

\* resolve_user_input while a reset runs refuses the message.
RouteRefused(m) ==
  /\ Unlocked /\ resetting # "no"
  /\ m \in posted
  /\ posted' = posted \ {m}
  /\ gone' = gone \cup {m}
  /\ UNCHANGED <<up, phase, loopVars, queueVars, buffer, chain, waits, contVars,
                 resetting, glass, unsent, seen, bouts, jobs, bounds>>

-----------------------------------------------------------------------------
(* Other sources of wakes                                                  *)

\* schedule_due in the worker's poll: during a reset too, until the timers are
\* cleared.
TimerFires ==
  /\ "timer" \in WorkKinds
  /\ Polling /\ resetting # "end"
  /\ Spend("work")
  /\ work' = [work EXCEPT !["timer"] = @ + 1]
  /\ UNCHANGED <<up, phase, loopVars, social, buffer, chain, waits, contVars, resetting,
                 msgVars, jobs>>

\* mutant: the check of the flag is missing
TaskReadyInReset ==
  /\ "task_ready" \in WorkKinds
  /\ Unlocked
  /\ Spend("work")
  /\ work' = [work EXCEPT !["task_ready"] = 1]
  /\ UNCHANGED <<up, phase, loopVars, social, buffer, chain, waits, contVars, resetting,
                 msgVars, jobs>>

\* _on_task_ready, from an API thread or a tool: skipped during a reset, and a
\* pending wake of the task is replaced.
TaskReady ==
  /\ "task_ready" \in WorkKinds
  /\ Unlocked /\ resetting = "no"
  /\ Spend("work")
  /\ work' = [work EXCEPT !["task_ready"] = 1]
  /\ UNCHANGED <<up, phase, loopVars, social, buffer, chain, waits, contVars, resetting,
                 msgVars, jobs>>

\* check_timeouts in the worker's poll.
WaitTimesOut(w) ==
  /\ Polling
  /\ waits[w].status = "pending"
  /\ waits' = [waits EXCEPT ![w].status = "timed_out"]
  /\ work' = [work EXCEPT !["wait_timeout"] = @ + 1]
  /\ UNCHANGED <<up, phase, loopVars, social, buffer, chain, contVars, resetting, msgVars,
                 jobs, bounds>>

\* InstrumentReaper._enqueue_completion: straight into the shared queue, from
\* the reaper's thread, without the worker lock.
JobCompletes(j) ==
  /\ up /\ j \in jobs
  /\ jobs' = jobs \ {j}
  /\ work' = [work EXCEPT !["background"] = @ + 1]
  /\ UNCHANGED <<up, phase, loopVars, social, buffer, chain, waits, contVars, resetting,
                 msgVars, bounds>>

\* set_continuous_enabled: switching off cancels the pending continue wakes.
SetContinuous(on) ==
  /\ Unlocked /\ resetting = "no"
  /\ on # enabled
  /\ Spend("toggles")
  /\ enabled' = on
  /\ streak' = IF on THEN streak ELSE 0
  /\ work' = IF on THEN work ELSE [work EXCEPT !["moment_continue"] = 0]
  /\ UNCHANGED <<up, phase, loopVars, social, buffer, chain, waits, model, resetting,
                 msgVars, jobs>>

\* The model is lost (a usage hard stop, missing credentials) or comes back.
ModelLost ==
  /\ up /\ model /\ Spend("outages")
  /\ model' = FALSE
  /\ UNCHANGED <<up, phase, loopVars, queueVars, buffer, chain, waits, enabled, streak,
                 resetting, msgVars, jobs>>

ModelBack ==
  /\ up /\ ~model
  /\ model' = TRUE
  /\ UNCHANGED <<up, phase, loopVars, queueVars, buffer, chain, waits, enabled, streak,
                 resetting, msgVars, jobs, bounds>>

-----------------------------------------------------------------------------
(* The worker: claiming                                                    *)

Queued == social \cup {Wake(k, 0) : k \in {q \in QueueKinds : work[q] > 0}}
Best   == {e \in Queued : \A f \in Queued : Priority[e.kind] <= Priority[f.kind]}

Take(e) ==
  IF e.kind \in Social
    THEN social' = social \ {e} /\ UNCHANGED work
    ELSE work' = [work EXCEPT ![e.kind] = @ - 1] /\ UNCHANGED social

\* _claim_and_open: skipped while a reset runs or the model is unavailable.
Claim ==
  /\ Polling /\ resetting = "no" /\ model
  /\ \E e \in Best :
       /\ Take(e)
       /\ inflight' = e
       /\ bouts' = [m \in Msgs |-> IF e.kind \in Social /\ e.about = m THEN bouts[m] + 1
                                   ELSE bouts[m]]
       /\ streak' = IF e.kind \in Social THEN 0 ELSE streak
  /\ open' = TRUE
  /\ phase' = "in_moment"
  /\ at' = "hop" /\ hops' = 0 /\ result' = NoResult
  /\ buffer' = <<>> /\ chain' = {}
  /\ UNCHANGED <<up, waits, model, enabled, resetting, glass, unsent, posted, seen, gone,
                 jobs, bounds>>

\* open_moment raises: the wake is cancelled and _fail_in_flight sets the phase.
ClaimFails ==
  /\ Polling /\ resetting = "no" /\ model
  /\ Spend("faults")
  /\ \E e \in Best :
       /\ Take(e)
       /\ gone' = IF e.kind \in Social THEN gone \cup {e.about} ELSE gone
  /\ phase' = PhaseFrom(Pending)
  /\ UNCHANGED <<up, loopVars, buffer, chain, waits, contVars, resetting, glass, unsent,
                 posted, seen, bouts, jobs>>

-----------------------------------------------------------------------------
(* The worker: the do-loop, as messages see it                             *)

\* The messages the next model call would carry for the first time.
Unseen == chain \cup {m \in Msgs : inflight = Wake("user_message", m)
                                   \/ inflight = Wake("wait_reply", m)}

LoopFrame == <<up, phase, open, queueVars, contVars, resetting, glass, unsent, posted,
               jobs, bounds>>

\* The pre-checks pass and the model answers.
ModelCall ==
  /\ up /\ at = "hop" /\ hops < MaxHops
  /\ at' = "reply"
  /\ hops' = hops + 1
  /\ seen' = seen \cup Unseen
  /\ chain' = {}
  /\ UNCHANGED <<LoopFrame, result, inflight, buffer, waits, bouts, gone>>

\* Stop with what was drained but never sent left behind in the moment.
Stop(reason) ==
  /\ at' = "stopped"
  /\ result' = [result EXCEPT !.stop = reason]
  /\ gone' = gone \cup (Unseen \ seen)
  /\ chain' = {}
  /\ UNCHANGED <<LoopFrame, hops, inflight, buffer, seen, bouts>>

\* resolve_host_precheck_stop, or (below the hop limit) the model call raises:
\* "policy" for a usage hard stop, "error" otherwise.
HostStop(reason) ==
  /\ up /\ at = "hop"
  /\ IF hops >= MaxHops THEN reason \in {"wall_clock", "max_hops"}
     ELSE reason \in {"wall_clock", "time_continue_declined", "policy", "error"}
  /\ Stop(reason)
  /\ UNCHANGED waits

\* A tool batch runs to its end, with or without progress, and drains the buffer.
ToolBatch(progress) ==
  /\ up /\ at = "reply"
  /\ at' = "hop"
  /\ result' = [result EXCEPT !.progress = @ \/ progress]
  /\ chain' = chain \cup Range(buffer)
  /\ bouts' = [m \in Msgs |-> IF m \in Range(buffer) THEN bouts[m] + 1 ELSE bouts[m]]
  /\ buffer' = <<>>
  /\ UNCHANGED <<LoopFrame, hops, inflight, waits, seen, gone>>

\* wait_user arms a wait for some user and ends the moment.
ToolWait(w, u) ==
  /\ up /\ at = "reply"
  /\ waits[w].status = "absent"
  /\ waits' = [waits EXCEPT ![w] = [status |-> "pending", user |-> u]]
  /\ Stop("wait")

\* cancel_wait from a tool (the moment is running, so the phase stays).
ToolCancelWait(w) ==
  /\ up /\ at = "reply"
  /\ waits[w].status = "pending"
  /\ waits' = [waits EXCEPT ![w].status = "cancelled"]
  /\ UNCHANGED <<LoopFrame, at, hops, result, inflight, buffer, chain, seen, bouts, gone>>

\* A control tool or an exception ends the moment, or a free-text reply does; none
\* of them drains the buffer.
LoopEnds(reason) ==
  /\ up /\ at = "reply" /\ reason \in {"blocked", "policy", "no_tools", "error"}
  /\ Stop(reason)
  /\ UNCHANGED waits

\* A free-text reply is answered with a host nudge instead.
Nudge ==
  /\ up /\ at = "reply"
  /\ at' = "hop"
  /\ UNCHANGED <<LoopFrame, hops, result, inflight, buffer, chain, waits, seen, bouts, gone>>

-----------------------------------------------------------------------------
(* The worker: finalization (under the lock; the process may die between   *)
(* the writes)                                                             *)

FinalFrame == <<up, hops, glass, unsent, posted, seen, bouts, gone, jobs, bounds, resetting, chain>>

\* close_moment ...
CloseMoment ==
  /\ up /\ at = "stopped"
  /\ at' = "closed"
  /\ open' = FALSE
  /\ UNCHANGED <<FinalFrame, phase, result, inflight, queueVars, buffer, waits, contVars>>

\* ... mark_done ...
MarkDone ==
  /\ up /\ at = "closed"
  /\ at' = "done"
  /\ UNCHANGED <<FinalFrame, phase, result, inflight, open, queueVars, buffer, waits,
                 contVars>>

\* mutant: gates 1 (the toggle) and 4 (dedupe) of the decision dropped, one each
ContinueWhenOff(newStreak, openWork) ==
  /\ result.stop \in MayContinue /\ result.progress /\ openWork
  /\ Pending = {} /\ newStreak < MaxStreak
  /\ work["moment_continue"] = 0 /\ work["task_ready"] = 0
\* should_enqueue_moment_continue with its gates (flood is one of the reasons a
\* moment made no progress here); open work and the cooldown are inputs.
ContinueAllowed(newStreak, openWork) ==
  /\ enabled
  /\ result.stop \in MayContinue
  /\ Pending = {}
  /\ work["moment_continue"] = 0
  /\ newStreak < MaxStreak
  /\ result.progress
  /\ work["task_ready"] = 0
  /\ openWork

\* _flush_interjects_as_wakes_unlocked
Flushed == social \cup {Wake("user_message", m) : m \in Range(buffer)}

\* ... then leftovers become wakes, the phase follows the waits, and continuous
\* work may enqueue its next moment.
Finalize(openWork) ==
  LET newStreak == IF inflight.kind = "moment_continue" /\ enabled THEN streak + 1 ELSE streak
  IN
  /\ up /\ at = "done"
  /\ at' = "poll"
  /\ social' = Flushed
  /\ buffer' = <<>>
  /\ phase' = PhaseFrom(Pending)
  /\ streak' = newStreak
  /\ work' = IF ContinueAllowed(newStreak, openWork)
               THEN [work EXCEPT !["moment_continue"] = @ + 1] ELSE work
  /\ inflight' = NoWake /\ result' = NoResult
  /\ UNCHANGED <<FinalFrame, open, waits, model, enabled>>

\* An exception outside the do-loop (before it, or in close_moment): _fail_in_flight
\* closes the moment as an error, ends the wake and flushes, without continuous work.
FailInFlight ==
  /\ up /\ ((at = "hop" /\ hops = 0) \/ at = "stopped")
  /\ Spend("faults")
  /\ at' = "poll"
  /\ open' = FALSE
  /\ gone' = gone \cup (Unseen \ seen)
  /\ chain' = {}
  /\ social' = Flushed
  /\ buffer' = <<>>
  /\ phase' = PhaseFrom(Pending)
  /\ inflight' = NoWake /\ result' = NoResult
  /\ UNCHANGED <<up, hops, work, waits, contVars, resetting, glass, unsent, posted, seen,
                 bouts, jobs>>

-----------------------------------------------------------------------------
(* Full reset                                                              *)

\* reset_runtime_state: refused while a moment runs or another reset does.
StartReset ==
  /\ Unlocked /\ resetting = "no" /\ phase # "in_moment"
  /\ Spend("resets")
  /\ resetting' = "disk"
  /\ UNCHANGED <<up, phase, loopVars, queueVars, buffer, chain, waits, contVars, msgVars,
                 jobs>>

\* Phase 1, without the lock: the stores on disk are emptied.
ResetDisk ==
  /\ up /\ resetting = "disk"
  /\ resetting' = "memory"
  /\ glass' = {}
  /\ UNCHANGED <<up, phase, loopVars, queueVars, buffer, chain, waits, contVars, unsent,
                 posted, seen, bouts, gone, jobs, bounds>>

\* Phase 2, under the lock: timers, waits, queue, glass again, streak, phase.
ResetMemory ==
  /\ Unlocked /\ resetting = "memory"
  /\ resetting' = "end"
  /\ waits' = [w \in Waits |-> IF waits[w].status = "absent" THEN waits[w]
                               ELSE [waits[w] EXCEPT !.status = "cleared"]]
  /\ gone' = gone \cup {e.about : e \in social} \cup Range(buffer)
  /\ social' = {} /\ work' = [k \in QueueKinds |-> 0]
  /\ glass' = {}
  /\ streak' = 0
  /\ buffer' = <<>>
  /\ phase' = "idle"
  /\ UNCHANGED <<up, loopVars, chain, model, enabled, unsent, posted, seen, bouts, jobs,
                 bounds>>

\* Finally the flag falls, in a critical section of its own.
EndReset ==
  /\ Unlocked /\ resetting = "end"
  /\ resetting' = "no"
  /\ UNCHANGED <<up, phase, loopVars, queueVars, buffer, chain, waits, contVars, msgVars,
                 jobs, bounds>>

-----------------------------------------------------------------------------
(* Process death and restart                                               *)

\* What was only in memory is lost: buffer, chain, streak, the requests of the
\* API threads.  The queue, the waits, the open moment and the flag are on disk.
Crash ==
  /\ up /\ resetting = "no"
  /\ Spend("crashes")
  /\ up' = FALSE
  /\ gone' = gone \cup posted \cup Range(buffer) \cup (chain \ seen)
  /\ posted' = {} /\ buffer' = <<>> /\ chain' = {}
  /\ streak' = 0
  /\ inflight' = IF at = "done" THEN NoWake ELSE inflight
  /\ result' = NoResult
  /\ at' = "poll" /\ hops' = 0 /\ phase' = "idle"
  /\ UNCHANGED <<open, queueVars, waits, model, enabled, resetting, glass, unsent, seen, bouts,
                 jobs>>

\* _startup_recover: open moments are interrupted, the claimed wake is cancelled
\* and a durable one enqueued again, and the phase follows the waits.
Restart ==
  /\ ~up
  /\ up' = TRUE
  /\ open' = FALSE
  /\ inflight' = NoWake
  /\ work' = IF inflight.kind \in Durable THEN [work EXCEPT ![inflight.kind] = @ + 1] ELSE work
  /\ gone' = gone \cup (Unseen \ seen)
  /\ phase' = PhaseFrom(Pending)
  /\ UNCHANGED <<at, hops, result, social, buffer, chain, waits, contVars, resetting,
                 glass, unsent, posted, seen, bouts, jobs, bounds>>

-----------------------------------------------------------------------------
Init ==
  /\ up = TRUE /\ phase = "idle"
  /\ at = "poll" /\ hops = 0 /\ result = NoResult
  /\ inflight = NoWake /\ open = FALSE
  /\ social = {} /\ work = [k \in QueueKinds |-> 0]
  /\ buffer = <<>> /\ chain = {}
  /\ waits = [w \in Waits |-> [status |-> "absent", user |-> Nobody]]
  /\ model = TRUE /\ enabled \in BOOLEAN /\ streak = 0
  /\ resetting = "no"
  /\ glass = {} /\ unsent = Msgs /\ posted = {} /\ seen = {} /\ gone = {}
  /\ bouts = [m \in Msgs |-> 0]
  /\ jobs = Jobs
  /\ bounds = [work |-> MaxWork, crashes |-> MaxCrashes, faults |-> MaxFaults,
               resets |-> MaxResets, outages |-> MaxOutages, toggles |-> MaxToggles]

Next ==
  \/ \E m \in Msgs : AppendMessage(m) \/ RouteRefused(m) \/ Route(m, TRUE) \/ Route(m, FALSE)
  \/ TimerFires \/ TaskReady
  \/ \E w \in Waits : WaitTimesOut(w) \/ ToolCancelWait(w) \/ \E u \in Users : ToolWait(w, u)
  \/ \E j \in Jobs : JobCompletes(j)
  \/ \E b \in BOOLEAN : SetContinuous(b) \/ ToolBatch(b) \/ Finalize(b)
  \/ \E r \in StopReasons : HostStop(r) \/ LoopEnds(r)
  \/ Claim \/ ClaimFails \/ ModelCall \/ Nudge \/ CloseMoment \/ MarkDone \/ FailInFlight
  \/ ModelLost \/ ModelBack
  \/ StartReset \/ ResetDisk \/ ResetMemory \/ EndReset \/ Crash \/ Restart

\* The worker thread keeps running, a started request and a started reset are
\* carried through, a dead process is restarted and the model comes back.
Fairness ==
  /\ WF_vars(Claim) /\ WF_vars(ModelCall) /\ WF_vars(CloseMoment) /\ WF_vars(MarkDone)
  /\ WF_vars(\E r \in StopReasons : HostStop(r))
  /\ WF_vars((\E b \in BOOLEAN : ToolBatch(b)) \/ \E r \in StopReasons : LoopEnds(r))
  /\ WF_vars(\E b \in BOOLEAN : Finalize(b))
  /\ WF_vars(ResetDisk) /\ WF_vars(ResetMemory) /\ WF_vars(EndReset) /\ WF_vars(Restart)
  /\ WF_vars(ModelBack)
  /\ \A m \in Msgs : WF_vars(RouteRefused(m) \/ Route(m, TRUE) \/ Route(m, FALSE))

Spec == Init /\ [][Next]_vars /\ Fairness

-----------------------------------------------------------------------------
(* Properties                                                              *)

\* Every variable keeps its type.
TypeOK ==
  /\ up \in BOOLEAN /\ phase \in {"idle", "in_moment", "waiting"}
  /\ at \in {"poll", "hop", "reply", "stopped", "closed", "done"}
  /\ hops \in 0 .. MaxHops
  /\ result \in [stop : StopReasons \cup {"none"}, progress : BOOLEAN]
  /\ inflight \in [kind : DOMAIN Priority \cup {"none"}, about : Msgs \cup {0}]
  /\ open \in BOOLEAN
  /\ social \subseteq [kind : Social, about : Msgs]
  /\ work \in [QueueKinds -> Nat]
  /\ buffer \in Seq(Msgs) /\ Len(buffer) <= Cap
  /\ chain \subseteq Msgs
  /\ waits \in [Waits -> [status : {"absent", "pending", "answered", "cancelled",
                                  "timed_out", "cleared"}, user : Users \cup {Nobody}]]
  /\ model \in BOOLEAN /\ enabled \in BOOLEAN /\ streak \in Nat
  /\ resetting \in {"no", "disk", "memory", "end"}
  /\ glass \subseteq Msgs /\ unsent \subseteq Msgs /\ posted \subseteq Msgs
  /\ seen \subseteq Msgs /\ gone \subseteq Msgs
  /\ bouts \in [Msgs -> Nat] /\ jobs \subseteq Jobs
  /\ bounds \in [{"work", "crashes", "faults", "resets", "outages", "toggles"} -> Nat]

\* "open moment iff phase == in_moment": whenever another thread can take the
\* lock, a moment is open in the store exactly while the phase says so, and
\* exactly then the worker holds a claimed wake and the buffer may hold messages.
OpenIffInMoment ==
  Unlocked => /\ open <=> phase = "in_moment"
              /\ open <=> inflight # NoWake
              /\ ~open => buffer = <<>> /\ chain = {}

\* No message is forgotten: one that was routed is waiting in the buffer, in the
\* chain, in the queue or in the claimed wake, or the model has seen it, or it
\* is accounted for as refused, lost to a crash or reset, or left in a stopped
\* moment's chain.
NoMessageForgotten ==
  \A m \in Msgs \ (unsent \cup posted) :
    \/ m \in seen \cup gone \cup chain \cup Range(buffer)
    \/ inflight.kind \in Social /\ inflight.about = m
    \/ \E e \in social : e.about = m

\* A message starts or enters at most one moment: it is never both drained into a
\* running moment and queued as a wake, and never redelivered after a crash.
OneBoutPerMessage == \A m \in Msgs : bouts[m] <= 1

\* The phase never says "waiting" without cause: a wait is pending, or the wake
\* of its answer or of its timeout is queued.
WaitingHasCause ==
  Unlocked /\ phase = "waiting" =>
    \/ Pending # {}
    \/ work["wait_timeout"] > 0
    \/ \E e \in social : e.kind = "wait_reply"

\* "pending_wait for user_id and (from_wait_api or phase == waiting)": what a user
\* writes while the worker waits for that user answers a wait of that user.
ReplyAnswersWait ==
  [][\A m \in posted \ posted' :
       /\ up' /\ resetting = "no" /\ phase = "waiting"
       /\ \E w \in Pending : waits[w].user = UserOf[m]
       => \E w \in Pending : waits[w].user = UserOf[m] /\ waits'[w].status = "answered"]_vars

\* The phase never says "idle" while a wait is pending, so that the answer of
\* its user is routed as a reply and not as a new message.
IdleHasNoWait == Unlocked /\ phase = "idle" => Pending = {}

\* Continuous work never piles up: at most one continue wake is pending or
\* claimed, and the streak stays within its budget.
ContinueBounded ==
  /\ work["moment_continue"] + (IF inflight.kind = "moment_continue" THEN 1 ELSE 0) <= 1
  /\ streak <= MaxStreak

\* Continuous work that is switched off stays off, whatever moment was running
\* when it was: no continue wake is pending (a crash may redeliver a claimed one).
OffStaysOff ==
  ~enabled /\ bounds.crashes = MaxCrashes => work["moment_continue"] = 0

\* A full reset that is over has left no wake behind: nothing was enqueued after
\* the queue was emptied and before writers are let in again.
ResetEndsEmpty ==
  [][resetting = "end" /\ resetting' = "no"
       => Queued = {} /\ glass = {} /\ buffer = <<>>]_vars

\* Every message a user sends is eventually seen by the model, or accounted for.
EveryMessageHandled ==
  \A m \in Msgs : (m \notin unsent) ~> (m \in seen \cup gone)

\* Every moment ends: a worker that is busy becomes free again.
EveryMomentEnds == (phase = "in_moment") ~> (phase # "in_moment")

\* Whatever users, crashes and failures do between two steps of the worker: a
\* moment is open exactly in phase in_moment, and every message is in exactly one
\* place, on its way, served once or accounted for.
NothingForgotten == TypeOK /\ OpenIffInMoment /\ NoMessageForgotten /\ OneBoutPerMessage

\* The phase tells the truth: the worker waits only while a wait is pending, never
\* idles over one, does not feed itself continue wakes beyond the streak and not
\* at all once continuous work is off.
PhaseIsTrue ==
  TypeOK /\ WaitingHasCause /\ IdleHasNoWait /\ ContinueBounded /\ OffStaysOff

\* The worker makes progress: every message is served and every moment ends.
EverythingServed == EveryMessageHandled /\ EveryMomentEnds
=============================================================================
