--------------------------- MODULE TimerService ---------------------------
(***************************************************************************)
(* Timers and waits (elyra/presence/timers.py) over the wake queue, with   *)
(* the poll of the presence worker, the startup rehydrate and the disk and *)
(* memory phases of a full reset (runtime/reset.py, presence/worker.py).   *)
(*                                                                         *)
(* A timer or wait (an alarm) is a row of timers.json / waits.json.  When  *)
(* it is due it is marked with a new wake id and persisted, and then its   *)
(* wake is enqueued; the process may die, or a write may fail, in between. *)
(***************************************************************************)
EXTENDS Integers, Sequences, FiniteSets

CONSTANTS
  Timers,      \* timer ids, integers other than 0
  Waits,       \* wait ids, other integers
  Wakes,       \* wake ids handed to the queue
  MaxTime,     \* bound on the clock
  MaxCrashes,  \* bound on process deaths
  MaxFaults,   \* bound on failing writes
  Resets,      \* is a full reset requested?
  CrashInReset \* may the process die while the reset is clearing the disk?

Alarms == Timers \cup Waits
None   == 0

VARIABLES
  now,     \* the wall clock
  mem,     \* TimerService._timers and _waits
  disk,    \* timers.json and waits.json
  qmem,    \* wakes the queue's index knows, each with its alarm
  qdisk,   \* wakes in events.jsonl
  job,     \* stages the poll or the rehydrate has still to run
  marked,  \* alarm marked and persisted whose wake is about to be enqueued
  replying,\* wait marked answered whose wait_reply is about to be enqueued
  reset,   \* what the full reset clears next (<<>>: no reset is running)
  up,      \* is the process running?
  crashes, \* process deaths so far (bound only)
  faults,  \* failed writes so far (bound only)
  enqueued,\* history: timer or timeout wakes ever enqueued for each alarm
  clean    \* history: no write has failed since the process started

vars == <<now, mem, disk, qmem, qdisk, job, marked, replying, reset, up,
          crashes, faults, enqueued, clean>>

-----------------------------------------------------------------------------
(* Rows                                                                    *)

Status == {"absent", "scheduled", "fired", "cancelled", "pending", "answered", "timed_out"}
Row    == [status : Status, at : 0 .. MaxTime, wake : Wakes \cup {None}]
Absent == [status |-> "absent", at |-> 0, wake |-> None]

Entry  == [wake : Wakes, alarm : Alarms, kind : {"timer", "wait_timeout", "wait_reply"}]

Live(a)  == IF a \in Timers THEN "scheduled" ELSE "pending"
Fired(a) == IF a \in Timers THEN "fired" ELSE "timed_out"

\* schedule_due / check_timeouts: the live rows that are due, by (time, id).
Due(S) == {a \in S : mem[a].status = Live(a) /\ mem[a].at <= now}

NoOrphans(S) == {}   \* mutant: a restart does not reconcile

\* _reconcile_orphaned_*: marked rows whose wake never reached the queue.
Orphans(S) ==
  {a \in S : /\ mem[a].status = Fired(a)
             /\ mem[a].wake # None
             /\ ~\E e \in qmem : e.wake = mem[a].wake}

First(S) ==
  {a \in S : \A b \in S : mem[a].at < mem[b].at \/ (mem[a].at = mem[b].at /\ a <= b)}

\* str(uuid.uuid4()): an id nothing else carries.
NewWake(w) ==
  /\ \A a \in Alarms : mem[a].wake # w /\ disk[a].wake # w
  /\ \A e \in qmem \cup qdisk : e.wake # w

\* The worker lock is free and no poll, reply or startup is under way.
Unlocked == up /\ job = <<>> /\ replying = None

\* A file write that raises leaves the old file in place.
WriteFails ==
  /\ faults < MaxFaults
  /\ faults' = faults + 1
  /\ clean' = FALSE

\* _persist_timers / _persist_waits: the whole file is replaced by the map.
Kin(a)     == IF a \in Timers THEN Timers ELSE Waits
Persist(S) == disk' = [b \in Alarms |-> IF b \in S THEN mem'[b] ELSE disk[b]]

-----------------------------------------------------------------------------
(* Arming, answering, cancelling                                           *)

\* schedule_timer, arm_wait -> _install_* of a new id: nothing carries it.
Install(a, at) ==
  /\ Unlocked /\ reset = <<>>
  /\ mem[a] = Absent /\ disk[a] = Absent /\ enqueued[a] = 0
  /\ \A e \in qmem \cup qdisk : e.alarm # a
  /\ mem' = [mem EXCEPT ![a] = [status |-> Live(a), at |-> at, wake |-> None]]
  /\ Persist(Kin(a))
  /\ UNCHANGED <<now, qmem, qdisk, job, marked, replying, reset, up, crashes, faults,
                 enqueued, clean>>

\* A failed persist of an install, a cancel or an answer is rolled back.
WriteRejected ==
  /\ Unlocked /\ reset = <<>>
  /\ WriteFails
  /\ UNCHANGED <<now, mem, disk, qmem, qdisk, job, marked, replying, reset, up,
                 crashes, enqueued>>

\* A change of one live row that is persisted at once.
Close(a, status) ==
  /\ mem[a].status = Live(a)
  /\ mem' = [mem EXCEPT ![a].status = status]
  /\ Persist(Kin(a))

\* cancel_timer, cancel_wait.
CancelAlarm(a) ==
  /\ Unlocked /\ reset = <<>>
  /\ Close(a, "cancelled")
  /\ UNCHANGED <<now, qmem, qdisk, job, marked, replying, reset, up, crashes, faults,
                 enqueued, clean>>

\* A user's answer: mark_wait_answered, then the wait_reply wake is enqueued,
\* both under the worker lock (_apply_wait_reply_unlocked).
Answer(w) ==
  /\ Unlocked /\ reset = <<>>
  /\ Close(w, "answered")
  /\ replying' = w
  /\ UNCHANGED <<now, qmem, qdisk, job, marked, reset, up, crashes, faults,
                 enqueued, clean>>

Reply(wake) ==
  /\ up /\ replying # None
  /\ NewWake(wake)
  /\ qmem' = qmem \cup {[wake |-> wake, alarm |-> replying, kind |-> "wait_reply"]}
  /\ qdisk' = qdisk \cup {[wake |-> wake, alarm |-> replying, kind |-> "wait_reply"]}
  /\ replying' = None
  /\ UNCHANGED <<now, mem, disk, job, marked, reset, up, crashes, faults,
                 enqueued, clean>>

\* The enqueue raises: the caller is told, the wait stays answered.
ReplyFails ==
  /\ up /\ replying # None
  /\ WriteFails
  /\ replying' = None
  /\ UNCHANGED <<now, mem, disk, qmem, qdisk, job, marked, reset, up, crashes, enqueued>>

-----------------------------------------------------------------------------
(* The poll and the rehydrate                                              *)

PollJob      == <<"due_timers", "due_waits">>
RehydrateJob == <<"orphan_waits", "orphan_timers", "due_waits", "due_timers">>
RehydrateTimers == <<"orphan_timers", "due_waits", "due_timers">>
RehydrateDue    == <<"due_waits", "due_timers">>

Stage(S) == IF S = Timers THEN "due_timers" ELSE "due_waits"
Recon(S) == IF S = Timers THEN "orphan_timers" ELSE "orphan_waits"

\* _fire_due_unlocked: the worker polls, also while a reset runs.  (An idle
\* poll with nothing due changes nothing.)
Poll ==
  /\ Unlocked
  /\ Due(Alarms) # {}
  /\ job' = PollJob
  /\ UNCHANGED <<now, mem, disk, qmem, qdisk, marked, replying, reset, up, crashes,
                 faults, enqueued, clean>>

MarkUnpersisted(S, w) ==   \* mutant: the row is marked in memory only
  /\ up /\ job # <<>> /\ Head(job) = Stage(S) /\ marked = None
  /\ NewWake(w)
  /\ \E a \in First(Due(S)) :
       /\ mem' = [mem EXCEPT ![a].status = Fired(a), ![a].wake = w]
       /\ marked' = a
  /\ UNCHANGED <<now, disk, qmem, qdisk, job, replying, reset, up, crashes, faults,
                 enqueued, clean>>

\* Mark the first due row with a new wake id and persist it ...
Mark(S, w) ==
  /\ up /\ job # <<>> /\ Head(job) = Stage(S) /\ marked = None
  /\ NewWake(w)
  /\ \E a \in First(Due(S)) :
       /\ mem' = [mem EXCEPT ![a].status = Fired(a), ![a].wake = w]
       /\ Persist(S)
       /\ marked' = a
  /\ UNCHANGED <<now, qmem, qdisk, job, replying, reset, up, crashes, faults,
                 enqueued, clean>>

\* ... then enqueue its wake ...
EnqueueWake(a) ==
  LET e == [wake |-> mem[a].wake, alarm |-> a,
            kind |-> IF a \in Timers THEN "timer" ELSE "wait_timeout"]
  IN /\ qmem' = qmem \cup {e}
     /\ qdisk' = qdisk \cup {e}
     /\ enqueued' = [enqueued EXCEPT ![a] = @ + 1]

EnqueueMarked ==
  /\ up /\ marked # None
  /\ EnqueueWake(marked)
  /\ marked' = None
  /\ UNCHANGED <<now, mem, disk, job, replying, reset, up, crashes, faults, clean>>

\* ... unless the persist raises (rolled back) or the enqueue raises: either
\* way _fire_due_unlocked swallows the exception and the poll is over.
PollFails ==
  /\ up /\ job \in {PollJob, Tail(PollJob)}
  /\ WriteFails
  /\ marked # None \/ Due(IF job = PollJob THEN Timers ELSE Waits) # {}
  /\ job' = <<>>
  /\ marked' = None
  /\ UNCHANGED <<now, mem, disk, qmem, qdisk, replying, reset, up, crashes, enqueued>>

\* Rehydrate: the first row whose wake never landed is enqueued under its id.
Reconcile(S) ==
  /\ up /\ job # <<>> /\ Head(job) = Recon(S)
  /\ \E a \in First(Orphans(S)) : EnqueueWake(a)
  /\ UNCHANGED <<now, mem, disk, job, marked, replying, reset, up, crashes,
                 faults, clean>>

\* The stage has nothing more to do.
EndStage(S) ==
  /\ up /\ job # <<>> /\ marked = None
  /\ \/ Head(job) = Stage(S) /\ Due(S) = {}
     \/ Head(job) = Recon(S) /\ Orphans(S) = {}
  /\ job' = Tail(job)
  /\ UNCHANGED <<now, mem, disk, qmem, qdisk, marked, replying, reset, up, crashes,
                 faults, enqueued, clean>>

-----------------------------------------------------------------------------
(* Full reset                                                              *)

\* Phase 1 empties the files one by one without the worker lock, in this order
\* (clear_wakes_disk); phase 2 wipes maps, files and queue under the lock.
ResetSteps == <<"events", "timers", "waits", "memory">>

StartReset ==
  /\ Resets /\ Unlocked /\ reset = <<>>
  /\ reset' = ResetSteps
  /\ UNCHANGED <<now, mem, disk, qmem, qdisk, job, marked, replying, up, crashes,
                 faults, enqueued, clean>>

Emptied(S) == [a \in Alarms |-> IF a \in S THEN Absent ELSE disk[a]]

ResetStep ==
  /\ up /\ reset # <<>>
  /\ reset' = Tail(reset)
  /\ \/ /\ Head(reset) = "events"
        /\ qdisk' = {}
        /\ UNCHANGED <<mem, disk, qmem>>
     \/ /\ Head(reset) \in {"timers", "waits"}
        /\ disk' = Emptied(IF Head(reset) = "timers" THEN Timers ELSE Waits)
        /\ UNCHANGED <<mem, qmem, qdisk>>
     \/ /\ Head(reset) = "memory"
        /\ Unlocked
        /\ mem' = [a \in Alarms |-> Absent]
        /\ disk' = [a \in Alarms |-> Absent]
        /\ qmem' = {} /\ qdisk' = {}
  /\ UNCHANGED <<now, job, marked, replying, up, crashes, faults, enqueued, clean>>

\* A step that raises is recorded and the reset goes on with the next one:
\* after clear_wakes_disk that is the memory phase, and a clear_all that cannot
\* persist leaves the queue as it is.
ResetStepFails ==
  /\ up /\ reset # <<>>
  /\ WriteFails
  /\ IF Head(reset) = "memory"
       THEN /\ Unlocked
            /\ mem' = [a \in Alarms |-> Absent]
            /\ reset' = <<>>
       ELSE /\ reset' = <<"memory">>
            /\ UNCHANGED mem
  /\ UNCHANGED <<now, disk, qmem, qdisk, job, marked, replying, up, crashes, enqueued>>

-----------------------------------------------------------------------------
(* Clock, process death, restart                                           *)

\* The clock is read once per poll.
Tick ==
  /\ now < MaxTime /\ job = <<>>
  /\ now' = now + 1
  /\ UNCHANGED <<mem, disk, qmem, qdisk, job, marked, replying, reset, up, crashes,
                 faults, enqueued, clean>>

Crash ==
  /\ up /\ crashes < MaxCrashes
  /\ CrashInReset \/ reset = <<>>
  /\ up' = FALSE
  /\ crashes' = crashes + 1
  /\ mem' = [a \in Alarms |-> Absent]
  /\ qmem' = {}
  /\ job' = <<>> /\ marked' = None /\ replying' = None /\ reset' = <<>>
  /\ UNCHANGED <<now, disk, qdisk, faults, enqueued, clean>>

\* A new process loads the queue and the snapshots and rehydrates.
Restart ==
  /\ ~up
  /\ up' = TRUE
  /\ mem' = disk
  /\ qmem' = qdisk
  /\ job' = RehydrateJob
  /\ clean' = TRUE
  /\ UNCHANGED <<now, disk, qdisk, marked, replying, reset, crashes, faults, enqueued>>

Init ==
  /\ now = 0
  /\ mem = [a \in Alarms |-> Absent] /\ disk = mem
  /\ qmem = {} /\ qdisk = {}
  /\ job = <<>> /\ marked = None /\ replying = None /\ reset = <<>>
  /\ up = TRUE /\ crashes = 0 /\ faults = 0 /\ clean = TRUE
  /\ enqueued = [a \in Alarms |-> 0]

Next ==
  \/ \E a \in Alarms, at \in 0 .. MaxTime : Install(a, at)
  \/ \E a \in Alarms : CancelAlarm(a)
  \/ \E w \in Waits : Answer(w)
  \/ \E w \in Wakes : Reply(w)
  \/ ReplyFails \/ ResetStepFails
  \/ \E S \in {Timers, Waits} : (\E w \in Wakes : Mark(S, w)) \/ Reconcile(S) \/ EndStage(S)
  \/ WriteRejected \/ Poll \/ EnqueueMarked \/ PollFails
  \/ StartReset \/ ResetStep \/ Tick \/ Crash \/ Restart

\* The worker keeps polling and a dead process is restarted.
Fairness ==
  /\ WF_vars(Poll) /\ WF_vars(EnqueueMarked) /\ WF_vars(Restart) /\ WF_vars(ResetStep)
  /\ \A S \in {Timers, Waits} :
       /\ WF_vars(\E w \in Wakes : Mark(S, w))
       /\ WF_vars(Reconcile(S))
       /\ WF_vars(EndStage(S))
  /\ WF_vars(\E w \in Wakes : Reply(w))

Spec == Init /\ [][Next]_vars /\ Fairness

-----------------------------------------------------------------------------
(* Properties                                                              *)

\* Every variable keeps its type.
TypeOK ==
  /\ now \in 0 .. MaxTime
  /\ mem \in [Alarms -> Row] /\ disk \in [Alarms -> Row]
  /\ qmem \subseteq Entry /\ qdisk \subseteq Entry
  /\ job \in {<<>>, PollJob, <<"due_waits">>, RehydrateJob, RehydrateTimers, RehydrateDue,
             <<"due_timers">>}
  /\ marked \in Alarms \cup {None} /\ replying \in Waits \cup {None}
  /\ reset \in {<<>>, ResetSteps, <<"timers", "waits", "memory">>, <<"waits", "memory">>,
               <<"memory">>}
  /\ up \in BOOLEAN /\ clean \in BOOLEAN
  /\ crashes \in 0 .. MaxCrashes /\ faults \in 0 .. MaxFaults
  /\ enqueued \in [Alarms -> Nat]

\* "a crash cannot double-fire on restart": whatever the interleaving of polls,
\* crashes and restarts, an alarm's timer or wait_timeout wake is enqueued at
\* most once in the life of the alarm, as long as no write has failed.
AtMostOneWake == faults = 0 => \A a \in Alarms : enqueued[a] <= 1

\* A wait has one outcome: it never leaves both a wait_reply and a wait_timeout
\* wake behind, and a cancelled or answered wait never times out.
OneOutcomePerWait ==
  /\ \A e, f \in qdisk : e.alarm = f.alarm => e = f
  /\ \A e \in qdisk : e.kind \in {"timer", "wait_timeout"}
                      => disk[e.alarm].status \notin {"cancelled", "answered", Live(e.alarm)}

\* Between operations and outside a reset, what a restart would load is what the
\* process has in memory, unless a write of this process has failed.
SnapshotsAgree ==
  Unlocked /\ reset = <<>> /\ clean => mem = disk /\ qmem = qdisk

\* Between operations and outside a reset, every row marked fired or timed out has
\* its wake in the queue, unless a write of this process has failed: what an
\* enqueue that raised left behind is made good by the next start.
FiredHasWake ==
  Unlocked /\ reset = <<>> /\ clean =>
    \A a \in Alarms : mem[a].status = Fired(a) => \E e \in qmem : e.wake = mem[a].wake

\* A due alarm eventually gets its wake (or is closed by a cancel, an answer or
\* a reset), although the process may die between the mark and the enqueue.  A
\* write that fails may leave it to the next start of the process, no longer.
DueEventuallyFires ==
  \A a \in Alarms :
    (disk[a].status \in {Live(a), Fired(a)} /\ disk[a].at <= now)
      ~> (enqueued[a] > 0 \/ ~clean \/ disk[a].status \notin {Live(a), Fired(a)})

\* Alarms across deaths, failing writes, answers and resets: an alarm fires at most
\* once, a wait has one outcome, memory and files agree, and what is marked as
\* fired has its wake.
AlarmsSound ==
  TypeOK /\ AtMostOneWake /\ OneOutcomePerWait /\ SnapshotsAgree /\ FiredHasWake
=============================================================================
