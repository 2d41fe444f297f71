------------------------- MODULE TimerServiceProofs -------------------------
(***************************************************************************)
(* Timers and waits keep their promises for any timers, waits, wake ids,   *)
(* clock, number of process deaths and number of failing writes, if the    *)
(* process does not die while a reset is clearing the disk.                *)
(***************************************************************************)
EXTENDS TimerService, TLAPS

\* The ids are different, and the disk phase of a reset runs to its end.
ConstantsOK ==
  /\ Timers \cap Waits = {}
  /\ None \notin Timers \cup Waits \cup Wakes
  /\ MaxTime \in Nat /\ MaxCrashes \in Nat /\ MaxFaults \in Nat
  /\ CrashInReset = FALSE

Entries == qmem \cup qdisk
Known(Q, a) == \E e \in Q : e.alarm = a

Rehydrating == job \in {RehydrateJob, RehydrateTimers, RehydrateDue, <<"due_timers">>}

\* What a poll, a reply or a rehydrate under way implies.
LockInv ==
  /\ ~up => job = <<>> /\ marked = None /\ replying = None /\ reset = <<>>
  /\ marked # None =>
       /\ job \notin {<<>>, RehydrateJob, RehydrateTimers}
       /\ mem[marked].status = Fired(marked)
       /\ disk[marked] \in {mem[marked], Absent}
       /\ ~Known(Entries, marked)
  /\ replying # None =>
       /\ job = <<>>
       /\ mem[replying].status = "answered"
       /\ disk[replying] \in {mem[replying], Absent}
       /\ ~Known(Entries, replying)
  /\ Rehydrating => clean /\ reset = <<>>

\* What has fired carries a wake id.
RowInv ==
  \A a \in Alarms : \A r \in {mem[a], disk[a]} : r.status = Fired(a) => r.wake # None

\* The row of an alarm whose wake is in the queue was closed the way the wake says,
\* or has been cleared.
Shape(e, r) ==
  \/ r = Absent
  \/ e.kind = "wait_reply" /\ r.status = "answered"
  \/ e.kind # "wait_reply" /\ r.status = Fired(e.alarm) /\ r.wake = e.wake

EntryInv ==
  /\ \A e, f \in Entries : e.alarm = f.alarm => e = f
  /\ \A e \in Entries : Shape(e, mem[e.alarm]) /\ Shape(e, disk[e.alarm])

\* Without a failed write, a restart would load what the process has in memory.
SnapInv == up /\ clean /\ reset = <<>> => mem = disk /\ qmem = qdisk

\* Without a failed write, what is marked as fired has its wake, or is about to get
\* it from the poll or the rehydrate.
FiredInv ==
  up /\ clean => \A a \in Alarms : mem[a].status = Fired(a) =>
    \/ \E e \in qmem : e.wake = mem[a].wake
    \/ a = marked
    \/ job = RehydrateJob
    \/ job = RehydrateTimers /\ a \in Timers

\* An alarm whose wake was enqueued is known to the queue, in memory and on the
\* disk, or has been cleared there: it is not enqueued again.
OnceInv ==
  faults = 0 =>
    /\ clean
    /\ \A a \in Alarms : enqueued[a] # 0 =>
         /\ enqueued[a] = 1
         /\ up => mem[a] = Absent \/ Known(qmem, a)
         /\ reset = <<>> => disk[a] = Absent \/ Known(qdisk, a)

Inv == TypeOK /\ LockInv /\ RowInv /\ EntryInv /\ SnapInv /\ FiredInv /\ OnceInv

-----------------------------------------------------------------------------
(* The parts of the model                                                  *)

\* The stages of a poll and of a rehydrate, in order.
LEMMA Jobs ==
  /\ PollJob # <<>> /\ Head(PollJob) = "due_timers" /\ Tail(PollJob) = <<"due_waits">>
  /\ <<"due_waits">> # <<>> /\ Head(<<"due_waits">>) = "due_waits" /\ Tail(<<"due_waits">>) = <<>>
  /\ RehydrateJob # <<>> /\ Head(RehydrateJob) = "orphan_waits"
  /\ Tail(RehydrateJob) = RehydrateTimers
  /\ RehydrateTimers # <<>> /\ Head(RehydrateTimers) = "orphan_timers"
  /\ Tail(RehydrateTimers) = RehydrateDue
  /\ RehydrateDue # <<>> /\ Head(RehydrateDue) = "due_waits"
  /\ Tail(RehydrateDue) = <<"due_timers">>
  /\ <<"due_timers">> # <<>> /\ Head(<<"due_timers">>) = "due_timers"
  /\ Tail(<<"due_timers">>) = <<>>
<1>1. PollJob # <<>> /\ Head(PollJob) = "due_timers" /\ Tail(PollJob) = <<"due_waits">>
  BY DEF PollJob
<1>2. /\ <<"due_waits">> # <<>> /\ Head(<<"due_waits">>) = "due_waits"
      /\ Tail(<<"due_waits">>) = <<>>
  OBVIOUS
<1>3. /\ RehydrateJob # <<>> /\ Head(RehydrateJob) = "orphan_waits"
      /\ Tail(RehydrateJob) = RehydrateTimers
  BY DEF RehydrateJob, RehydrateTimers
<1>4. /\ RehydrateTimers # <<>> /\ Head(RehydrateTimers) = "orphan_timers"
      /\ Tail(RehydrateTimers) = RehydrateDue
  BY DEF RehydrateDue, RehydrateTimers
<1>5. /\ RehydrateDue # <<>> /\ Head(RehydrateDue) = "due_waits"
      /\ Tail(RehydrateDue) = <<"due_timers">>
  BY DEF RehydrateDue
<1>6. /\ <<"due_timers">> # <<>> /\ Head(<<"due_timers">>) = "due_timers"
      /\ Tail(<<"due_timers">>) = <<>>
  OBVIOUS
<1> QED
  BY <1>1, <1>2, <1>3, <1>4, <1>5, <1>6

\* A poll is not a rehydrate.
LEMMA JobsDiffer ==
  /\ PollJob \notin {RehydrateJob, RehydrateTimers, RehydrateDue, <<"due_timers">>}
  /\ <<"due_waits">> \notin {RehydrateJob, RehydrateTimers, RehydrateDue, <<"due_timers">>}
  /\ <<>> \notin {RehydrateJob, RehydrateTimers, RehydrateDue, <<"due_timers">>}
  /\ RehydrateJob # RehydrateTimers /\ RehydrateJob # RehydrateDue
  /\ RehydrateJob # <<"due_timers">>
  /\ RehydrateTimers # RehydrateDue /\ RehydrateTimers # <<"due_timers">>
  BY DEF PollJob, RehydrateJob, RehydrateTimers, RehydrateDue

\* The steps of a reset, in order.
LEMMA Resetting ==
  /\ ResetSteps # <<>> /\ Head(ResetSteps) = "events"
  /\ Tail(ResetSteps) = <<"timers", "waits", "memory">>
  /\ <<"timers", "waits", "memory">> # <<>>
  /\ Head(<<"timers", "waits", "memory">>) = "timers"
  /\ Tail(<<"timers", "waits", "memory">>) = <<"waits", "memory">>
  /\ <<"waits", "memory">> # <<>> /\ Head(<<"waits", "memory">>) = "waits"
  /\ Tail(<<"waits", "memory">>) = <<"memory">>
  /\ <<"memory">> # <<>> /\ Head(<<"memory">>) = "memory" /\ Tail(<<"memory">>) = <<>>
<1>1. /\ ResetSteps # <<>> /\ Head(ResetSteps) = "events"
      /\ Tail(ResetSteps) = <<"timers", "waits", "memory">>
  BY DEF ResetSteps
<1>2. /\ <<"timers", "waits", "memory">> # <<>>
      /\ Head(<<"timers", "waits", "memory">>) = "timers"
      /\ Tail(<<"timers", "waits", "memory">>) = <<"waits", "memory">>
  OBVIOUS
<1>3. /\ <<"waits", "memory">> # <<>> /\ Head(<<"waits", "memory">>) = "waits"
      /\ Tail(<<"waits", "memory">>) = <<"memory">>
  OBVIOUS
<1>4. <<"memory">> # <<>> /\ Head(<<"memory">>) = "memory" /\ Tail(<<"memory">>) = <<>>
  OBVIOUS
<1> QED
  BY <1>1, <1>2, <1>3, <1>4

\* A row is open, closed one way, or absent.
LEMMA Statuses ==
  /\ \A a : /\ Live(a) # Fired(a) /\ Live(a) # "answered" /\ Live(a) # "cancelled"
            /\ Live(a) # "absent" /\ Fired(a) # "absent" /\ Fired(a) # "answered"
            /\ Fired(a) # "cancelled" /\ Live(a) \in Status /\ Fired(a) \in Status
  /\ Absent.status = "absent" /\ Absent.wake = None
  /\ "answered" \in Status /\ "cancelled" \in Status
  BY DEF Live, Fired, Absent, Status, None

LEMMA AbsentRow == ConstantsOK => Absent \in Row
  BY DEF Absent, Row, Status, ConstantsOK, None

\* Three ways for rows and queue to change: an alarm whose wake is not in the queue
\* may be changed, any row may be cleared or written to the disk, and wakes may be
\* forgotten.
LEMMA RowsChange ==
  ASSUME EntryInv, Entries' \subseteq Entries,
         \A e \in Entries' : /\ mem'[e.alarm] \in {mem[e.alarm], disk[e.alarm], Absent}
                             /\ disk'[e.alarm] \in {mem[e.alarm], disk[e.alarm], Absent}
  PROVE  EntryInv'
  BY DEF EntryInv, Shape

\* The wake of an alarm that has none is added.
LEMMA OneEntryMore ==
  ASSUME EntryInv, UNCHANGED <<mem, disk>>, NEW e, ~Known(Entries, e.alarm),
         qmem' = qmem \cup {e}, qdisk' = qdisk \cup {e},
         Shape(e, mem[e.alarm]), Shape(e, disk[e.alarm])
  PROVE  EntryInv'
  BY DEF EntryInv, Shape, Known, Entries

\* A live alarm has no wake.
LEMMA LiveUnknown ==
  ASSUME EntryInv, NEW a, mem[a].status = Live(a)
  PROVE  ~Known(Entries, a)
  BY Statuses DEF EntryInv, Shape, Known

-----------------------------------------------------------------------------
(* Every step keeps the invariant                                          *)

\* A step that leaves rows, queue and history alone.
LEMMA QuietStep ==
  ASSUME Inv, UNCHANGED <<mem, disk, qmem, qdisk, enqueued>>,
         faults' = 0 => faults = 0 /\ clean' = clean /\ (reset' = <<>> => reset = <<>>),
         up' = up, clean' => clean, clean' => (reset' = <<>> => reset = <<>>)
  PROVE  RowInv' /\ EntryInv' /\ SnapInv' /\ OnceInv'
<1>1. RowInv' /\ EntryInv'
  BY DEF Inv, RowInv, EntryInv, Entries
<1>2. SnapInv' /\ OnceInv'
  BY DEF Inv, SnapInv, OnceInv
<1> QED
  BY <1>1, <1>2

LEMMA InstallStep ==
  ASSUME ConstantsOK, Inv, NEW a \in Alarms, NEW at \in 0 .. MaxTime, Install(a, at)
  PROVE  Inv'
<1>0. /\ TypeOK /\ LockInv /\ RowInv /\ EntryInv /\ SnapInv /\ FiredInv /\ OnceInv
      /\ up /\ job = <<>> /\ replying = None /\ reset = <<>>
      /\ mem[a] = Absent /\ disk[a] = Absent /\ enqueued[a] = 0
      /\ \A e \in Entries : e.alarm # a
      /\ UNCHANGED <<now, qmem, qdisk, job, marked, replying, reset, up, crashes, faults,
                     enqueued, clean>>
  BY DEF Inv, Install, Unlocked, Entries
<1> DEFINE row == [status |-> Live(a), at |-> at, wake |-> None]
<1>1. row \in Row /\ row.status = Live(a) /\ row.wake = None
  BY Statuses DEF Row
<1>2. mem' = [mem EXCEPT ![a] = row] /\ disk' = [b \in Alarms |-> IF b \in Kin(a) THEN mem'[b] ELSE disk[b]]
  BY DEF Install, Persist
<1> HIDE DEF row
<1>3. /\ \A b \in Alarms : mem'[b] = IF b = a THEN row ELSE mem[b]
      /\ \A b \in Alarms : disk'[b] \in {mem'[b], disk[b]}
      /\ disk'[a] = row
  <2>1. mem \in [Alarms -> Row]
    BY <1>0 DEF TypeOK
  <2>2. a \in Kin(a)
    BY DEF Kin, Alarms
  <2> QED
    BY <1>2, <2>1, <2>2
<1>4. TypeOK'
  <2>1. mem' \in [Alarms -> Row] /\ disk' \in [Alarms -> Row]
    BY <1>0, <1>1, <1>2 DEF TypeOK
  <2> QED
    BY <1>0, <2>1 DEF TypeOK
<1>5. LockInv'
  <2>1. marked = None
    BY <1>0 DEF LockInv
  <2> QED
    BY <1>0, <2>1, JobsDiffer DEF LockInv, Rehydrating
<1>6. RowInv'
  BY <1>0, <1>1, <1>3, Statuses DEF RowInv
<1>7. EntryInv'
  <2>1. \A e \in Entries' : e \in Entries /\ e.alarm # a /\ e.alarm \in Alarms
    BY <1>0 DEF Entries, TypeOK, Entry
  <2> QED
    BY <1>0, <1>3, <2>1, RowsChange
<1>8. SnapInv'
  <2> SUFFICES ASSUME clean PROVE mem' = disk'
    BY <1>0 DEF SnapInv
  <2>1. mem = disk
    BY <1>0 DEF SnapInv
  <2>2. \A b \in Alarms : mem'[b] = disk'[b]
    BY <1>3, <2>1
  <2>3. /\ mem' = [b \in Alarms |-> mem'[b]]
        /\ disk' = [b \in Alarms |-> disk'[b]]
    BY <1>4 DEF TypeOK
  <2> QED
    BY <2>2, <2>3
<1>9. FiredInv'
  BY <1>0, <1>1, <1>3, Statuses DEF FiredInv
<1>10. OnceInv'
  <2> SUFFICES ASSUME faults = 0, NEW b \in Alarms, enqueued[b] # 0
               PROVE  /\ clean /\ enqueued[b] = 1
                      /\ mem'[b] = Absent \/ Known(qmem, b)
                      /\ disk'[b] = Absent \/ Known(qdisk, b)
    BY <1>0 DEF OnceInv, Known
  <2>1. clean /\ mem = disk /\ qmem = qdisk
    BY <1>0 DEF OnceInv, SnapInv
  <2>2. b # a /\ mem'[b] = mem[b] /\ disk'[b] = mem[b]
    BY <1>0, <1>3, <2>1
  <2> QED
    BY <1>0, <2>1, <2>2 DEF OnceInv
<1> QED
  BY <1>4, <1>5, <1>6, <1>7, <1>8, <1>9, <1>10 DEF Inv

\* A live row is closed and persisted; what the queue knows stays.
LEMMA CloseStep ==
  ASSUME ConstantsOK, Inv, Unlocked, reset = <<>>, NEW a \in Alarms,
         NEW status \in {"cancelled", "answered"}, Close(a, status),
         UNCHANGED <<now, qmem, qdisk, job, marked, reset, up, crashes, faults, enqueued, clean>>
  PROVE  /\ mem' \in [Alarms -> Row] /\ disk' \in [Alarms -> Row]
         /\ mem'[a].status = status /\ disk'[a] = mem'[a]
         /\ ~Known(Entries', a)
         /\ marked = None
         /\ RowInv' /\ EntryInv' /\ SnapInv' /\ FiredInv' /\ OnceInv'
<1>0. /\ TypeOK /\ LockInv /\ RowInv /\ EntryInv /\ SnapInv /\ FiredInv /\ OnceInv
      /\ up /\ job = <<>> /\ mem[a].status = Live(a)
  BY DEF Inv, Unlocked, Close
<1> DEFINE row == [mem[a] EXCEPT !.status = status]
<1>1. row \in Row /\ row.status = status /\ row.wake = mem[a].wake
  <2>1. mem[a] \in Row
    BY <1>0 DEF TypeOK
  <2> QED
    BY <2>1, Statuses DEF Row
<1>2. /\ mem' = [mem EXCEPT ![a] = row]
      /\ disk' = [b \in Alarms |-> IF b \in Kin(a) THEN mem'[b] ELSE disk[b]]
  BY DEF Close, Persist
<1> HIDE DEF row
<1>3. /\ \A b \in Alarms : mem'[b] = IF b = a THEN row ELSE mem[b]
      /\ \A b \in Alarms : disk'[b] \in {mem'[b], disk[b]}
      /\ disk'[a] = row
  <2>1. mem \in [Alarms -> Row]
    BY <1>0 DEF TypeOK
  <2>2. a \in Kin(a)
    BY DEF Kin, Alarms
  <2> QED
    BY <1>2, <2>1, <2>2
<1>4. mem' \in [Alarms -> Row] /\ disk' \in [Alarms -> Row]
  BY <1>0, <1>1, <1>2 DEF TypeOK
<1>5. ~Known(Entries, a)
  BY <1>0, LiveUnknown
<1>6. Entries' = Entries
  BY DEF Entries
<1>7. RowInv'
  BY <1>0, <1>1, <1>3, Statuses DEF RowInv
<1>8. EntryInv'
  <2>1. \A e \in Entries' : e \in Entries /\ e.alarm # a /\ e.alarm \in Alarms
    BY <1>0, <1>5, <1>6 DEF Entries, TypeOK, Entry, Known
  <2> QED
    BY <1>0, <1>3, <2>1, RowsChange
<1>9. SnapInv'
  <2> SUFFICES ASSUME clean PROVE mem' = disk'
    BY <1>0 DEF SnapInv
  <2>1. mem = disk
    BY <1>0 DEF SnapInv
  <2>2. \A b \in Alarms : mem'[b] = disk'[b]
    BY <1>3, <2>1
  <2>3. mem' = [b \in Alarms |-> mem'[b]] /\ disk' = [b \in Alarms |-> disk'[b]]
    BY <1>4
  <2> QED
    BY <2>2, <2>3
<1>10. FiredInv'
  BY <1>0, <1>1, <1>3, Statuses DEF FiredInv
<1>11. OnceInv'
  <2> SUFFICES ASSUME faults = 0, NEW b \in Alarms, enqueued[b] # 0
               PROVE  /\ clean /\ enqueued[b] = 1
                      /\ mem'[b] = Absent \/ Known(qmem, b)
                      /\ disk'[b] = Absent \/ Known(qdisk, b)
    BY <1>0 DEF OnceInv, Known
  <2>1. clean /\ mem = disk /\ qmem = qdisk /\ enqueued[b] = 1
    BY <1>0 DEF OnceInv, SnapInv
  <2>2. mem[b] = Absent \/ Known(qmem, b)
    BY <1>0 DEF OnceInv
  <2>3. mem[a] # Absent
    BY <1>0, Statuses
  <2>4. b # a
    BY <1>5, <2>2, <2>3 DEF Entries, Known
  <2> QED
    BY <1>3, <2>1, <2>2, <2>4
<1>12. marked = None
  BY <1>0 DEF LockInv
<1> QED
  BY <1>1, <1>3, <1>4, <1>5, <1>6, <1>7, <1>8, <1>9, <1>10, <1>11, <1>12

LEMMA CancelStep ==
  ASSUME ConstantsOK, Inv, NEW a \in Alarms, CancelAlarm(a)
  PROVE  Inv'
<1>0. /\ Unlocked /\ reset = <<>> /\ Close(a, "cancelled") /\ replying = None
      /\ UNCHANGED <<now, qmem, qdisk, job, marked, replying, reset, up, crashes, faults,
                     enqueued, clean>>
  BY DEF CancelAlarm, Unlocked
<1>1. /\ mem' \in [Alarms -> Row] /\ disk' \in [Alarms -> Row] /\ marked = None
      /\ RowInv' /\ EntryInv' /\ SnapInv' /\ FiredInv' /\ OnceInv'
  BY <1>0, CloseStep
<1>2. TypeOK'
  BY <1>0, <1>1 DEF Inv, TypeOK
<1>3. LockInv'
  BY <1>0, <1>1 DEF Inv, LockInv, Rehydrating
<1> QED
  BY <1>1, <1>2, <1>3 DEF Inv

LEMMA AnswerStep ==
  ASSUME ConstantsOK, Inv, NEW w \in Waits, Answer(w)
  PROVE  Inv'
<1>0. /\ Unlocked /\ reset = <<>> /\ Close(w, "answered") /\ w \in Alarms
      /\ replying' = w /\ job = <<>> /\ up
      /\ UNCHANGED <<now, qmem, qdisk, job, marked, reset, up, crashes, faults, enqueued, clean>>
  BY DEF Answer, Unlocked, Alarms
<1>1. /\ mem' \in [Alarms -> Row] /\ disk' \in [Alarms -> Row] /\ marked = None
      /\ mem'[w].status = "answered" /\ disk'[w] = mem'[w] /\ ~Known(Entries', w)
      /\ RowInv' /\ EntryInv' /\ SnapInv' /\ FiredInv' /\ OnceInv'
  BY <1>0, CloseStep
<1>2. TypeOK'
  BY <1>0, <1>1 DEF Inv, TypeOK
<1>3. LockInv'
  BY <1>0, <1>1, JobsDiffer DEF Inv, LockInv, Rehydrating
<1> QED
  BY <1>1, <1>2, <1>3 DEF Inv

\* The wake of an answer, which is the wait's only one.
LEMMA ReplyStep ==
  ASSUME ConstantsOK, Inv, NEW w \in Wakes, Reply(w)
  PROVE  Inv'
<1> DEFINE e == [wake |-> w, alarm |-> replying, kind |-> "wait_reply"]
<1>0. /\ TypeOK /\ LockInv /\ RowInv /\ EntryInv /\ SnapInv /\ FiredInv /\ OnceInv
      /\ up /\ replying # None /\ replying' = None
      /\ UNCHANGED <<now, mem, disk, job, marked, reset, up, crashes, faults, enqueued, clean>>
      /\ replying \in Waits
  BY DEF Inv, Reply, TypeOK
<1>1. e \in Entry /\ e.alarm = replying /\ e.kind = "wait_reply"
  BY <1>0 DEF Entry, Alarms
<1>2. qmem' = qmem \cup {e} /\ qdisk' = qdisk \cup {e}
  BY DEF Reply
<1> HIDE DEF e
<1>3. /\ mem[replying].status = "answered" /\ disk[replying] \in {mem[replying], Absent}
      /\ ~Known(Entries, replying) /\ job = <<>> /\ marked = None
  BY <1>0 DEF LockInv
<1>4. TypeOK'
  BY <1>0, <1>1, <1>2 DEF TypeOK
<1>5. LockInv'
  BY <1>0, <1>3, JobsDiffer DEF LockInv, Rehydrating
<1>6. RowInv'
  BY <1>0 DEF RowInv
<1>7. EntryInv'
  <2>1. Shape(e, mem[e.alarm]) /\ Shape(e, disk[e.alarm])
    BY <1>1, <1>3 DEF Shape
  <2> QED
    BY <1>0, <1>1, <1>2, <1>3, <2>1, OneEntryMore
<1>8. SnapInv'
  BY <1>0, <1>2 DEF SnapInv
<1>9. FiredInv'
  BY <1>0, <1>2 DEF FiredInv
<1>10. OnceInv'
  BY <1>0, <1>2 DEF OnceInv, Known
<1> QED
  BY <1>4, <1>5, <1>6, <1>7, <1>8, <1>9, <1>10 DEF Inv

\* A write that fails counts, and the process remembers it.
LEMMA FailureCounts ==
  ASSUME ConstantsOK, TypeOK, WriteFails
  PROVE  clean' = FALSE /\ faults' # 0 /\ faults' \in 0 .. MaxFaults
  BY DEF WriteFails, TypeOK, ConstantsOK

\* Steps that change no row, no wake and no history.
LEMMA QuietSteps ==
  ASSUME ConstantsOK, Inv,
         \/ ReplyFails \/ WriteRejected \/ Poll \/ PollFails \/ StartReset \/ Tick
         \/ \E S \in {Timers, Waits} : EndStage(S)
  PROVE  Inv'
<1>0. /\ TypeOK /\ LockInv /\ RowInv /\ EntryInv /\ SnapInv /\ FiredInv /\ OnceInv
  BY DEF Inv
<1>1. CASE ReplyFails \/ WriteRejected
  <2>1. /\ clean' = FALSE /\ faults' # 0 /\ faults' \in 0 .. MaxFaults /\ up
        /\ UNCHANGED <<now, mem, disk, qmem, qdisk, job, marked, reset, up, crashes, enqueued>>
        /\ replying' \in {replying, None} /\ job = <<>>
    BY <1>0, <1>1, FailureCounts DEF ReplyFails, WriteRejected, Unlocked, LockInv
  <2>2. TypeOK' /\ FiredInv'
    BY <1>0, <2>1 DEF TypeOK, FiredInv
  <2>3. LockInv'
    BY <1>0, <2>1, JobsDiffer DEF LockInv, Rehydrating, Entries
  <2>4. RowInv' /\ EntryInv' /\ SnapInv' /\ OnceInv'
    BY <2>1, QuietStep
  <2> QED
    BY <2>2, <2>3, <2>4 DEF Inv
<1>2. CASE Poll
  <2>1. /\ job' = PollJob /\ up /\ replying = None /\ job = <<>>
        /\ UNCHANGED <<now, mem, disk, qmem, qdisk, marked, replying, reset, up, crashes,
                       faults, enqueued, clean>>
    BY <1>2 DEF Poll, Unlocked
  <2>2. TypeOK'
    BY <1>0, <2>1 DEF TypeOK
  <2>3. LockInv'
    BY <1>0, <2>1, JobsDiffer DEF LockInv, Rehydrating, Entries
  <2>4. FiredInv'
    BY <1>0, <2>1, JobsDiffer DEF FiredInv
  <2>5. RowInv' /\ EntryInv' /\ SnapInv' /\ OnceInv'
    BY <2>1, QuietStep
  <2> QED
    BY <2>2, <2>3, <2>4, <2>5 DEF Inv
<1>3. CASE PollFails
  <2>1. /\ clean' = FALSE /\ faults' # 0 /\ faults' \in 0 .. MaxFaults /\ up
        /\ UNCHANGED <<now, mem, disk, qmem, qdisk, replying, reset, up, crashes, enqueued>>
        /\ job' = <<>> /\ marked' = None /\ job # <<>>
    <3>1. job # <<>>
      BY <1>3, Jobs DEF PollFails
    <3> QED
      BY <1>0, <1>3, <3>1, FailureCounts DEF PollFails
  <2>2. TypeOK' /\ FiredInv'
    BY <1>0, <2>1 DEF TypeOK, FiredInv
  <2>3. LockInv'
    BY <1>0, <2>1, JobsDiffer DEF LockInv, Rehydrating, Entries
  <2>4. RowInv' /\ EntryInv' /\ SnapInv' /\ OnceInv'
    BY <2>1, QuietStep
  <2> QED
    BY <2>2, <2>3, <2>4 DEF Inv
<1>4. CASE StartReset
  <2>1. /\ reset' = ResetSteps /\ up /\ replying = None /\ job = <<>> /\ reset = <<>>
        /\ UNCHANGED <<now, mem, disk, qmem, qdisk, job, marked, replying, up, crashes,
                       faults, enqueued, clean>>
    BY <1>4 DEF StartReset, Unlocked
  <2>2. TypeOK' /\ FiredInv'
    BY <1>0, <2>1 DEF TypeOK, FiredInv
  <2>3. LockInv'
    BY <1>0, <2>1, JobsDiffer DEF LockInv, Rehydrating, Entries
  <2>4. RowInv' /\ EntryInv' /\ SnapInv' /\ OnceInv'
    BY <2>1, QuietStep
  <2> QED
    BY <2>2, <2>3, <2>4 DEF Inv
<1>5. CASE Tick
  <2>1. /\ now < MaxTime /\ now' = now + 1
        /\ UNCHANGED <<mem, disk, qmem, qdisk, job, marked, replying, reset, up, crashes,
                       faults, enqueued, clean>>
    BY <1>5 DEF Tick
  <2>2. TypeOK' /\ FiredInv'
    BY <1>0, <2>1 DEF TypeOK, FiredInv, ConstantsOK
  <2>3. LockInv'
    BY <1>0, <2>1 DEF LockInv, Rehydrating, Entries
  <2>4. RowInv' /\ EntryInv' /\ SnapInv' /\ OnceInv'
    BY <2>1, QuietStep
  <2> QED
    BY <2>2, <2>3, <2>4 DEF Inv
<1>6. ASSUME NEW S \in {Timers, Waits}, EndStage(S) PROVE Inv'
  <2>1. /\ job' = Tail(job) /\ up /\ job # <<>> /\ marked = None /\ replying = None
        /\ Head(job) = Recon(S) => Orphans(S) = {}
        /\ Head(job) \in {Stage(S), Recon(S)}
        /\ UNCHANGED <<now, mem, disk, qmem, qdisk, marked, replying, reset, up, crashes,
                       faults, enqueued, clean>>
    <3>1. Stage(S) # Recon(S)
      BY DEF Stage, Recon
    <3> QED
      BY <1>0, <1>6, <3>1 DEF EndStage, LockInv
  <2>2. TypeOK'
    BY <1>0, <2>1, Jobs DEF TypeOK
  <2>3. LockInv'
    <3>1. Rehydrating' => Rehydrating
      BY <1>0, <2>1, Jobs, JobsDiffer DEF TypeOK, Rehydrating
    <3> QED
      BY <1>0, <2>1, <3>1 DEF LockInv
  <2>4. FiredInv'
    <3> SUFFICES ASSUME clean, NEW a \in Alarms, mem[a].status = Fired(a)
                 PROVE  \/ \E e \in qmem : e.wake = mem[a].wake
                        \/ job' = RehydrateJob
                        \/ job' = RehydrateTimers /\ a \in Timers
      BY <2>1 DEF FiredInv
    <3>1. mem[a].wake # None
      BY <1>0 DEF RowInv
    <3>2. Head(job) = Recon(S) /\ a \in S => \E e \in qmem : e.wake = mem[a].wake
      BY <2>1, <3>1 DEF Orphans
    <3>3. CASE job = RehydrateJob
      <4>1. a \in Timers \/ a \in Waits
        BY DEF Alarms
      <4>2. a \in Waits => (Head(job) = Recon(S) /\ a \in S) \/ a \in Timers
        BY <2>1, <3>3, Jobs DEF Stage, Recon
      <4> QED
        BY <2>1, <3>2, <3>3, <4>1, <4>2, Jobs
    <3>4. CASE job = RehydrateTimers /\ a \in Timers
      <4>1. Head(job) = Recon(S) /\ S = Timers
        BY <2>1, <3>4, Jobs DEF Stage, Recon
      <4> QED
        BY <3>2, <3>4, <4>1
    <3> QED
      BY <1>0, <2>1, <3>3, <3>4 DEF FiredInv, ConstantsOK, Alarms
  <2>5. RowInv' /\ EntryInv' /\ SnapInv' /\ OnceInv'
    BY <2>1, QuietStep
  <2> QED
    BY <2>2, <2>3, <2>4, <2>5 DEF Inv
<1> QED
  BY <1>1, <1>2, <1>3, <1>4, <1>5, <1>6

\* A due alarm is marked with a new wake id and persisted.
LEMMA MarkStep ==
  ASSUME ConstantsOK, Inv, NEW S \in {Timers, Waits}, NEW w \in Wakes, Mark(S, w)
  PROVE  Inv'
<1>0. /\ TypeOK /\ LockInv /\ RowInv /\ EntryInv /\ SnapInv /\ FiredInv /\ OnceInv
      /\ up /\ job # <<>> /\ marked = None /\ replying = None
      /\ UNCHANGED <<now, qmem, qdisk, job, replying, reset, up, crashes, faults, enqueued, clean>>
  BY DEF Inv, Mark, LockInv
<1>1. PICK a \in First(Due(S)) :
        /\ mem' = [mem EXCEPT ![a].status = Fired(a), ![a].wake = w]
        /\ disk' = [b \in Alarms |-> IF b \in S THEN mem'[b] ELSE disk[b]]
        /\ marked' = a
  BY DEF Mark, Persist
<1>2. a \in S /\ a \in Alarms /\ mem[a].status = Live(a) /\ a # None
  BY DEF First, Due, Alarms, ConstantsOK
<1> DEFINE row == [mem[a] EXCEPT !.status = Fired(a), !.wake = w]
<1>3. row \in Row /\ row.status = Fired(a) /\ row.wake = w /\ w # None
  <2>1. mem[a] \in Row
    BY <1>0, <1>2 DEF TypeOK
  <2> QED
    BY <2>1, Statuses DEF Row, ConstantsOK
<1>4. mem' = [mem EXCEPT ![a] = row]
  BY <1>0, <1>1, <1>2 DEF TypeOK
<1> HIDE DEF row
<1>5. /\ \A b \in Alarms : mem'[b] = IF b = a THEN row ELSE mem[b]
      /\ \A b \in Alarms : disk'[b] \in {mem'[b], disk[b]}
      /\ disk'[a] = row
  BY <1>0, <1>1, <1>2, <1>4 DEF TypeOK
<1>6. mem' \in [Alarms -> Row] /\ disk' \in [Alarms -> Row]
  BY <1>0, <1>1, <1>3, <1>4 DEF TypeOK
<1>7. ~Known(Entries, a) /\ Entries' = Entries
  BY <1>0, <1>2, LiveUnknown DEF Entries
<1>8. TypeOK'
  BY <1>0, <1>1, <1>2, <1>6 DEF TypeOK
<1>9. LockInv'
  <2>1. job \notin {<<>>, RehydrateJob, RehydrateTimers}
    BY <1>0, Jobs DEF Mark, Stage
  <2> QED
    BY <1>0, <1>1, <1>2, <1>3, <1>5, <1>7, <2>1 DEF LockInv, Rehydrating
<1>10. RowInv'
  BY <1>0, <1>3, <1>5 DEF RowInv
<1>11. EntryInv'
  <2>1. \A e \in Entries' : e \in Entries /\ e.alarm # a /\ e.alarm \in Alarms
    BY <1>0, <1>7 DEF Entries, TypeOK, Entry, Known
  <2> QED
    BY <1>0, <1>5, <2>1, RowsChange
<1>12. SnapInv'
  <2> SUFFICES ASSUME clean, reset = <<>> PROVE mem' = disk'
    BY <1>0 DEF SnapInv
  <2>1. mem = disk
    BY <1>0 DEF SnapInv
  <2>2. \A b \in Alarms : mem'[b] = disk'[b]
    BY <1>5, <2>1
  <2>3. mem' = [b \in Alarms |-> mem'[b]] /\ disk' = [b \in Alarms |-> disk'[b]]
    BY <1>6
  <2> QED
    BY <2>2, <2>3
<1>13. FiredInv'
  <2> SUFFICES ASSUME clean, NEW b \in Alarms, mem'[b].status = Fired(b)
               PROVE  \/ \E e \in qmem : e.wake = mem'[b].wake
                      \/ b = a
                      \/ job = RehydrateJob
                      \/ job = RehydrateTimers /\ b \in Timers
    BY <1>0, <1>1 DEF FiredInv
  <2>1. CASE b # a
    BY <1>0, <1>5, <2>1 DEF FiredInv, ConstantsOK, Alarms
  <2> QED
    BY <2>1
<1>14. OnceInv'
  <2> SUFFICES ASSUME faults = 0, NEW b \in Alarms, enqueued[b] # 0
               PROVE  /\ clean /\ enqueued[b] = 1
                      /\ mem'[b] = Absent \/ Known(qmem, b)
                      /\ reset = <<>> => disk'[b] = Absent \/ Known(qdisk, b)
    BY <1>0 DEF OnceInv, Known
  <2>1. clean /\ enqueued[b] = 1 /\ (mem[b] = Absent \/ Known(qmem, b))
        /\ (reset = <<>> => mem = disk /\ qmem = qdisk)
    BY <1>0 DEF OnceInv, SnapInv
  <2>2. b # a
    BY <1>2, <1>7, <2>1, Statuses DEF Entries, Known
  <2> QED
    BY <1>5, <2>1, <2>2
<1> QED
  BY <1>8, <1>9, <1>10, <1>11, <1>12, <1>13, <1>14 DEF Inv

\* The wake of an alarm that has none yet: what the poll and the rehydrate enqueue.
LEMMA WakeStep ==
  ASSUME ConstantsOK, Inv, up, NEW a \in Alarms, EnqueueWake(a),
         mem[a].status = Fired(a), disk[a] \in {mem[a], Absent}, ~Known(Entries, a),
         UNCHANGED <<mem, disk, job, reset, up, faults, clean>>,
         marked' \in {marked, None}, marked # None => marked = a
  PROVE  /\ qmem' \subseteq Entry /\ qdisk' \subseteq Entry /\ enqueued' \in [Alarms -> Nat]
         /\ RowInv' /\ EntryInv' /\ SnapInv' /\ FiredInv' /\ OnceInv'
<1> DEFINE e == [wake |-> mem[a].wake, alarm |-> a,
                 kind |-> IF a \in Timers THEN "timer" ELSE "wait_timeout"]
<1>0. TypeOK /\ RowInv /\ EntryInv /\ SnapInv /\ FiredInv /\ OnceInv
  BY DEF Inv
<1>1. e \in Entry /\ e.alarm = a /\ e.kind # "wait_reply" /\ e.wake = mem[a].wake
  <2>1. mem[a] \in Row /\ mem[a].wake # None
    BY <1>0 DEF TypeOK, RowInv
  <2>2. mem[a].wake \in Wakes
    BY <2>1 DEF Row
  <2> QED
    BY <2>2 DEF Entry
<1>2. /\ qmem' = qmem \cup {e} /\ qdisk' = qdisk \cup {e}
      /\ enqueued' = [enqueued EXCEPT ![a] = @ + 1]
  BY DEF EnqueueWake
<1> HIDE DEF e
<1>3. qmem' \subseteq Entry /\ qdisk' \subseteq Entry /\ enqueued' \in [Alarms -> Nat]
  BY <1>0, <1>1, <1>2 DEF TypeOK
<1>4. RowInv'
  BY <1>0 DEF RowInv
<1>5. EntryInv'
  <2>1. Shape(e, mem[e.alarm]) /\ Shape(e, disk[e.alarm])
    BY <1>1 DEF Shape
  <2> QED
    BY <1>0, <1>1, <1>2, <2>1, OneEntryMore
<1>6. SnapInv'
  BY <1>0, <1>2 DEF SnapInv
<1>7. FiredInv'
  BY <1>0, <1>1, <1>2 DEF FiredInv
<1>8. OnceInv'
  <2> SUFFICES ASSUME faults = 0, NEW b \in Alarms, enqueued'[b] # 0
               PROVE  /\ enqueued'[b] = 1
                      /\ mem[b] = Absent \/ Known(qmem', b)
                      /\ reset = <<>> => disk[b] = Absent \/ Known(qdisk', b)
    BY <1>0 DEF OnceInv, Known
  <2>1. CASE b = a
    <3>1. enqueued[a] = 0
      BY <1>0, Statuses DEF OnceInv, Entries, Known
    <3> QED
      BY <1>0, <1>1, <1>2, <2>1, <3>1 DEF OnceInv, Known, TypeOK
  <2>2. CASE b # a
    <3>1. enqueued'[b] = enqueued[b]
      BY <1>0, <1>2, <2>2 DEF TypeOK
    <3> QED
      BY <1>0, <1>2, <3>1 DEF OnceInv, Known
  <2> QED
    BY <2>1, <2>2
<1> QED
  BY <1>3, <1>4, <1>5, <1>6, <1>7, <1>8

LEMMA EnqueueMarkedStep ==
  ASSUME ConstantsOK, Inv, EnqueueMarked
  PROVE  Inv'
<1>0. /\ up /\ marked # None /\ EnqueueWake(marked) /\ marked' = None
      /\ UNCHANGED <<now, mem, disk, job, replying, reset, up, crashes, faults, clean>>
  BY DEF EnqueueMarked
<1>1. /\ marked \in Alarms /\ mem[marked].status = Fired(marked) /\ job # <<>>
      /\ disk[marked] \in {mem[marked], Absent} /\ ~Known(Entries, marked)
  BY <1>0 DEF Inv, TypeOK, LockInv
<1>2. /\ qmem' \subseteq Entry /\ qdisk' \subseteq Entry /\ enqueued' \in [Alarms -> Nat]
      /\ RowInv' /\ EntryInv' /\ SnapInv' /\ FiredInv' /\ OnceInv'
  BY <1>0, <1>1, WakeStep
<1>3. TypeOK'
  BY <1>0, <1>2 DEF Inv, TypeOK
<1>4. LockInv'
  BY <1>0, <1>1 DEF Inv, LockInv, Rehydrating
<1> QED
  BY <1>2, <1>3, <1>4 DEF Inv

LEMMA ReconcileStep ==
  ASSUME ConstantsOK, Inv, NEW S \in {Timers, Waits}, Reconcile(S)
  PROVE  Inv'
<1>0. /\ up /\ job # <<>> /\ Head(job) = Recon(S)
      /\ UNCHANGED <<now, mem, disk, job, marked, replying, reset, up, crashes, faults, clean>>
      /\ TypeOK /\ LockInv /\ EntryInv /\ SnapInv
  BY DEF Reconcile, Inv
<1>1. PICK a \in First(Orphans(S)) : EnqueueWake(a)
  BY DEF Reconcile
<1>2. /\ a \in Alarms /\ mem[a].status = Fired(a)
      /\ \A e \in qmem : e.wake # mem[a].wake
  BY DEF First, Orphans, Alarms
<1>3. job = RehydrateJob \/ job = RehydrateTimers
  BY <1>0, Jobs DEF TypeOK, Recon
<1>4. clean /\ reset = <<>> /\ mem = disk /\ qmem = qdisk
  BY <1>0, <1>3 DEF LockInv, Rehydrating, SnapInv
<1>5. ~Known(Entries, a)
  BY <1>0, <1>2, <1>4, Statuses DEF EntryInv, Shape, Entries, Known
<1>6. marked = None
  BY <1>0, <1>3 DEF LockInv
<1>7. /\ qmem' \subseteq Entry /\ qdisk' \subseteq Entry /\ enqueued' \in [Alarms -> Nat]
      /\ RowInv' /\ EntryInv' /\ SnapInv' /\ FiredInv' /\ OnceInv'
  BY <1>0, <1>1, <1>2, <1>4, <1>5, <1>6, WakeStep
<1>8. TypeOK'
  BY <1>0, <1>7 DEF TypeOK
<1>9. LockInv'
  <2>1. job # <<>> /\ replying = None
    BY <1>0 DEF LockInv
  <2> QED
    BY <1>0, <1>6, <2>1 DEF LockInv, Rehydrating
<1> QED
  BY <1>7, <1>8, <1>9 DEF Inv

LEMMA ResetStepStep ==
  ASSUME ConstantsOK, Inv, ResetStep
  PROVE  Inv'
<1>0. /\ TypeOK /\ LockInv /\ RowInv /\ EntryInv /\ SnapInv /\ FiredInv /\ OnceInv
      /\ up /\ reset # <<>> /\ reset' = Tail(reset)
      /\ UNCHANGED <<now, job, marked, replying, up, crashes, faults, enqueued, clean>>
      /\ Absent \in Row
  BY AbsentRow DEF Inv, ResetStep
<1>1. ~Rehydrating
  BY <1>0 DEF LockInv
<1>2. CASE Head(reset) # "memory"
  <2>1. /\ mem' = mem /\ qmem' = qmem /\ qdisk' \in {qdisk, {}}
        /\ disk' \in [Alarms -> Row] /\ \A a \in Alarms : disk'[a] \in {disk[a], Absent}
    BY <1>0, <1>2 DEF ResetStep, Emptied, TypeOK
  <2>2. reset' # <<>> /\ TypeOK'
    <3>1. reset' \in {<<"timers", "waits", "memory">>, <<"waits", "memory">>, <<"memory">>}
      BY <1>0, <1>2, Resetting DEF TypeOK
    <3>2. TypeOK'
      BY <1>0, <2>1, <3>1 DEF TypeOK
    <3> QED
      BY <3>1, <3>2, Resetting
  <2>3. Entries' \subseteq Entries
    BY <2>1 DEF Entries
  <2>4. LockInv'
    <3>1. marked \in Alarms \cup {None} /\ replying \in Alarms \cup {None}
      BY <1>0 DEF TypeOK, Alarms
    <3> QED
      BY <1>0, <1>1, <2>1, <2>3, <3>1 DEF LockInv, Rehydrating, Known
  <2>5. RowInv'
    BY <1>0, <2>1, Statuses DEF RowInv
  <2>6. EntryInv'
    <3>1. \A e \in Entries' : e.alarm \in Alarms
      BY <1>0, <2>3 DEF Entries, TypeOK, Entry
    <3> QED
      BY <1>0, <2>1, <2>3, <3>1, RowsChange
  <2>7. SnapInv' /\ FiredInv' /\ OnceInv'
    BY <1>0, <2>1, <2>2 DEF SnapInv, FiredInv, OnceInv, Known
  <2> QED
    BY <2>2, <2>4, <2>5, <2>6, <2>7 DEF Inv
<1>3. CASE Head(reset) = "memory"
  <2>1. /\ mem' = [a \in Alarms |-> Absent] /\ disk' = [a \in Alarms |-> Absent]
        /\ qmem' = {} /\ qdisk' = {} /\ job = <<>> /\ replying = None
    BY <1>3 DEF ResetStep, Unlocked
  <2>2. marked = None
    BY <1>0, <2>1 DEF LockInv
  <2>3. reset' = <<>>
    BY <1>0, <1>3, Resetting DEF TypeOK
  <2>4. TypeOK'
    BY <1>0, <2>1, <2>3 DEF TypeOK
  <2>5. LockInv'
    BY <1>0, <1>1, <2>1, <2>2, <2>3 DEF LockInv, Rehydrating
  <2>6. RowInv' /\ FiredInv'
    BY <2>1, Statuses DEF RowInv, FiredInv
  <2>7. EntryInv' /\ SnapInv'
    BY <2>1 DEF EntryInv, Entries, SnapInv
  <2>8. OnceInv'
    BY <1>0, <2>1 DEF OnceInv
  <2> QED
    BY <2>4, <2>5, <2>6, <2>7, <2>8 DEF Inv
<1> QED
  BY <1>2, <1>3

LEMMA ResetFailsStep ==
  ASSUME ConstantsOK, Inv, ResetStepFails
  PROVE  Inv'
<1>0. /\ TypeOK /\ LockInv /\ RowInv /\ EntryInv /\ SnapInv /\ FiredInv /\ OnceInv
      /\ up /\ reset # <<>> /\ clean' = FALSE /\ faults' # 0 /\ faults' \in 0 .. MaxFaults
      /\ UNCHANGED <<now, disk, qmem, qdisk, job, marked, replying, up, crashes, enqueued>>
      /\ Absent \in Row
  BY AbsentRow, FailureCounts DEF Inv, ResetStepFails
<1>1. ~Rehydrating
  BY <1>0 DEF LockInv
<1>2. /\ reset' \in {<<>>, <<"memory">>}
      /\ \/ mem' = mem
         \/ mem' = [a \in Alarms |-> Absent] /\ job = <<>> /\ replying = None
  <2>1. CASE Head(reset) = "memory"
    BY <2>1 DEF ResetStepFails, Unlocked
  <2>2. CASE Head(reset) # "memory"
    BY <2>2 DEF ResetStepFails
  <2> QED
    BY <2>1, <2>2
<1>3. mem' = mem \/ (marked = None /\ replying = None)
  BY <1>0, <1>2 DEF LockInv
<1>4. mem' \in [Alarms -> Row] /\ \A a \in Alarms : mem'[a] \in {mem[a], Absent}
  BY <1>0, <1>2 DEF TypeOK
<1>5. TypeOK'
  BY <1>0, <1>2, <1>4 DEF TypeOK
<1>6. LockInv'
  BY <1>0, <1>1, <1>3 DEF LockInv, Rehydrating, Entries
<1>7. RowInv'
  BY <1>0, <1>4, Statuses DEF RowInv
<1>8. EntryInv'
  <2>1. Entries' = Entries /\ \A e \in Entries' : e.alarm \in Alarms
    BY <1>0 DEF Entries, TypeOK, Entry
  <2> QED
    BY <1>0, <1>4, <2>1, RowsChange
<1>9. SnapInv' /\ FiredInv' /\ OnceInv'
  BY <1>0 DEF SnapInv, FiredInv, OnceInv
<1> QED
  BY <1>5, <1>6, <1>7, <1>8, <1>9 DEF Inv

LEMMA CrashStep ==
  ASSUME ConstantsOK, Inv, Crash
  PROVE  Inv'
<1>0. /\ TypeOK /\ LockInv /\ RowInv /\ EntryInv /\ SnapInv /\ FiredInv /\ OnceInv
      /\ up /\ reset = <<>> /\ up' = FALSE /\ crashes' \in 0 .. MaxCrashes
      /\ mem' = [a \in Alarms |-> Absent] /\ qmem' = {}
      /\ job' = <<>> /\ marked' = None /\ replying' = None /\ reset' = <<>>
      /\ UNCHANGED <<now, disk, qdisk, faults, enqueued, clean>>
      /\ Absent \in Row
  BY AbsentRow DEF Inv, Crash, ConstantsOK, TypeOK
<1>1. TypeOK'
  BY <1>0 DEF TypeOK
<1>2. LockInv'
  BY <1>0, JobsDiffer DEF LockInv, Rehydrating
<1>3. RowInv'
  BY <1>0, Statuses DEF RowInv
<1>4. EntryInv'
  <2>1. Entries' \subseteq Entries /\ \A e \in Entries' : e.alarm \in Alarms
    BY <1>0 DEF Entries, TypeOK, Entry
  <2> QED
    BY <1>0, <2>1, RowsChange
<1>5. SnapInv' /\ FiredInv' /\ OnceInv'
  BY <1>0 DEF SnapInv, FiredInv, OnceInv, Known
<1> QED
  BY <1>1, <1>2, <1>3, <1>4, <1>5 DEF Inv

LEMMA RestartStep ==
  ASSUME ConstantsOK, Inv, Restart
  PROVE  Inv'
<1>0. /\ TypeOK /\ LockInv /\ RowInv /\ EntryInv /\ OnceInv
      /\ ~up /\ up' = TRUE /\ mem' = disk /\ qmem' = qdisk /\ job' = RehydrateJob /\ clean' = TRUE
      /\ UNCHANGED <<now, disk, qdisk, marked, replying, reset, crashes, faults, enqueued>>
  BY DEF Inv, Restart
<1>1. marked = None /\ replying = None /\ reset = <<>>
  BY <1>0 DEF LockInv
<1>2. TypeOK'
  BY <1>0 DEF TypeOK
<1>3. LockInv'
  BY <1>0, <1>1 DEF LockInv, Rehydrating
<1>4. RowInv'
  BY <1>0 DEF RowInv
<1>5. EntryInv'
  <2>1. Entries' \subseteq Entries
    BY <1>0 DEF Entries
  <2> QED
    BY <1>0, <2>1, RowsChange
<1>6. SnapInv' /\ FiredInv' /\ OnceInv'
  BY <1>0, <1>1 DEF SnapInv, FiredInv, OnceInv, Known
<1> QED
  BY <1>2, <1>3, <1>4, <1>5, <1>6 DEF Inv

-----------------------------------------------------------------------------
(* The theorem                                                             *)

LEMMA InvInit == ASSUME ConstantsOK, Init PROVE Inv
<1>0. /\ now = 0 /\ mem = [a \in Alarms |-> Absent] /\ disk = mem /\ qmem = {} /\ qdisk = {}
      /\ job = <<>> /\ marked = None /\ replying = None /\ reset = <<>>
      /\ up = TRUE /\ crashes = 0 /\ faults = 0 /\ clean = TRUE
      /\ enqueued = [a \in Alarms |-> 0] /\ Absent \in Row
  BY AbsentRow DEF Init
<1>1. TypeOK
  BY <1>0 DEF TypeOK, ConstantsOK
<1>2. LockInv
  BY <1>0, JobsDiffer DEF LockInv, Rehydrating
<1>3. RowInv /\ EntryInv
  BY <1>0, Statuses DEF RowInv, EntryInv, Entries
<1>4. SnapInv /\ FiredInv /\ OnceInv
  BY <1>0, Statuses DEF SnapInv, FiredInv, OnceInv
<1> QED
  BY <1>1, <1>2, <1>3, <1>4 DEF Inv

LEMMA InvNext == ASSUME ConstantsOK, Inv, [Next]_vars PROVE Inv'
<1>1. CASE UNCHANGED vars
  BY <1>1 DEF vars, Inv, TypeOK, LockInv, Rehydrating, Known, Entries, RowInv, EntryInv, SnapInv,
     FiredInv, OnceInv
<1>2. CASE \/ \E a \in Alarms, at \in 0 .. MaxTime : Install(a, at)
           \/ \E a \in Alarms : CancelAlarm(a)
           \/ \E w \in Waits : Answer(w)
           \/ \E w \in Wakes : Reply(w)
  BY <1>2, InstallStep, CancelStep, AnswerStep, ReplyStep
<1>3. CASE \E S \in {Timers, Waits} : (\E w \in Wakes : Mark(S, w)) \/ Reconcile(S)
  BY <1>3, MarkStep, ReconcileStep
<1>4. CASE \/ ReplyFails \/ WriteRejected \/ Poll \/ PollFails \/ StartReset \/ Tick
           \/ \E S \in {Timers, Waits} : EndStage(S)
  BY <1>4, QuietSteps
<1>5. CASE EnqueueMarked \/ ResetStep \/ ResetStepFails \/ Crash \/ Restart
  BY <1>5, EnqueueMarkedStep, ResetStepStep, ResetFailsStep, CrashStep, RestartStep
<1> QED
  BY <1>1, <1>2, <1>3, <1>4, <1>5 DEF Next

LEMMA AlwaysInv == ConstantsOK => (Spec => []Inv)
<1> SUFFICES ASSUME ConstantsOK PROVE Spec => []Inv
  OBVIOUS
<1>1. Init => Inv
  BY InvInit
<1>2. Inv /\ [Next]_vars => Inv'
  BY InvNext
<1> QED
  BY <1>1, <1>2, PTL DEF Spec

\* Alarms across deaths, failing writes, answers and resets, for any number of them:
\* an alarm fires at most once, a wait has one outcome, memory and files agree
\* between operations, and what is marked as fired has its wake.
THEOREM AlarmsHold ==
  ASSUME ConstantsOK
  PROVE  Spec => []AlarmsSound
<1>1. Inv => AlarmsSound
  <2> SUFFICES ASSUME Inv PROVE AlarmsSound
    OBVIOUS
  <2>1. AtMostOneWake
    <3> SUFFICES ASSUME faults = 0, NEW a \in Alarms PROVE enqueued[a] <= 1
      BY DEF AtMostOneWake
    <3>1. enqueued[a] \in {0, 1}
      BY DEF Inv, OnceInv
    <3> QED
      BY <3>1
  <2>2. OneOutcomePerWait
    <3>1. \A e, f \in qdisk : e.alarm = f.alarm => e = f
      BY DEF Inv, EntryInv, Entries
    <3>2. ASSUME NEW e \in qdisk, e.kind \in {"timer", "wait_timeout"}
          PROVE  disk[e.alarm].status \notin {"cancelled", "answered", Live(e.alarm)}
      <4>1. Shape(e, disk[e.alarm])
        BY DEF Inv, EntryInv, Entries
      <4> QED
        BY <3>2, <4>1, Statuses DEF Shape
    <3> QED
      BY <3>1, <3>2 DEF OneOutcomePerWait
  <2>3. SnapshotsAgree
    BY DEF Inv, SnapInv, SnapshotsAgree, Unlocked
  <2>4. FiredHasWake
    <3> SUFFICES ASSUME Unlocked, clean, NEW a \in Alarms, mem[a].status = Fired(a)
                 PROVE  \E e \in qmem : e.wake = mem[a].wake
      BY DEF FiredHasWake
    <3>1. up /\ job = <<>> /\ marked = None
      BY DEF Unlocked, Inv, LockInv
    <3>2. a # None
      BY DEF ConstantsOK, Alarms
    <3> QED
      BY <3>1, <3>2, Jobs DEF Inv, FiredInv
  <2> QED
    BY <2>1, <2>2, <2>3, <2>4 DEF AlarmsSound, Inv
<1> QED
  BY <1>1, AlwaysInv, PTL
=============================================================================
