--------------------------- MODULE PresenceProofs ---------------------------
(***************************************************************************)
(* The presence worker forgets no message, serves none twice and tells the *)
(* truth about its phase, for any messages, users, waits, jobs, limits and *)
(* number of process deaths, failures, resets and outages.                 *)
(***************************************************************************)
EXTENDS Presence, TLAPS

Buffered == Range(buffer)
Woken    == {e.about : e \in social}

\* Where the worker is determines what it holds: between moments nothing, in the
\* loop the open moment and its wake, in its finalization no open moment.
ControlInv ==
  /\ up /\ at = "poll" =>
       ~open /\ inflight = NoWake /\ phase # "in_moment" /\ buffer = <<>> /\ chain = {}
  /\ up /\ at \in {"hop", "reply", "stopped"} =>
       open /\ inflight # NoWake /\ phase = "in_moment"
  /\ up /\ at \in {"closed", "done"} => ~open /\ phase = "in_moment"
  /\ at \in {"stopped", "closed", "done"} => chain = {}
  /\ ~up => /\ at = "poll" /\ phase = "idle" /\ buffer = <<>> /\ chain = {}
            /\ resetting = "no" /\ posted = {}
  /\ resetting # "no" => at = "poll"

\* A message is to be written, or on its way to the worker, or buffered, or has one
\* wake, and only one of these; until it leaves there it was in no moment.
PlaceInv ==
  /\ unsent \cap posted = {}
  /\ (unsent \cup posted) \cap (Buffered \cup Woken) = {}
  /\ Buffered \cap Woken = {}
  /\ \A e, f \in social : e.about = f.about => e = f
  /\ \A m \in Msgs : bouts[m] \in {0, 1}
  /\ \A m \in unsent \cup posted \cup Buffered \cup Woken : bouts[m] = 0

\* The message of the claimed wake is accounted for before the wake is done.
KeptInv ==
  /\ NoMessageForgotten
  /\ inflight.kind \in Social =>
       /\ inflight.about \in Msgs
       /\ at \in {"stopped", "closed", "done"} => inflight.about \in seen \cup gone

\* The phase has its cause, whoever holds the lock.
WaitInv ==
  up => /\ phase = "waiting" => \/ Pending # {}
                                \/ work["wait_timeout"] > 0
                                \/ \E e \in social : e.kind = "wait_reply"
        /\ phase = "idle" => Pending = {}

\* There is one continue wake at a time, and the streak has room for it.
ContinueInv ==
  /\ work["moment_continue"] \in {0, 1}
  /\ work["moment_continue"] = 0 \/ inflight.kind # "moment_continue"
  /\ streak <= MaxStreak
  /\ work["moment_continue"] # 0 \/ inflight.kind = "moment_continue" => streak < MaxStreak
  /\ bounds.crashes <= MaxCrashes
  /\ ~up => bounds.crashes < MaxCrashes
  /\ ~enabled /\ bounds.crashes = MaxCrashes => work["moment_continue"] = 0

\* Nothing arrives between the emptying of the queue and the end of a reset.
ResetInv ==
  Jobs = {} /\ resetting = "end" =>
    /\ Pending = {} /\ glass = {} /\ social = {}
    /\ \A k \in QueueKinds : work[k] = 0

Inv == TypeOK /\ ControlInv /\ PlaceInv /\ KeptInv /\ WaitInv /\ ContinueInv /\ ResetInv

-----------------------------------------------------------------------------
(* What the operations do                                                  *)

\* The routes of a message: into the running moment, as the answer of a wait, or as
\* a new message that cancels the waits of its sender that were in its way.
Interjected(m) ==
  /\ phase = "in_moment" /\ UNCHANGED <<waits, phase>>
  /\ \/ Len(buffer) < Cap /\ buffer' = Append(buffer, m) /\ social' = social
     \/ social' = social \cup {Wake("user_message", m)} /\ buffer' = buffer

Answered(m) ==
  /\ \E w \in Pending : waits' = [waits EXCEPT ![w].status = "answered"]
  /\ social' = social \cup {Wake("wait_reply", m)}
  /\ UNCHANGED <<buffer, phase>>

Started(m) ==
  /\ phase # "in_moment"
  /\ \E stale \in SUBSET Pending : UserMessage(m, stale)

LEMMA Routes ==
  ASSUME NEW m \in Msgs, NEW api \in BOOLEAN, Route(m, api)
  PROVE  /\ Interjected(m) \/ Answered(m) \/ Started(m)
         /\ Unlocked /\ resetting = "no" /\ m \in posted /\ posted' = posted \ {m}
         /\ UNCHANGED <<up, loopVars, work, chain, contVars, resetting, glass, unsent, seen,
                        bouts, gone, jobs, bounds>>
<1>1. CASE phase = "in_moment"
  <2>1. Interjected(m)
    BY <1>1 DEF Route, Interject, Interjected, HasRoom
  <2> QED
    BY <2>1 DEF Route
<1>2. CASE phase # "in_moment"
  <2>1. PICK first \in (IF Pending = {} THEN {{}} ELSE {{w} : w \in Pending}) :
          LET mine == {w \in first : waits[w].user = UserOf[m]} IN
          IF IsReply(mine, api)
            THEN WaitReply(m, CHOOSE w \in mine : TRUE)
            ELSE UserMessage(m, mine)
    BY <1>2 DEF Route
  <2> DEFINE mine == {w \in first : waits[w].user = UserOf[m]}
  <2>2. mine \in SUBSET Pending
    BY <2>1
  <2>3. CASE IsReply(mine, api)
    <3>1. (CHOOSE w \in mine : TRUE) \in Pending
      BY <2>2, <2>3 DEF IsReply
    <3>2. WaitReply(m, CHOOSE w \in mine : TRUE)
      BY <2>1, <2>3
    <3> QED
      BY <3>1, <3>2 DEF Route, WaitReply, Answered
  <2>4. CASE ~IsReply(mine, api)
    <3>1. UserMessage(m, mine)
      BY <2>1, <2>4
    <3> QED
      BY <1>2, <2>2, <3>1 DEF Route, Started
  <2> QED
    BY <2>3, <2>4
<1> QED
  BY <1>1, <1>2

\* A pending wait that is closed is no longer pending.
LEMMA OneClosed ==
  ASSUME TypeOK, NEW w \in Waits, NEW status \in {"answered", "cancelled", "timed_out"},
         waits' = [waits EXCEPT ![w].status = status]
  PROVE  Pending' = Pending \ {w}
<1>1. waits \in [Waits -> [status : {"absent", "pending", "answered", "cancelled",
                                     "timed_out", "cleared"}, user : Users \cup {Nobody}]]
  BY DEF TypeOK
<1>2. \A v \in Waits : waits'[v].status = IF v = w THEN status ELSE waits[v].status
  BY <1>1
<1> QED
  BY <1>2 DEF Pending

LEMMA StaleClosed ==
  ASSUME TypeOK, NEW m, NEW stale \in SUBSET Pending, UserMessage(m, stale)
  PROVE  Pending' = Pending \ stale
<1>1. waits \in [Waits -> [status : {"absent", "pending", "answered", "cancelled",
                                     "timed_out", "cleared"}, user : Users \cup {Nobody}]]
  BY DEF TypeOK
<1>2. \A w \in Waits : waits'[w].status = IF w \in stale THEN "cancelled" ELSE waits[w].status
  BY <1>1 DEF UserMessage
<1> QED
  BY <1>2 DEF Pending

\* The messages of the next model call are those of the chain and of the claimed wake.
LEMMA UnseenIs ==
  ASSUME TypeOK
  PROVE  /\ Unseen \subseteq Msgs /\ chain \subseteq Unseen
         /\ \A m \in Msgs : inflight.kind \in Social /\ inflight.about = m => m \in Unseen
<1>1. inflight \in [kind : DOMAIN Priority \cup {"none"}, about : Msgs \cup {0}] /\ chain \subseteq Msgs
  BY DEF TypeOK
<1>2. inflight = [kind |-> inflight.kind, about |-> inflight.about]
  BY <1>1
<1> QED
  BY <1>1, <1>2 DEF Unseen, Wake, Social

-----------------------------------------------------------------------------
(* Types                                                                   *)

Bounds == {"work", "crashes", "faults", "resets", "outages", "toggles"}

\* The sets of TypeOK by name, so that a proof need not open them.
WaitRows == [Waits -> [status : {"absent", "pending", "answered", "cancelled",
                                 "timed_out", "cleared"}, user : Users \cup {Nobody}]]
Results  == [stop : StopReasons \cup {"none"}, progress : BOOLEAN]
Claims   == [kind : DOMAIN Priority \cup {"none"}, about : Msgs \cup {0}]
Letters  == [kind : Social, about : Msgs]
Counts   == [QueueKinds -> Nat]
Served   == [Msgs -> Nat]
Budgets  == [Bounds -> Nat]
Buffers  == {b \in Seq(Msgs) : Len(b) <= Cap}

\* TypeOK, part by part.
ControlType ==
  /\ up \in BOOLEAN /\ phase \in {"idle", "in_moment", "waiting"}
  /\ at \in {"poll", "hop", "reply", "stopped", "closed", "done"}
  /\ hops \in 0 .. MaxHops /\ result \in Results /\ inflight \in Claims /\ open \in BOOLEAN
  /\ model \in BOOLEAN /\ enabled \in BOOLEAN /\ streak \in Nat
  /\ resetting \in {"no", "disk", "memory", "end"}
QueueType == social \subseteq Letters /\ work \in Counts /\ waits \in WaitRows
MsgType ==
  /\ buffer \in Buffers /\ chain \subseteq Msgs
  /\ glass \subseteq Msgs /\ unsent \subseteq Msgs /\ posted \subseteq Msgs
  /\ seen \subseteq Msgs /\ gone \subseteq Msgs /\ bouts \in Served
LimitType == jobs \subseteq Jobs /\ bounds \in Budgets

LEMMA TypeIs == TypeOK <=> ControlType /\ QueueType /\ MsgType /\ LimitType
<1>1. /\ ControlType /\ QueueType <=>
         /\ up \in BOOLEAN /\ phase \in {"idle", "in_moment", "waiting"}
         /\ at \in {"poll", "hop", "reply", "stopped", "closed", "done"}
         /\ hops \in 0 .. MaxHops
         /\ result \in [stop : StopReasons \cup {"none"}, progress : BOOLEAN]
         /\ inflight \in [kind : DOMAIN Priority \cup {"none"}, about : Msgs \cup {0}]
         /\ open \in BOOLEAN
         /\ social \subseteq [kind : Social, about : Msgs]
         /\ work \in [QueueKinds -> Nat]
         /\ waits \in [Waits -> [status : {"absent", "pending", "answered", "cancelled",
                                  "timed_out", "cleared"}, user : Users \cup {Nobody}]]
         /\ model \in BOOLEAN /\ enabled \in BOOLEAN /\ streak \in Nat
         /\ resetting \in {"no", "disk", "memory", "end"}
  BY Zenon DEF ControlType, QueueType, Results, Claims, Letters, Counts, WaitRows
<1>2. MsgType <=>
         /\ buffer \in Seq(Msgs) /\ Len(buffer) <= Cap /\ chain \subseteq Msgs
         /\ glass \subseteq Msgs /\ unsent \subseteq Msgs /\ posted \subseteq Msgs
         /\ seen \subseteq Msgs /\ gone \subseteq Msgs /\ bouts \in [Msgs -> Nat]
  BY Zenon DEF MsgType, Buffers, Served
<1>3. LimitType <=> jobs \subseteq Jobs
         /\ bounds \in [{"work", "crashes", "faults", "resets", "outages", "toggles"} -> Nat]
  BY Zenon DEF LimitType, Budgets, Bounds
<1> QED
  BY <1>1, <1>2, <1>3, Zenon DEF TypeOK

LEMMA SpendType ==
  ASSUME TypeOK, NEW b \in Bounds, Spend(b)
  PROVE  /\ bounds' \in [Bounds -> Nat] /\ bounds[b] > 0 /\ bounds'[b] = bounds[b] - 1
         /\ \A c \in Bounds \ {b} : bounds'[c] = bounds[c]
<1>1. bounds \in [Bounds -> Nat] /\ bounds[b] > 0 /\ bounds' = [bounds EXCEPT ![b] = @ - 1]
  BY DEF TypeOK, Spend, Bounds
<1> QED
  BY <1>1

\* The same queue, one wake more, one less, or none of a kind.
LEMMA WorkType ==
  ASSUME TypeOK, NEW k \in QueueKinds
  PROVE  /\ [work EXCEPT ![k] = @ + 1] \in [QueueKinds -> Nat]
         /\ work[k] > 0 => [work EXCEPT ![k] = @ - 1] \in [QueueKinds -> Nat]
         /\ [work EXCEPT ![k] = 0] \in [QueueKinds -> Nat]
         /\ [work EXCEPT ![k] = 1] \in [QueueKinds -> Nat]
         /\ \A n : /\ [work EXCEPT ![k] = n][k] = n
                   /\ \A j \in QueueKinds \ {k} : [work EXCEPT ![k] = n][j] = work[j]
<1>1. work \in [QueueKinds -> Nat]
  BY DEF TypeOK
<1> QED
  BY <1>1

LEMMA BufferType == TypeOK => Buffered \subseteq Msgs
  BY DEF TypeOK, Buffered, Range

LEMMA KindSets ==
  /\ Social \cap QueueKinds = {} /\ Social \subseteq DOMAIN Priority /\ QueueKinds \subseteq DOMAIN Priority
  /\ Social = {"user_message", "wait_reply"}
  /\ {"timer", "task_ready", "wait_timeout", "moment_continue", "background"} = QueueKinds
  /\ Durable \subseteq QueueKinds
  BY DEF Social, QueueKinds, Priority, Durable

\* A claimed wake is a message's, which leaves the queue with it, or is counted off.
LEMMA Takes ==
  ASSUME TypeOK, NEW e \in Best, Take(e)
  PROVE  \/ /\ e \in social /\ e.kind \in Social /\ e.about \in Msgs
            /\ social' = social \ {e} /\ work' = work
         \/ /\ e.kind \in QueueKinds /\ e = Wake(e.kind, 0) /\ work[e.kind] > 0
            /\ work' = [work EXCEPT ![e.kind] = @ - 1] /\ social' = social
<1>1. e \in Queued
  BY DEF Best
<1>2. CASE e \in social
  <2>1. e.kind \in Social /\ e.about \in Msgs
    BY <1>2 DEF TypeOK
  <2> QED
    BY <1>2, <2>1 DEF Take
<1>3. CASE e \in {Wake(k, 0) : k \in {q \in QueueKinds : work[q] > 0}}
  <2>1. PICK k \in QueueKinds : work[k] > 0 /\ e = Wake(k, 0)
    BY <1>3
  <2>2. e.kind = k
    BY <2>1 DEF Wake
  <2>3. e.kind \notin Social
    BY <2>1, <2>2, KindSets
  <2> QED
    BY <2>1, <2>2, <2>3 DEF Take
<1> QED
  BY <1>1, <1>2, <1>3 DEF Queued

LEMMA TakesType ==
  ASSUME TypeOK, NEW e \in Best, Take(e)
  PROVE  /\ social' \subseteq [kind : Social, about : Msgs] /\ work' \in [QueueKinds -> Nat]
         /\ e \in [kind : DOMAIN Priority \cup {"none"}, about : Msgs \cup {0}]
<1>0. social \subseteq [kind : Social, about : Msgs] /\ work \in [QueueKinds -> Nat]
  BY DEF TypeOK
<1>1. CASE e \in social /\ social' = social \ {e} /\ work' = work
  BY <1>0, <1>1, KindSets
<1>2. CASE /\ e.kind \in QueueKinds /\ e = Wake(e.kind, 0) /\ work[e.kind] > 0
           /\ work' = [work EXCEPT ![e.kind] = @ - 1] /\ social' = social
  <2>1. work' \in [QueueKinds -> Nat]
    BY <1>2, WorkType
  <2>2. e = [kind |-> e.kind, about |-> 0]
    BY <1>2 DEF Wake
  <2> QED
    BY <1>0, <1>2, <2>1, <2>2, KindSets
<1> QED
  BY <1>1, <1>2, Takes

Typed == ControlType /\ QueueType /\ MsgType /\ LimitType

LEMMA RouteType ==
  ASSUME Typed, NEW m \in Msgs, NEW api \in BOOLEAN, Route(m, api)
  PROVE  Typed'
<1>0. /\ \A k \in Social : Wake(k, m) \in Letters
      /\ social \subseteq Letters /\ waits \in WaitRows
      /\ buffer \in Seq(Msgs) /\ Len(buffer) <= Cap /\ Cap \in Nat /\ posted \subseteq Msgs
      /\ phase \in {"idle", "in_moment", "waiting"}
  BY PresenceOK DEF Wake, Letters, Typed, ControlType, QueueType, MsgType, Buffers
<1>1. /\ Interjected(m) \/ Answered(m) \/ Started(m)
      /\ Unlocked /\ resetting = "no" /\ m \in posted /\ posted' = posted \ {m}
      /\ UNCHANGED <<up, loopVars, work, chain, contVars, resetting, glass, unsent, seen,
                     bouts, gone, jobs, bounds>>
  BY Routes
<1>2. social' \subseteq Letters
  BY <1>0, <1>1, KindSets DEF Interjected, Answered, Started, UserMessage
<1>3. buffer' \in Buffers
  <2>1. CASE Len(buffer) < Cap /\ buffer' = Append(buffer, m)
    BY <1>0, <2>1 DEF Buffers
  <2> QED
    BY <1>0, <2>1, <1>1 DEF Interjected, Answered, Started, UserMessage, Buffers
<1>4. waits' \in WaitRows
  BY <1>0, <1>1 DEF Interjected, Answered, Started, UserMessage, WaitRows
<1>5. phase' \in {"idle", "in_moment", "waiting"}
  BY <1>0, <1>1 DEF Interjected, Answered, Started, UserMessage
<1> QED
  BY <1>1, <1>2, <1>3, <1>4, <1>5
     DEF Typed, ControlType, QueueType, MsgType, LimitType, loopVars, contVars

LEMMA StopType ==
  ASSUME Typed, NEW r \in StopReasons, Stop(r), waits' \in WaitRows
  PROVE  Typed'
<1>1. Unseen \subseteq Msgs
  BY TypeIs, UnseenIs DEF Typed
<1>2. result' \in Results
  BY DEF Typed, ControlType, Results, Stop
<1>3. ControlType'
  BY <1>2 DEF Typed, ControlType, Stop, LoopFrame, contVars
<1> QED
  BY <1>1, <1>3 DEF Typed, QueueType, MsgType, LimitType, Stop, LoopFrame, queueVars, Buffers

LEMMA TypeStep ==
  ASSUME TypeOK, [Next]_vars
  PROVE  TypeOK'
<1> SUFFICES Typed'
  BY TypeIs, PTL DEF Typed
<1>0. ControlType /\ QueueType /\ MsgType /\ LimitType
  BY TypeIs
<1>c. /\ PhaseFrom(Pending) \in {"idle", "in_moment", "waiting"}
      /\ NoWake \in Claims /\ NoResult \in Results /\ <<>> \in Buffers
      /\ 0 \in 0 .. MaxHops /\ Flushed \subseteq Letters
  <2>1. Flushed \subseteq Letters
    BY <1>0, BufferType, KindSets DEF Flushed, Wake, QueueType, Letters, Buffered
  <2> QED
    BY <2>1, PresenceOK DEF PhaseFrom, NoWake, NoResult, Claims, Results, Buffers
<1>1. CASE UNCHANGED vars
  <2>5. ControlType'
    BY <1>0, <1>1 DEF vars, ControlType, loopVars, queueVars, contVars, msgVars, LoopFrame,
       FinalFrame
  <2>6. QueueType'
    BY <1>0, <1>1 DEF vars, QueueType, loopVars, queueVars, contVars, msgVars, LoopFrame,
       FinalFrame
  <2>7. MsgType'
    BY <1>0, <1>1 DEF vars, MsgType, loopVars, queueVars, contVars, msgVars, LoopFrame,
       FinalFrame
  <2>8. LimitType'
    BY <1>0, <1>1 DEF vars, LimitType, loopVars, queueVars, contVars, msgVars, LoopFrame,
       FinalFrame
  <2> QED
    BY <2>5, <2>6, <2>7, <2>8 DEF Typed
<1>2. ASSUME NEW m \in Msgs, AppendMessage(m) PROVE Typed'
  <2>5. ControlType'
    BY <1>0, <1>2 DEF AppendMessage, ControlType, loopVars, queueVars, contVars, msgVars,
       LoopFrame, FinalFrame
  <2>6. QueueType'
    BY <1>0, <1>2 DEF AppendMessage, QueueType, loopVars, queueVars, contVars, msgVars,
       LoopFrame, FinalFrame
  <2>7. MsgType'
    BY <1>0, <1>2 DEF AppendMessage, MsgType, loopVars, queueVars, contVars, msgVars,
       LoopFrame, FinalFrame
  <2>8. LimitType'
    BY <1>0, <1>2 DEF AppendMessage, LimitType, loopVars, queueVars, contVars, msgVars,
       LoopFrame, FinalFrame
  <2> QED
    BY <2>5, <2>6, <2>7, <2>8 DEF Typed
<1>3. ASSUME NEW m \in Msgs, RouteRefused(m) PROVE Typed'
  <2>5. ControlType'
    BY <1>0, <1>3 DEF RouteRefused, ControlType, loopVars, queueVars, contVars, msgVars,
       LoopFrame, FinalFrame
  <2>6. QueueType'
    BY <1>0, <1>3 DEF RouteRefused, QueueType, loopVars, queueVars, contVars, msgVars,
       LoopFrame, FinalFrame
  <2>7. MsgType'
    BY <1>0, <1>3 DEF RouteRefused, MsgType, loopVars, queueVars, contVars, msgVars,
       LoopFrame, FinalFrame
  <2>8. LimitType'
    BY <1>0, <1>3 DEF RouteRefused, LimitType, loopVars, queueVars, contVars, msgVars,
       LoopFrame, FinalFrame
  <2> QED
    BY <2>5, <2>6, <2>7, <2>8 DEF Typed
<1>4. CASE TimerFires
  <2>1. bounds' \in Budgets
    BY <1>4, SpendType DEF TimerFires, Bounds, Budgets
  <2>2. work' \in Counts
    BY <1>4, WorkType, KindSets DEF TimerFires, Counts
  <2>5. ControlType'
    BY <1>0, <1>4, <2>1, <2>2 DEF TimerFires, ControlType, loopVars, queueVars, contVars,
       msgVars, LoopFrame, FinalFrame
  <2>6. QueueType'
    BY <1>0, <1>4, <2>1, <2>2 DEF TimerFires, QueueType, loopVars, queueVars, contVars,
       msgVars, LoopFrame, FinalFrame
  <2>7. MsgType'
    BY <1>0, <1>4, <2>1, <2>2 DEF TimerFires, MsgType, loopVars, queueVars, contVars, msgVars,
       LoopFrame, FinalFrame
  <2>8. LimitType'
    BY <1>0, <1>4, <2>1, <2>2 DEF TimerFires, LimitType, loopVars, queueVars, contVars,
       msgVars, LoopFrame, FinalFrame
  <2> QED
    BY <2>5, <2>6, <2>7, <2>8 DEF Typed
<1>5. CASE TaskReady
  <2>1. bounds' \in Budgets
    BY <1>5, SpendType DEF TaskReady, Bounds, Budgets
  <2>2. work' \in Counts
    BY <1>5, WorkType, KindSets DEF TaskReady, Counts
  <2>5. ControlType'
    BY <1>0, <1>5, <2>1, <2>2 DEF TaskReady, ControlType, loopVars, queueVars, contVars,
       msgVars, LoopFrame, FinalFrame
  <2>6. QueueType'
    BY <1>0, <1>5, <2>1, <2>2 DEF TaskReady, QueueType, loopVars, queueVars, contVars,
       msgVars, LoopFrame, FinalFrame
  <2>7. MsgType'
    BY <1>0, <1>5, <2>1, <2>2 DEF TaskReady, MsgType, loopVars, queueVars, contVars, msgVars,
       LoopFrame, FinalFrame
  <2>8. LimitType'
    BY <1>0, <1>5, <2>1, <2>2 DEF TaskReady, LimitType, loopVars, queueVars, contVars,
       msgVars, LoopFrame, FinalFrame
  <2> QED
    BY <2>5, <2>6, <2>7, <2>8 DEF Typed
<1>6. ASSUME NEW w \in Waits, WaitTimesOut(w) PROVE Typed'
  <2>1. waits' \in WaitRows
    BY <1>0, <1>6 DEF WaitTimesOut, QueueType, WaitRows
  <2>2. work' \in Counts
    BY <1>6, WorkType, KindSets DEF WaitTimesOut, Counts
  <2>5. ControlType'
    BY <1>0, <1>6, <2>1, <2>2 DEF WaitTimesOut, ControlType, loopVars, queueVars, contVars,
       msgVars, LoopFrame, FinalFrame
  <2>6. QueueType'
    BY <1>0, <1>6, <2>1, <2>2 DEF WaitTimesOut, QueueType, loopVars, queueVars, contVars,
       msgVars, LoopFrame, FinalFrame
  <2>7. MsgType'
    BY <1>0, <1>6, <2>1, <2>2 DEF WaitTimesOut, MsgType, loopVars, queueVars, contVars,
       msgVars, LoopFrame, FinalFrame
  <2>8. LimitType'
    BY <1>0, <1>6, <2>1, <2>2 DEF WaitTimesOut, LimitType, loopVars, queueVars, contVars,
       msgVars, LoopFrame, FinalFrame
  <2> QED
    BY <2>5, <2>6, <2>7, <2>8 DEF Typed
<1>7. ASSUME NEW w \in Waits, ToolCancelWait(w) PROVE Typed'
  <2>1. waits' \in WaitRows
    BY <1>0, <1>7 DEF ToolCancelWait, QueueType, WaitRows
  <2>5. ControlType'
    BY <1>0, <1>7, <2>1 DEF ToolCancelWait, ControlType, loopVars, queueVars, contVars,
       msgVars, LoopFrame, FinalFrame
  <2>6. QueueType'
    BY <1>0, <1>7, <2>1 DEF ToolCancelWait, QueueType, loopVars, queueVars, contVars, msgVars,
       LoopFrame, FinalFrame
  <2>7. MsgType'
    BY <1>0, <1>7, <2>1 DEF ToolCancelWait, MsgType, loopVars, queueVars, contVars, msgVars,
       LoopFrame, FinalFrame
  <2>8. LimitType'
    BY <1>0, <1>7, <2>1 DEF ToolCancelWait, LimitType, loopVars, queueVars, contVars, msgVars,
       LoopFrame, FinalFrame
  <2> QED
    BY <2>5, <2>6, <2>7, <2>8 DEF Typed
<1>8. ASSUME NEW j \in Jobs, JobCompletes(j) PROVE Typed'
  <2>2. work' \in Counts
    BY <1>8, WorkType, KindSets DEF JobCompletes, Counts
  <2>5. ControlType'
    BY <1>0, <1>8, <2>2 DEF JobCompletes, ControlType, loopVars, queueVars, contVars, msgVars,
       LoopFrame, FinalFrame
  <2>6. QueueType'
    BY <1>0, <1>8, <2>2 DEF JobCompletes, QueueType, loopVars, queueVars, contVars, msgVars,
       LoopFrame, FinalFrame
  <2>7. MsgType'
    BY <1>0, <1>8, <2>2 DEF JobCompletes, MsgType, loopVars, queueVars, contVars, msgVars,
       LoopFrame, FinalFrame
  <2>8. LimitType'
    BY <1>0, <1>8, <2>2 DEF JobCompletes, LimitType, loopVars, queueVars, contVars, msgVars,
       LoopFrame, FinalFrame
  <2> QED
    BY <2>5, <2>6, <2>7, <2>8 DEF Typed
<1>9. ASSUME NEW b \in BOOLEAN, SetContinuous(b) PROVE Typed'
  <2>1. bounds' \in Budgets
    BY <1>9, SpendType DEF SetContinuous, Bounds, Budgets
  <2>2. work' \in Counts
    <3>1. CASE b
      BY <1>0, <1>9, <3>1 DEF SetContinuous, QueueType
    <3>2. CASE ~b
      BY <1>9, <3>2, WorkType, KindSets DEF SetContinuous, Counts
    <3> QED
      BY <3>1, <3>2
  <2>5. ControlType'
    BY <1>0, <1>9, <2>1, <2>2 DEF SetContinuous, ControlType, loopVars, queueVars, contVars,
       msgVars, LoopFrame, FinalFrame
  <2>6. QueueType'
    BY <1>0, <1>9, <2>1, <2>2 DEF SetContinuous, QueueType, loopVars, queueVars, contVars,
       msgVars, LoopFrame, FinalFrame
  <2>7. MsgType'
    BY <1>0, <1>9, <2>1, <2>2 DEF SetContinuous, MsgType, loopVars, queueVars, contVars,
       msgVars, LoopFrame, FinalFrame
  <2>8. LimitType'
    BY <1>0, <1>9, <2>1, <2>2 DEF SetContinuous, LimitType, loopVars, queueVars, contVars,
       msgVars, LoopFrame, FinalFrame
  <2> QED
    BY <2>5, <2>6, <2>7, <2>8 DEF Typed
<1>10. ASSUME NEW b \in BOOLEAN, ToolBatch(b) PROVE Typed'
  <2>1. Buffered \subseteq Msgs /\ <<>> \in Buffers
    BY BufferType, PresenceOK DEF Buffers
  <2>2. result' \in Results
    BY <1>0, <1>10 DEF ToolBatch, ControlType, Results
  <2>3. bouts' \in Served
    BY <1>0, <1>10 DEF ToolBatch, MsgType, Served
  <2>5. ControlType'
    BY <1>0, <1>10, <2>1, <2>2, <2>3 DEF ToolBatch, Buffered, ControlType, loopVars,
       queueVars, contVars, msgVars, LoopFrame, FinalFrame
  <2>6. QueueType'
    BY <1>0, <1>10, <2>1, <2>2, <2>3 DEF ToolBatch, Buffered, QueueType, loopVars, queueVars,
       contVars, msgVars, LoopFrame, FinalFrame
  <2>7. MsgType'
    BY <1>0, <1>10, <2>1, <2>2, <2>3 DEF ToolBatch, Buffered, MsgType, loopVars, queueVars,
       contVars, msgVars, LoopFrame, FinalFrame
  <2>8. LimitType'
    BY <1>0, <1>10, <2>1, <2>2, <2>3 DEF ToolBatch, Buffered, LimitType, loopVars, queueVars,
       contVars, msgVars, LoopFrame, FinalFrame
  <2> QED
    BY <2>5, <2>6, <2>7, <2>8 DEF Typed
<1>11. ASSUME NEW b \in BOOLEAN, Finalize(b) PROVE Typed'
  <2>2. work' \in Counts
    <3>1. CASE work' = work
      BY <1>0, <3>1 DEF QueueType
    <3>2. CASE work' = [work EXCEPT !["moment_continue"] = @ + 1]
      BY <3>2, WorkType, KindSets DEF Counts
    <3> QED
      BY <3>1, <3>2, <1>11 DEF Finalize
  <2>5. ControlType'
    BY <1>0, <1>11, <2>2, <1>c DEF Finalize, ControlType, loopVars, queueVars, contVars,
       msgVars, LoopFrame, FinalFrame
  <2>6. QueueType'
    BY <1>0, <1>11, <2>2, <1>c DEF Finalize, QueueType, loopVars, queueVars, contVars,
       msgVars, LoopFrame, FinalFrame
  <2>7. MsgType'
    BY <1>0, <1>11, <2>2, <1>c DEF Finalize, MsgType, loopVars, queueVars, contVars, msgVars,
       LoopFrame, FinalFrame
  <2>8. LimitType'
    BY <1>0, <1>11, <2>2, <1>c DEF Finalize, LimitType, loopVars, queueVars, contVars,
       msgVars, LoopFrame, FinalFrame
  <2> QED
    BY <2>5, <2>6, <2>7, <2>8 DEF Typed
<1>12. ASSUME NEW e \in Best, Claim, Take(e), inflight' = e, bouts' = [m \in Msgs |-> IF
   e.kind \in Social /\ e.about = m THEN bouts[m] + 1 ELSE bouts[m]], streak' = IF e.kind \in
   Social THEN 0 ELSE streak PROVE Typed'
  <2>1. bouts' \in Served
    BY <1>0, <1>12 DEF MsgType, Served
  <2>2. social' \subseteq Letters /\ work' \in Counts /\ e \in Claims
    BY <1>12, TakesType DEF Letters, Counts, Claims
  <2>5. ControlType'
    BY <1>0, <1>12, <2>1, <2>2, <1>c DEF Claim, ControlType, loopVars, queueVars, contVars,
       msgVars, LoopFrame, FinalFrame
  <2>6. QueueType'
    BY <1>0, <1>12, <2>1, <2>2, <1>c DEF Claim, QueueType, loopVars, queueVars, contVars,
       msgVars, LoopFrame, FinalFrame
  <2>7. MsgType'
    BY <1>0, <1>12, <2>1, <2>2, <1>c DEF Claim, MsgType, loopVars, queueVars, contVars,
       msgVars, LoopFrame, FinalFrame
  <2>8. LimitType'
    BY <1>0, <1>12, <2>1, <2>2, <1>c DEF Claim, LimitType, loopVars, queueVars, contVars,
       msgVars, LoopFrame, FinalFrame
  <2> QED
    BY <2>5, <2>6, <2>7, <2>8 DEF Typed
<1>13. ASSUME NEW e \in Best, ClaimFails, Take(e), gone' = IF e.kind \in Social THEN gone \cup
   {e.about} ELSE gone PROVE Typed'
  <2>1. bounds' \in Budgets
    BY <1>13, SpendType DEF ClaimFails, Bounds, Budgets
  <2>2. social' \subseteq Letters /\ work' \in Counts
    BY <1>13, TakesType DEF Letters, Counts
  <2>3. gone' \subseteq Msgs
    BY <1>0, <1>13, Takes, KindSets DEF MsgType
  <2>5. ControlType'
    BY <1>0, <1>13, <2>1, <2>2, <2>3, <1>c DEF ClaimFails, ControlType, loopVars, queueVars,
       contVars, msgVars, LoopFrame, FinalFrame
  <2>6. QueueType'
    BY <1>0, <1>13, <2>1, <2>2, <2>3, <1>c DEF ClaimFails, QueueType, loopVars, queueVars,
       contVars, msgVars, LoopFrame, FinalFrame
  <2>7. MsgType'
    BY <1>0, <1>13, <2>1, <2>2, <2>3, <1>c DEF ClaimFails, MsgType, loopVars, queueVars,
       contVars, msgVars, LoopFrame, FinalFrame
  <2>8. LimitType'
    BY <1>0, <1>13, <2>1, <2>2, <2>3, <1>c DEF ClaimFails, LimitType, loopVars, queueVars,
       contVars, msgVars, LoopFrame, FinalFrame
  <2> QED
    BY <2>5, <2>6, <2>7, <2>8 DEF Typed
<1>14. CASE ModelCall
  <2>5. ControlType'
    BY <1>0, <1>14, UnseenIs, PresenceOK DEF ModelCall, ControlType, loopVars, queueVars,
       contVars, msgVars, LoopFrame, FinalFrame
  <2>6. QueueType'
    BY <1>0, <1>14, UnseenIs, PresenceOK DEF ModelCall, QueueType, loopVars, queueVars,
       contVars, msgVars, LoopFrame, FinalFrame
  <2>7. MsgType'
    BY <1>0, <1>14, UnseenIs, PresenceOK DEF ModelCall, MsgType, loopVars, queueVars,
       contVars, msgVars, LoopFrame, FinalFrame
  <2>8. LimitType'
    BY <1>0, <1>14, UnseenIs, PresenceOK DEF ModelCall, LimitType, loopVars, queueVars,
       contVars, msgVars, LoopFrame, FinalFrame
  <2> QED
    BY <2>5, <2>6, <2>7, <2>8 DEF Typed
<1>15. CASE Nudge
  <2>5. ControlType'
    BY <1>0, <1>15 DEF Nudge, ControlType, loopVars, queueVars, contVars, msgVars, LoopFrame,
       FinalFrame
  <2>6. QueueType'
    BY <1>0, <1>15 DEF Nudge, QueueType, loopVars, queueVars, contVars, msgVars, LoopFrame,
       FinalFrame
  <2>7. MsgType'
    BY <1>0, <1>15 DEF Nudge, MsgType, loopVars, queueVars, contVars, msgVars, LoopFrame,
       FinalFrame
  <2>8. LimitType'
    BY <1>0, <1>15 DEF Nudge, LimitType, loopVars, queueVars, contVars, msgVars, LoopFrame,
       FinalFrame
  <2> QED
    BY <2>5, <2>6, <2>7, <2>8 DEF Typed
<1>16. CASE CloseMoment
  <2>5. ControlType'
    BY <1>0, <1>16 DEF CloseMoment, ControlType, loopVars, queueVars, contVars, msgVars,
       LoopFrame, FinalFrame
  <2>6. QueueType'
    BY <1>0, <1>16 DEF CloseMoment, QueueType, loopVars, queueVars, contVars, msgVars,
       LoopFrame, FinalFrame
  <2>7. MsgType'
    BY <1>0, <1>16 DEF CloseMoment, MsgType, loopVars, queueVars, contVars, msgVars,
       LoopFrame, FinalFrame
  <2>8. LimitType'
    BY <1>0, <1>16 DEF CloseMoment, LimitType, loopVars, queueVars, contVars, msgVars,
       LoopFrame, FinalFrame
  <2> QED
    BY <2>5, <2>6, <2>7, <2>8 DEF Typed
<1>17. CASE MarkDone
  <2>5. ControlType'
    BY <1>0, <1>17 DEF MarkDone, ControlType, loopVars, queueVars, contVars, msgVars,
       LoopFrame, FinalFrame
  <2>6. QueueType'
    BY <1>0, <1>17 DEF MarkDone, QueueType, loopVars, queueVars, contVars, msgVars, LoopFrame,
       FinalFrame
  <2>7. MsgType'
    BY <1>0, <1>17 DEF MarkDone, MsgType, loopVars, queueVars, contVars, msgVars, LoopFrame,
       FinalFrame
  <2>8. LimitType'
    BY <1>0, <1>17 DEF MarkDone, LimitType, loopVars, queueVars, contVars, msgVars, LoopFrame,
       FinalFrame
  <2> QED
    BY <2>5, <2>6, <2>7, <2>8 DEF Typed
<1>18. CASE FailInFlight
  <2>1. bounds' \in Budgets
    BY <1>18, SpendType DEF FailInFlight, Bounds, Budgets
  <2>5. ControlType'
    BY <1>0, <1>18, <2>1, <1>c, UnseenIs DEF FailInFlight, ControlType, loopVars, queueVars,
       contVars, msgVars, LoopFrame, FinalFrame
  <2>6. QueueType'
    BY <1>0, <1>18, <2>1, <1>c, UnseenIs DEF FailInFlight, QueueType, loopVars, queueVars,
       contVars, msgVars, LoopFrame, FinalFrame
  <2>7. MsgType'
    BY <1>0, <1>18, <2>1, <1>c, UnseenIs DEF FailInFlight, MsgType, loopVars, queueVars,
       contVars, msgVars, LoopFrame, FinalFrame
  <2>8. LimitType'
    BY <1>0, <1>18, <2>1, <1>c, UnseenIs DEF FailInFlight, LimitType, loopVars, queueVars,
       contVars, msgVars, LoopFrame, FinalFrame
  <2> QED
    BY <2>5, <2>6, <2>7, <2>8 DEF Typed
<1>19. CASE ModelLost
  <2>1. bounds' \in Budgets
    BY <1>19, SpendType DEF ModelLost, Bounds, Budgets
  <2>5. ControlType'
    BY <1>0, <1>19, <2>1 DEF ModelLost, ControlType, loopVars, queueVars, contVars, msgVars,
       LoopFrame, FinalFrame
  <2>6. QueueType'
    BY <1>0, <1>19, <2>1 DEF ModelLost, QueueType, loopVars, queueVars, contVars, msgVars,
       LoopFrame, FinalFrame
  <2>7. MsgType'
    BY <1>0, <1>19, <2>1 DEF ModelLost, MsgType, loopVars, queueVars, contVars, msgVars,
       LoopFrame, FinalFrame
  <2>8. LimitType'
    BY <1>0, <1>19, <2>1 DEF ModelLost, LimitType, loopVars, queueVars, contVars, msgVars,
       LoopFrame, FinalFrame
  <2> QED
    BY <2>5, <2>6, <2>7, <2>8 DEF Typed
<1>20. CASE ModelBack
  <2>5. ControlType'
    BY <1>0, <1>20 DEF ModelBack, ControlType, loopVars, queueVars, contVars, msgVars,
       LoopFrame, FinalFrame
  <2>6. QueueType'
    BY <1>0, <1>20 DEF ModelBack, QueueType, loopVars, queueVars, contVars, msgVars,
       LoopFrame, FinalFrame
  <2>7. MsgType'
    BY <1>0, <1>20 DEF ModelBack, MsgType, loopVars, queueVars, contVars, msgVars, LoopFrame,
       FinalFrame
  <2>8. LimitType'
    BY <1>0, <1>20 DEF ModelBack, LimitType, loopVars, queueVars, contVars, msgVars,
       LoopFrame, FinalFrame
  <2> QED
    BY <2>5, <2>6, <2>7, <2>8 DEF Typed
<1>21. CASE StartReset
  <2>1. bounds' \in Budgets
    BY <1>21, SpendType DEF StartReset, Bounds, Budgets
  <2>5. ControlType'
    BY <1>0, <1>21, <2>1 DEF StartReset, ControlType, loopVars, queueVars, contVars, msgVars,
       LoopFrame, FinalFrame
  <2>6. QueueType'
    BY <1>0, <1>21, <2>1 DEF StartReset, QueueType, loopVars, queueVars, contVars, msgVars,
       LoopFrame, FinalFrame
  <2>7. MsgType'
    BY <1>0, <1>21, <2>1 DEF StartReset, MsgType, loopVars, queueVars, contVars, msgVars,
       LoopFrame, FinalFrame
  <2>8. LimitType'
    BY <1>0, <1>21, <2>1 DEF StartReset, LimitType, loopVars, queueVars, contVars, msgVars,
       LoopFrame, FinalFrame
  <2> QED
    BY <2>5, <2>6, <2>7, <2>8 DEF Typed
<1>22. CASE ResetDisk
  <2>5. ControlType'
    BY <1>0, <1>22 DEF ResetDisk, ControlType, loopVars, queueVars, contVars, msgVars,
       LoopFrame, FinalFrame
  <2>6. QueueType'
    BY <1>0, <1>22 DEF ResetDisk, QueueType, loopVars, queueVars, contVars, msgVars,
       LoopFrame, FinalFrame
  <2>7. MsgType'
    BY <1>0, <1>22 DEF ResetDisk, MsgType, loopVars, queueVars, contVars, msgVars, LoopFrame,
       FinalFrame
  <2>8. LimitType'
    BY <1>0, <1>22 DEF ResetDisk, LimitType, loopVars, queueVars, contVars, msgVars,
       LoopFrame, FinalFrame
  <2> QED
    BY <2>5, <2>6, <2>7, <2>8 DEF Typed
<1>23. CASE ResetMemory
  <2>1. Buffered \subseteq Msgs /\ {e.about : e \in social} \subseteq Msgs
    BY <1>0, BufferType DEF QueueType, Letters
  <2>2. waits' \in WaitRows
    BY <1>0, <1>23 DEF ResetMemory, QueueType, WaitRows
  <2>3. work' \in Counts
    BY <1>23 DEF ResetMemory, Counts
  <2>5. ControlType'
    BY <1>0, <1>23, <2>1, <2>2, <2>3, <1>c DEF ResetMemory, Buffered, ControlType, loopVars,
       queueVars, contVars, msgVars, LoopFrame, FinalFrame
  <2>6. QueueType'
    BY <1>0, <1>23, <2>1, <2>2, <2>3, <1>c DEF ResetMemory, Buffered, QueueType, loopVars,
       queueVars, contVars, msgVars, LoopFrame, FinalFrame
  <2>7. MsgType'
    BY <1>0, <1>23, <2>1, <2>2, <2>3, <1>c DEF ResetMemory, Buffered, MsgType, loopVars,
       queueVars, contVars, msgVars, LoopFrame, FinalFrame
  <2>8. LimitType'
    BY <1>0, <1>23, <2>1, <2>2, <2>3, <1>c DEF ResetMemory, Buffered, LimitType, loopVars,
       queueVars, contVars, msgVars, LoopFrame, FinalFrame
  <2> QED
    BY <2>5, <2>6, <2>7, <2>8 DEF Typed
<1>24. CASE EndReset
  <2>5. ControlType'
    BY <1>0, <1>24 DEF EndReset, ControlType, loopVars, queueVars, contVars, msgVars,
       LoopFrame, FinalFrame
  <2>6. QueueType'
    BY <1>0, <1>24 DEF EndReset, QueueType, loopVars, queueVars, contVars, msgVars, LoopFrame,
       FinalFrame
  <2>7. MsgType'
    BY <1>0, <1>24 DEF EndReset, MsgType, loopVars, queueVars, contVars, msgVars, LoopFrame,
       FinalFrame
  <2>8. LimitType'
    BY <1>0, <1>24 DEF EndReset, LimitType, loopVars, queueVars, contVars, msgVars, LoopFrame,
       FinalFrame
  <2> QED
    BY <2>5, <2>6, <2>7, <2>8 DEF Typed
<1>25. CASE Crash
  <2>1. bounds' \in Budgets
    BY <1>25, SpendType DEF Crash, Bounds, Budgets
  <2>2. Buffered \subseteq Msgs
    BY BufferType
  <2>5. ControlType'
    BY <1>0, <1>25, <2>1, <2>2, <1>c DEF Crash, Buffered, ControlType, loopVars, queueVars,
       contVars, msgVars, LoopFrame, FinalFrame
  <2>6. QueueType'
    BY <1>0, <1>25, <2>1, <2>2, <1>c DEF Crash, Buffered, QueueType, loopVars, queueVars,
       contVars, msgVars, LoopFrame, FinalFrame
  <2>7. MsgType'
    BY <1>0, <1>25, <2>1, <2>2, <1>c DEF Crash, Buffered, MsgType, loopVars, queueVars,
       contVars, msgVars, LoopFrame, FinalFrame
  <2>8. LimitType'
    BY <1>0, <1>25, <2>1, <2>2, <1>c DEF Crash, Buffered, LimitType, loopVars, queueVars,
       contVars, msgVars, LoopFrame, FinalFrame
  <2> QED
    BY <2>5, <2>6, <2>7, <2>8 DEF Typed
<1>26. CASE Restart
  <2>2. work' \in Counts
    <3>1. CASE inflight.kind \in Durable
      BY <1>26, <3>1, WorkType, KindSets DEF Restart, Counts
    <3>2. CASE inflight.kind \notin Durable
      BY <1>0, <1>26, <3>2 DEF Restart, QueueType
    <3> QED
      BY <3>1, <3>2
  <2>5. ControlType'
    BY <1>0, <1>26, <2>2, <1>c, UnseenIs DEF Restart, ControlType, loopVars, queueVars,
       contVars, msgVars, LoopFrame, FinalFrame
  <2>6. QueueType'
    BY <1>0, <1>26, <2>2, <1>c, UnseenIs DEF Restart, QueueType, loopVars, queueVars,
       contVars, msgVars, LoopFrame, FinalFrame
  <2>7. MsgType'
    BY <1>0, <1>26, <2>2, <1>c, UnseenIs DEF Restart, MsgType, loopVars, queueVars, contVars,
       msgVars, LoopFrame, FinalFrame
  <2>8. LimitType'
    BY <1>0, <1>26, <2>2, <1>c, UnseenIs DEF Restart, LimitType, loopVars, queueVars,
       contVars, msgVars, LoopFrame, FinalFrame
  <2> QED
    BY <2>5, <2>6, <2>7, <2>8 DEF Typed
<1>40. ASSUME NEW m \in Msgs, Route(m, TRUE) \/ Route(m, FALSE) PROVE Typed'
  BY <1>0, <1>40, RouteType DEF Typed
<1>41. ASSUME NEW r \in StopReasons, HostStop(r) \/ LoopEnds(r) PROVE Typed'
  BY <1>0, <1>41, StopType DEF Typed, HostStop, LoopEnds, QueueType
<1>42. ASSUME NEW w \in Waits, NEW u \in Users, ToolWait(w, u) PROVE Typed'
  <2>1. waits' \in WaitRows
    BY <1>0, <1>42 DEF ToolWait, QueueType, WaitRows
  <2> QED
    BY <1>0, <1>42, <2>1, StopType DEF Typed, ToolWait, StopReasons
<1> QED
  BY <1>1, <1>2, <1>3, <1>4, <1>5, <1>6, <1>7, <1>8, <1>9, <1>10, <1>11, <1>12, <1>13, <1>14,
     <1>15, <1>16, <1>17, <1>18, <1>19, <1>20, <1>21, <1>22, <1>23, <1>24, <1>25, <1>26,
     <1>40, <1>41, <1>42 DEF Next, Claim, ClaimFails

-----------------------------------------------------------------------------
(* Where the worker is                                                      *)

\* What the worker holds follows where it is: every operation keeps the two together.
LEMMA ControlStep ==
  ASSUME Inv, [Next]_vars
  PROVE  ControlInv'
<1>0. ControlInv /\ WaitInv
  BY DEF Inv
<1>1. CASE UNCHANGED vars
  BY <1>0, <1>1 DEF vars, ControlInv, PhaseFrom, Unlocked, Polling, LoopSteps, NoWake,
     loopVars, queueVars, contVars, msgVars, LoopFrame, FinalFrame
<1>2. ASSUME NEW m \in Msgs, AppendMessage(m) PROVE ControlInv'
  BY <1>0, <1>2 DEF AppendMessage, ControlInv, PhaseFrom, Unlocked, Polling, LoopSteps,
     NoWake, loopVars, queueVars, contVars, msgVars, LoopFrame, FinalFrame
<1>3. ASSUME NEW m \in Msgs, RouteRefused(m) PROVE ControlInv'
  BY <1>0, <1>3 DEF RouteRefused, ControlInv, PhaseFrom, Unlocked, Polling, LoopSteps, NoWake,
     loopVars, queueVars, contVars, msgVars, LoopFrame, FinalFrame
<1>4. ASSUME NEW m \in Msgs, NEW api \in BOOLEAN, Route(m, api) PROVE ControlInv'
  BY <1>0, <1>4, Routes DEF ControlInv, Interjected, Answered, Started, UserMessage, Unlocked,
     LoopSteps, loopVars
<1>5. CASE TimerFires
  BY <1>0, <1>5 DEF TimerFires, ControlInv, PhaseFrom, Unlocked, Polling, LoopSteps, NoWake,
     loopVars, queueVars, contVars, msgVars, LoopFrame, FinalFrame
<1>6. CASE TaskReady
  BY <1>0, <1>6 DEF TaskReady, ControlInv, PhaseFrom, Unlocked, Polling, LoopSteps, NoWake,
     loopVars, queueVars, contVars, msgVars, LoopFrame, FinalFrame
<1>7. ASSUME NEW w \in Waits, WaitTimesOut(w) PROVE ControlInv'
  BY <1>0, <1>7 DEF WaitTimesOut, ControlInv, PhaseFrom, Unlocked, Polling, LoopSteps, NoWake,
     loopVars, queueVars, contVars, msgVars, LoopFrame, FinalFrame
<1>8. ASSUME NEW w \in Waits, ToolCancelWait(w) PROVE ControlInv'
  BY <1>0, <1>8 DEF ToolCancelWait, ControlInv, PhaseFrom, Unlocked, Polling, LoopSteps,
     NoWake, loopVars, queueVars, contVars, msgVars, LoopFrame, FinalFrame
<1>9. ASSUME NEW w \in Waits, NEW u \in Users, ToolWait(w, u) PROVE ControlInv'
  BY <1>0, <1>9 DEF ToolWait, Stop, ControlInv, PhaseFrom, Unlocked, Polling, LoopSteps,
     NoWake, loopVars, queueVars, contVars, msgVars, LoopFrame, FinalFrame
<1>10. ASSUME NEW r \in StopReasons, HostStop(r) \/ LoopEnds(r) PROVE ControlInv'
  BY <1>0, <1>10 DEF HostStop, LoopEnds, Stop, ControlInv, PhaseFrom, Unlocked, Polling,
     LoopSteps, NoWake, loopVars, queueVars, contVars, msgVars, LoopFrame, FinalFrame
<1>11. ASSUME NEW j \in Jobs, JobCompletes(j) PROVE ControlInv'
  BY <1>0, <1>11 DEF JobCompletes, ControlInv, PhaseFrom, Unlocked, Polling, LoopSteps,
     NoWake, loopVars, queueVars, contVars, msgVars, LoopFrame, FinalFrame
<1>12. ASSUME NEW b \in BOOLEAN, SetContinuous(b) PROVE ControlInv'
  BY <1>0, <1>12 DEF SetContinuous, ControlInv, PhaseFrom, Unlocked, Polling, LoopSteps,
     NoWake, loopVars, queueVars, contVars, msgVars, LoopFrame, FinalFrame
<1>13. ASSUME NEW b \in BOOLEAN, ToolBatch(b) PROVE ControlInv'
  BY <1>0, <1>13 DEF ToolBatch, ControlInv, PhaseFrom, Unlocked, Polling, LoopSteps, NoWake,
     loopVars, queueVars, contVars, msgVars, LoopFrame, FinalFrame
<1>14. ASSUME NEW b \in BOOLEAN, Finalize(b) PROVE ControlInv'
  BY <1>0, <1>14 DEF Finalize, ControlInv, PhaseFrom, Unlocked, Polling, LoopSteps, NoWake,
     loopVars, queueVars, contVars, msgVars, LoopFrame, FinalFrame
<1>15. CASE Claim
  <2>1. PICK e \in Best : Take(e) /\ inflight' = e
    BY <1>15 DEF Claim
  <2>2. inflight'.kind # "none"
    BY <2>1, Takes, KindSets DEF Inv
  <2>3. up /\ up' /\ at' = "hop" /\ resetting' = "no" /\ open' /\ phase' = "in_moment"
    BY <1>0, <1>15 DEF Claim, Polling
  <2> QED
    BY <2>2, <2>3 DEF ControlInv, NoWake
<1>16. CASE ClaimFails
  BY <1>0, <1>16 DEF ClaimFails, ControlInv, PhaseFrom, Unlocked, Polling, LoopSteps, NoWake,
     loopVars, queueVars, contVars, msgVars, LoopFrame, FinalFrame
<1>17. CASE ModelCall
  BY <1>0, <1>17 DEF ModelCall, ControlInv, PhaseFrom, Unlocked, Polling, LoopSteps, NoWake,
     loopVars, queueVars, contVars, msgVars, LoopFrame, FinalFrame
<1>18. CASE Nudge
  BY <1>0, <1>18 DEF Nudge, ControlInv, PhaseFrom, Unlocked, Polling, LoopSteps, NoWake,
     loopVars, queueVars, contVars, msgVars, LoopFrame, FinalFrame
<1>19. CASE CloseMoment
  BY <1>0, <1>19 DEF CloseMoment, ControlInv, PhaseFrom, Unlocked, Polling, LoopSteps, NoWake,
     loopVars, queueVars, contVars, msgVars, LoopFrame, FinalFrame
<1>20. CASE MarkDone
  BY <1>0, <1>20 DEF MarkDone, ControlInv, PhaseFrom, Unlocked, Polling, LoopSteps, NoWake,
     loopVars, queueVars, contVars, msgVars, LoopFrame, FinalFrame
<1>21. CASE FailInFlight
  BY <1>0, <1>21 DEF FailInFlight, ControlInv, PhaseFrom, Unlocked, Polling, LoopSteps,
     NoWake, loopVars, queueVars, contVars, msgVars, LoopFrame, FinalFrame
<1>22. CASE ModelLost
  BY <1>0, <1>22 DEF ModelLost, ControlInv, PhaseFrom, Unlocked, Polling, LoopSteps, NoWake,
     loopVars, queueVars, contVars, msgVars, LoopFrame, FinalFrame
<1>23. CASE ModelBack
  BY <1>0, <1>23 DEF ModelBack, ControlInv, PhaseFrom, Unlocked, Polling, LoopSteps, NoWake,
     loopVars, queueVars, contVars, msgVars, LoopFrame, FinalFrame
<1>24. CASE StartReset
  BY <1>0, <1>24 DEF StartReset, ControlInv, PhaseFrom, Unlocked, Polling, LoopSteps, NoWake,
     loopVars, queueVars, contVars, msgVars, LoopFrame, FinalFrame
<1>25. CASE ResetDisk
  BY <1>0, <1>25 DEF ResetDisk, ControlInv, PhaseFrom, Unlocked, Polling, LoopSteps, NoWake,
     loopVars, queueVars, contVars, msgVars, LoopFrame, FinalFrame
<1>26. CASE ResetMemory
  BY <1>0, <1>26 DEF ResetMemory, ControlInv, PhaseFrom, Unlocked, Polling, LoopSteps, NoWake,
     loopVars, queueVars, contVars, msgVars, LoopFrame, FinalFrame
<1>27. CASE EndReset
  BY <1>0, <1>27 DEF EndReset, ControlInv, PhaseFrom, Unlocked, Polling, LoopSteps, NoWake,
     loopVars, queueVars, contVars, msgVars, LoopFrame, FinalFrame
<1>28. CASE Crash
  BY <1>0, <1>28 DEF Crash, ControlInv, PhaseFrom, Unlocked, Polling, LoopSteps, NoWake,
     loopVars, queueVars, contVars, msgVars, LoopFrame, FinalFrame
<1>29. CASE Restart
  BY <1>0, <1>29 DEF Restart, ControlInv, PhaseFrom, Unlocked, Polling, LoopSteps, NoWake,
     loopVars, queueVars, contVars, msgVars, LoopFrame, FinalFrame
<1> QED
  BY <1>1, <1>2, <1>3, <1>4, <1>5, <1>6, <1>7, <1>8, <1>9, <1>10, <1>11, <1>12, <1>13, <1>14,
     <1>15, <1>16, <1>17, <1>18, <1>19, <1>20, <1>21, <1>22, <1>23, <1>24, <1>25, <1>26,
     <1>27, <1>28, <1>29 DEF Next

-----------------------------------------------------------------------------
(* Where the messages are                                                  *)

LEMMA BufferAdds ==
  ASSUME NEW m \in Msgs, buffer \in Seq(Msgs), buffer' = Append(buffer, m)
  PROVE  Buffered' = Buffered \cup {m}
<1>1. DOMAIN buffer' = 1 .. Len(buffer) + 1 /\ DOMAIN buffer = 1 .. Len(buffer) /\ Len(buffer) \in Nat
  OBVIOUS
<1>2. \A i \in 1 .. Len(buffer) : buffer'[i] = buffer[i]
  OBVIOUS
<1>3. buffer'[Len(buffer) + 1] = m
  OBVIOUS
<1>4. \A i \in 1 .. Len(buffer) + 1 : i \in 1 .. Len(buffer) \/ i = Len(buffer) + 1
  BY <1>1
<1>5. Buffered' \subseteq Buffered \cup {m}
  BY <1>1, <1>2, <1>3, <1>4 DEF Buffered, Range
<1>6. Buffered \subseteq Buffered' /\ m \in Buffered'
  <2>1. \A i \in 1 .. Len(buffer) : i \in DOMAIN buffer'
    BY <1>1
  <2>2. Len(buffer) + 1 \in DOMAIN buffer'
    BY <1>1
  <2> QED
    BY <1>1, <1>2, <1>3, <2>1, <2>2 DEF Buffered, Range
<1> QED
  BY <1>5, <1>6

LEMMA NoneBuffered == Range(<<>>) = {}
  BY DEF Range

\* A flush turns the buffered messages into wakes.
LEMMA FlushIs ==
  /\ \A e \in Flushed : e \in social \/ (e = Wake("user_message", e.about) /\ e.about \in Buffered)
  /\ {e.about : e \in Flushed} = Woken \cup Buffered
<1>1. \A m : Wake("user_message", m).about = m
  BY DEF Wake
<1>2. \A e : e \in Flushed <=> e \in social \/ \E m \in Buffered : e = Wake("user_message", m)
  BY DEF Flushed, Buffered
<1>3. \A x : x \in {e.about : e \in Flushed} <=> \E e \in Flushed : x = e.about
  OBVIOUS
<1>4. \A x : x \in Woken <=> \E e \in social : x = e.about
  BY DEF Woken
<1>5. \A x : x \in {e.about : e \in Flushed} => x \in Woken \cup Buffered
  BY <1>1, <1>2, <1>3, <1>4
<1>6. \A x : x \in Woken \cup Buffered => x \in {e.about : e \in Flushed}
  BY <1>1, <1>2, <1>3, <1>4
<1> QED
  BY <1>1, <1>2, <1>5, <1>6

LEMMA WokenAdds ==
  ASSUME NEW k, NEW m, social' = social \cup {Wake(k, m)}
  PROVE  Woken' = Woken \cup {m}
<1>1. Wake(k, m).about = m
  BY DEF Wake
<1>2. \A x : x \in Woken <=> \E e \in social : x = e.about
  BY DEF Woken
<1>3. \A x : x \in Woken' <=> \E e \in social' : x = e.about
  BY DEF Woken
<1> QED
  BY <1>1, <1>2, <1>3

\* A message moves from one place to the next and is never copied.
LEMMA PlaceStep ==
  ASSUME Inv, [Next]_vars
  PROVE  PlaceInv'
<1>0. PlaceInv /\ TypeOK
  BY DEF Inv
<1>1. CASE UNCHANGED vars \/ TimerFires \/ TaskReady \/ (\E w \in Waits : WaitTimesOut(w)) \/
            (\E w \in Waits : ToolCancelWait(w)) \/ (\E w \in Waits : \E u \in Users :
            ToolWait(w, u)) \/ (\E r \in StopReasons : HostStop(r) \/ LoopEnds(r)) \/ (\E j
            \in Jobs : JobCompletes(j)) \/ (\E b \in BOOLEAN : SetContinuous(b)) \/ ModelCall
            \/ Nudge \/ CloseMoment \/ MarkDone \/ ModelLost \/ ModelBack \/ StartReset \/
            ResetDisk \/ EndReset \/ Restart
  <2>1. UNCHANGED <<unsent, posted, buffer, social, bouts>>
    BY <1>1 DEF vars, TimerFires, TaskReady, WaitTimesOut, ToolCancelWait, ToolWait, HostStop,
       LoopEnds, Stop, JobCompletes, SetContinuous, ModelCall, Nudge, CloseMoment, MarkDone,
       ModelLost, ModelBack, StartReset, ResetDisk, EndReset, Restart, loopVars, queueVars,
       contVars, msgVars, LoopFrame, FinalFrame
  <2> QED
    BY <1>0, <2>1 DEF PlaceInv, Buffered, Woken
<1>2. ASSUME NEW m \in Msgs, AppendMessage(m) PROVE PlaceInv'
  BY <1>0, <1>2 DEF AppendMessage, PlaceInv, Buffered, Woken, loopVars, queueVars, contVars,
     msgVars, LoopFrame, FinalFrame
<1>3. ASSUME NEW m \in Msgs, RouteRefused(m) PROVE PlaceInv'
  BY <1>0, <1>3 DEF RouteRefused, PlaceInv, Buffered, Woken, loopVars, queueVars, contVars,
     msgVars, LoopFrame, FinalFrame
<1>4. ASSUME NEW m \in Msgs, NEW api \in BOOLEAN, Route(m, api) PROVE PlaceInv'
  <2>1. CASE Interjected(m)
    <3>1. CASE buffer' = Append(buffer, m) /\ social' = social
      <4>1. Buffered' = Buffered \cup {m} /\ Woken' = Woken
        BY <1>0, <3>1, BufferAdds DEF TypeOK, Woken
      <4> QED
        BY <1>0, <1>4, <3>1, <4>1, Routes DEF PlaceInv
    <3>2. CASE social' = social \cup {Wake("user_message", m)} /\ buffer' = buffer
      <4>1. Buffered' = Buffered /\ Woken' = Woken \cup {m}
        BY <3>2, WokenAdds DEF Buffered
      <4>2. \A e \in social : e.about # m
        BY <1>0, <1>4, Routes DEF PlaceInv, Woken
      <4>3. Wake("user_message", m).about = m
        BY DEF Wake
      <4> QED
        BY <1>0, <1>4, <3>2, <4>1, <4>2, <4>3, Routes DEF PlaceInv
    <3> QED
      BY <2>1, <3>1, <3>2 DEF Interjected
  <2>2. CASE Answered(m) \/ Started(m)
    <3>1. PICK k \in Social : social' = social \cup {Wake(k, m)} /\ buffer' = buffer
      BY <2>2 DEF Answered, Started, UserMessage, Social
    <3>2. Buffered' = Buffered /\ Woken' = Woken \cup {m}
      BY <3>1, WokenAdds DEF Buffered
    <3>3. \A e \in social : e.about # m
      BY <1>0, <1>4, Routes DEF PlaceInv, Woken
    <3>4. Wake(k, m).about = m
      BY DEF Wake
    <3> QED
      BY <1>0, <1>4, <3>1, <3>2, <3>3, <3>4, Routes DEF PlaceInv
  <2> QED
    BY <1>0, <1>4, <2>1, <2>2, Routes
<1>5. ASSUME NEW b \in BOOLEAN, ToolBatch(b) PROVE PlaceInv'
  <2>1. Buffered' = {} /\ Woken' = Woken /\ UNCHANGED <<unsent, posted, social>>
    BY <1>5, NoneBuffered DEF ToolBatch, Buffered, Woken, LoopFrame, queueVars
  <2>2. \A m \in Msgs : bouts'[m] = IF m \in Buffered THEN bouts[m] + 1 ELSE bouts[m]
    BY <1>5 DEF ToolBatch, Buffered
  <2>3. unsent \cup posted \cup Woken \subseteq Msgs /\ Buffered \subseteq Msgs
    BY <1>0, BufferType DEF TypeOK, Woken
  <2>4. \A m \in Msgs : bouts'[m] \in {0, 1}
    BY <1>0, <2>2 DEF PlaceInv
  <2> QED
    BY <1>0, <2>1, <2>2, <2>3, <2>4 DEF PlaceInv
<1>6. ASSUME NEW b \in BOOLEAN, Finalize(b) PROVE PlaceInv'
  <2>1. Buffered' = {} /\ Woken' = Woken \cup Buffered /\ UNCHANGED <<unsent, posted, bouts>>
    BY <1>6, NoneBuffered, FlushIs DEF Finalize, Buffered, Woken, FinalFrame
  <2>2. \A e, f \in Flushed : e.about = f.about => e = f
    <3>1. \A e \in social : e.about \notin Buffered
      BY <1>0 DEF PlaceInv, Woken
    <3> QED
      BY <1>0, <3>1, FlushIs DEF PlaceInv
  <2>3. social' = Flushed
    BY <1>6 DEF Finalize
  <2> QED
    BY <1>0, <2>1, <2>2, <2>3 DEF PlaceInv
<1>7. CASE Claim
  <2>1. PICK e \in Best : /\ Take(e)
                          /\ bouts' = [m \in Msgs |-> IF e.kind \in Social /\ e.about = m
                                                        THEN bouts[m] + 1 ELSE bouts[m]]
    BY <1>7 DEF Claim
  <2>2. Buffered' = {} /\ UNCHANGED <<unsent, posted>>
    BY <1>7, NoneBuffered DEF Claim, Buffered
  <2>3. unsent \cup posted \cup Woken \subseteq Msgs
    BY <1>0 DEF TypeOK, Woken
  <2>4. CASE e \in social /\ e.kind \in Social /\ e.about \in Msgs /\ social' = social \ {e}
    <3>1. e.about \in Woken /\ Woken' = Woken \ {e.about}
      BY <1>0, <2>4 DEF Woken, PlaceInv
    <3>2. \A m \in Msgs : bouts'[m] = IF m = e.about THEN bouts[m] + 1 ELSE bouts[m]
      BY <2>1, <2>4
    <3>3. \A m \in Msgs : bouts'[m] \in {0, 1}
      BY <1>0, <2>4, <3>1, <3>2 DEF PlaceInv
    <3> QED
      BY <1>0, <2>2, <2>3, <2>4, <3>1, <3>2, <3>3 DEF PlaceInv
  <2>5. CASE e.kind \in QueueKinds /\ social' = social
    <3>1. Woken' = Woken /\ \A m \in Msgs : bouts'[m] = bouts[m]
      BY <2>1, <2>5, KindSets DEF Woken
    <3> QED
      BY <1>0, <2>2, <2>3, <2>5, <3>1 DEF PlaceInv
  <2> QED
    BY <1>0, <2>1, <2>4, <2>5, Takes
<1>8. CASE ClaimFails
  <2>1. social' \subseteq social /\ UNCHANGED <<unsent, posted, buffer, bouts>>
    BY <1>0, <1>8, Takes DEF ClaimFails
  <2> QED
    BY <1>0, <2>1 DEF PlaceInv, Buffered, Woken
<1>9. CASE FailInFlight
  <2>1. Buffered' = {} /\ Woken' = Woken \cup Buffered /\ UNCHANGED <<unsent, posted, bouts>>
    BY <1>9, NoneBuffered, FlushIs DEF FailInFlight, Buffered, Woken
  <2>2. \A e, f \in Flushed : e.about = f.about => e = f
    <3>1. \A e \in social : e.about \notin Buffered
      BY <1>0 DEF PlaceInv, Woken
    <3> QED
      BY <1>0, <3>1, FlushIs DEF PlaceInv
  <2>3. social' = Flushed
    BY <1>9 DEF FailInFlight
  <2> QED
    BY <1>0, <2>1, <2>2, <2>3 DEF PlaceInv
<1>10. CASE ResetMemory
  <2>1. social' = {} /\ Buffered' = {} /\ UNCHANGED <<unsent, posted, bouts>>
    BY <1>10, NoneBuffered DEF ResetMemory, Buffered
  <2> QED
    BY <1>0, <2>1 DEF PlaceInv, Woken
<1>11. CASE Crash
  <2>1. social' = social /\ Buffered' = {} /\ posted' = {} /\ UNCHANGED <<unsent, bouts>>
    BY <1>11, NoneBuffered DEF Crash, Buffered, queueVars
  <2> QED
    BY <1>0, <2>1 DEF PlaceInv, Woken
<1> QED
  BY <1>1, <1>2, <1>3, <1>4, <1>5, <1>6, <1>7, <1>8, <1>9, <1>10, <1>11 DEF Next

\* The places a routed message can be in.
Held == seen \cup gone \cup chain \cup Buffered \cup Woken
        \cup (IF inflight.kind \in Social THEN {inflight.about} ELSE {})

LEMMA KeptIs ==
  /\ NoMessageForgotten <=> \A m \in Msgs : m \in unsent \cup posted \cup Held
  /\ NoMessageForgotten' <=> \A m \in Msgs : m \in (unsent \cup posted \cup Held)'
<1>1. /\ \A m : m \in Woken <=> \E e \in social : e.about = m
      /\ \A m : m \in Woken' <=> \E e \in social' : e.about = m
  BY DEF Woken
<1> QED
  BY <1>1 DEF NoMessageForgotten, Held, Buffered

\* No operation drops a message that it does not account for.
LEMMA KeptStep ==
  ASSUME Inv, [Next]_vars
  PROVE  KeptInv'
<1>0. KeptInv /\ TypeOK /\ ControlInv /\ Unseen \subseteq Msgs /\ chain \subseteq Unseen
  BY UnseenIs DEF Inv
<1>1. CASE UNCHANGED vars \/ TimerFires \/ TaskReady \/ (\E w \in Waits : WaitTimesOut(w)) \/
            (\E w \in Waits : ToolCancelWait(w)) \/ (\E j \in Jobs : JobCompletes(j)) \/ (\E b
            \in BOOLEAN : SetContinuous(b)) \/ Nudge \/ CloseMoment \/ MarkDone \/ ModelLost
            \/ ModelBack \/ StartReset \/ ResetDisk \/ EndReset
  <2>1. /\ UNCHANGED <<unsent, posted, seen, gone, chain, buffer, social, inflight>>
        /\ at' \in {"stopped", "closed", "done"} => at \in {"stopped", "closed", "done"}
    BY <1>1 DEF vars, TimerFires, TaskReady, WaitTimesOut, ToolCancelWait, JobCompletes,
       SetContinuous, Nudge, CloseMoment, MarkDone, ModelLost, ModelBack, StartReset,
       ResetDisk, EndReset, loopVars, queueVars, contVars, msgVars, LoopFrame, FinalFrame
  <2> QED
    BY <1>0, <2>1, KeptIs DEF KeptInv, Held, Buffered, Woken
<1>2. ASSUME NEW m \in Msgs, AppendMessage(m) PROVE KeptInv'
  <2>1. /\ (unsent \cup posted \cup gone)' = unsent \cup posted \cup gone
        /\ UNCHANGED <<seen, chain, buffer, social, inflight, at>> /\ gone \subseteq gone'
    BY <1>0, <1>2 DEF AppendMessage, TypeOK, loopVars, queueVars
  <2> QED
    BY <1>0, <2>1, KeptIs DEF KeptInv, Held, Buffered, Woken
<1>3. ASSUME NEW m \in Msgs, RouteRefused(m) PROVE KeptInv'
  <2>1. /\ (posted \cup gone)' = posted \cup gone /\ gone \subseteq gone'
        /\ UNCHANGED <<unsent, seen, chain, buffer, social, inflight, at>>
    BY <1>0, <1>3 DEF RouteRefused, TypeOK, loopVars, queueVars
  <2> QED
    BY <1>0, <2>1, KeptIs DEF KeptInv, Held, Buffered, Woken
<1>4. ASSUME NEW m \in Msgs, NEW api \in BOOLEAN, Route(m, api) PROVE KeptInv'
  <2>1. /\ posted' = posted \ {m} /\ UNCHANGED <<unsent, seen, gone, chain, inflight, at>>
        /\ buffer \in Seq(Msgs)
    BY <1>0, <1>4, Routes DEF loopVars, TypeOK
  <2>2. \/ buffer' = Append(buffer, m) /\ social' = social
        \/ \E k \in Social : social' = social \cup {Wake(k, m)} /\ buffer' = buffer
    BY <1>4, Routes DEF Interjected, Answered, Started, UserMessage, Social
  <2>3. (Buffered \cup Woken)' = Buffered \cup Woken \cup {m}
    <3>1. CASE buffer' = Append(buffer, m) /\ social' = social
      <4>1. Buffered' = Buffered \cup {m} /\ Woken' = Woken
        BY <2>1, <3>1, BufferAdds DEF Woken
      <4> QED
        BY <4>1
    <3>2. CASE \E k \in Social : social' = social \cup {Wake(k, m)} /\ buffer' = buffer
      <4>1. Woken' = Woken \cup {m} /\ Buffered' = Buffered
        BY <3>2, WokenAdds DEF Buffered
      <4> QED
        BY <4>1
    <3> QED
      BY <2>2, <3>1, <3>2
  <2> QED
    BY <1>0, <2>1, <2>3, KeptIs DEF KeptInv, Held
<1>5. ASSUME NEW w \in Waits, NEW u \in Users, ToolWait(w, u) PROVE KeptInv'
  <2>1. /\ chain' = {} /\ gone' = gone \cup (Unseen \ seen) /\ UNCHANGED <<unsent, posted,
              seen>>
        /\ UNCHANGED <<buffer, social, inflight>>
    BY <1>5 DEF ToolWait, Stop, LoopFrame, queueVars
  <2>2. inflight.kind \in Social => inflight.about \in Unseen
    BY <1>0, UnseenIs DEF KeptInv
  <2> QED
    BY <1>0, <2>1, <2>2, KeptIs DEF KeptInv, Held, Buffered, Woken
<1>6. ASSUME NEW r \in StopReasons, HostStop(r) \/ LoopEnds(r) PROVE KeptInv'
  <2>1. /\ chain' = {} /\ gone' = gone \cup (Unseen \ seen) /\ UNCHANGED <<unsent, posted,
              seen>>
        /\ UNCHANGED <<buffer, social, inflight>>
    BY <1>6 DEF HostStop, LoopEnds, Stop, LoopFrame, queueVars
  <2>2. inflight.kind \in Social => inflight.about \in Unseen
    BY <1>0, UnseenIs DEF KeptInv
  <2> QED
    BY <1>0, <2>1, <2>2, KeptIs DEF KeptInv, Held, Buffered, Woken
<1>7. ASSUME NEW b \in BOOLEAN, ToolBatch(b) PROVE KeptInv'
  <2>1. /\ chain' = chain \cup Buffered /\ Buffered' = {} /\ at' = "hop"
        /\ UNCHANGED <<unsent, posted, seen, gone, social, inflight>>
    BY <1>7, NoneBuffered DEF ToolBatch, Buffered, LoopFrame, queueVars
  <2> QED
    BY <1>0, <2>1, KeptIs DEF KeptInv, Held, Woken
<1>8. ASSUME NEW b \in BOOLEAN, Finalize(b) PROVE KeptInv'
  <2>1. /\ Woken' = Woken \cup Buffered /\ Buffered' = {} /\ at = "done" /\ inflight' = NoWake
        /\ UNCHANGED <<unsent, posted, seen, gone, chain>>
    BY <1>8, NoneBuffered, FlushIs DEF Finalize, Buffered, Woken, FinalFrame
  <2> QED
    BY <1>0, <2>1, KeptIs, KindSets DEF KeptInv, Held, NoWake
<1>9. CASE Claim
  <2>1. PICK e \in Best : Take(e) /\ inflight' = e
    BY <1>9 DEF Claim
  <2>2. /\ UNCHANGED <<unsent, posted, seen, gone>> /\ at' = "hop" /\ chain' = {} /\ Buffered'
              = {}
        /\ chain = {} /\ Buffered = {} /\ inflight.kind \notin Social
    BY <1>0, <1>9, NoneBuffered, KindSets DEF Claim, Polling, ControlInv, Buffered, NoWake
  <2>3. CASE e \in social /\ e.kind \in Social /\ e.about \in Msgs /\ social' = social \ {e}
    <3>1. \A f \in social : f \in social' \/ f = e
      BY <2>3
    <3>2. \A m \in Woken : m \in Woken' \/ m = e.about
      BY <3>1 DEF Woken
    <3> QED
      BY <1>0, <2>1, <2>2, <2>3, <3>2, KeptIs DEF KeptInv, Held
  <2>4. CASE e.kind \in QueueKinds /\ social' = social
    <3>1. inflight'.kind \notin Social
      BY <2>1, <2>4, KindSets
    <3> QED
      BY <1>0, <2>2, <2>4, <3>1, KeptIs DEF KeptInv, Held, Woken
  <2> QED
    BY <1>0, <2>1, <2>3, <2>4, Takes
<1>10. CASE ClaimFails
  <2>1. PICK e \in Best : Take(e) /\ gone' = IF e.kind \in Social THEN gone \cup {e.about}
              ELSE gone
    BY <1>10 DEF ClaimFails
  <2>2. UNCHANGED <<unsent, posted, seen, chain, buffer, inflight, at>>
    BY <1>10 DEF ClaimFails, loopVars
  <2>3. CASE e \in social /\ e.kind \in Social /\ e.about \in Msgs /\ social' = social \ {e}
    <3>1. \A f \in social : f \in social' \/ f = e
      BY <2>3
    <3>2. \A m \in Woken : m \in Woken' \/ m = e.about
      BY <3>1 DEF Woken
    <3> QED
      BY <1>0, <2>1, <2>2, <2>3, <3>2, KeptIs DEF KeptInv, Held, Buffered
  <2>4. CASE e.kind \in QueueKinds /\ social' = social
    BY <1>0, <2>1, <2>2, <2>4, KindSets, KeptIs DEF KeptInv, Held, Buffered, Woken
  <2> QED
    BY <1>0, <2>1, <2>3, <2>4, Takes
<1>11. CASE ModelCall
  <2>1. /\ chain' = {} /\ seen' = seen \cup Unseen /\ UNCHANGED <<unsent, posted, gone>>
        /\ UNCHANGED <<buffer, social, inflight>> /\ at' = "reply"
    BY <1>11 DEF ModelCall, LoopFrame, queueVars
  <2> QED
    BY <1>0, <2>1, KeptIs DEF KeptInv, Held, Buffered, Woken
<1>12. CASE FailInFlight
  <2>1. /\ Woken' = Woken \cup Buffered /\ Buffered' = {} /\ at' = "poll" /\ inflight' = NoWake
        /\ chain' = {} /\ gone' = gone \cup (Unseen \ seen) /\ UNCHANGED <<unsent, posted,
              seen>>
    BY <1>12, NoneBuffered, FlushIs DEF FailInFlight, Buffered, Woken
  <2>2. inflight.kind \in Social => inflight.about \in Unseen
    BY <1>0, UnseenIs DEF KeptInv
  <2> QED
    BY <1>0, <2>1, <2>2, KeptIs, KindSets DEF KeptInv, Held, NoWake
<1>13. CASE ResetMemory
  <2>1. /\ gone' = gone \cup Woken \cup Buffered /\ UNCHANGED <<unsent, posted, seen>>
        /\ UNCHANGED <<chain, inflight, at>>
    BY <1>13 DEF ResetMemory, Buffered, Woken, loopVars
  <2> QED
    BY <1>0, <2>1, KeptIs DEF KeptInv, Held
<1>14. CASE Crash
  <2>1. /\ gone' = gone \cup posted \cup Buffered \cup (chain \ seen) /\ UNCHANGED <<unsent,
              seen>>
        /\ UNCHANGED social /\ at' = "poll" /\ inflight' = IF at = "done" THEN NoWake ELSE
              inflight
    BY <1>14 DEF Crash, Buffered, queueVars
  <2>2. at = "done" /\ inflight.kind \in Social => inflight.about \in seen \cup gone
    BY <1>0 DEF KeptInv
  <2> QED
    BY <1>0, <2>1, <2>2, KindSets, KeptIs DEF KeptInv, Held, Woken, NoWake
<1>15. CASE Restart
  <2>1. /\ gone' = gone \cup (Unseen \ seen) /\ UNCHANGED <<unsent, posted, seen>>
        /\ UNCHANGED <<social, buffer, chain>> /\ inflight' = NoWake
    BY <1>15 DEF Restart
  <2>2. inflight.kind \in Social => inflight.about \in Unseen
    BY <1>0, UnseenIs DEF KeptInv
  <2> QED
    BY <1>0, <2>1, <2>2, KindSets, KeptIs DEF KeptInv, Held, Woken, Buffered, NoWake
<1> QED
  BY <1>1, <1>2, <1>3, <1>4, <1>5, <1>6, <1>7, <1>8, <1>9, <1>10, <1>11, <1>12, <1>13, <1>14,
     <1>15 DEF Next

-----------------------------------------------------------------------------
(* The phase, continuous work and the reset                                *)

\* Nothing takes the cause of the phase away, and nothing arms a wait behind its back.
LEMMA WaitStep ==
  ASSUME Inv, [Next]_vars
  PROVE  WaitInv'
<1>0. WaitInv /\ TypeOK /\ ControlInv
  BY DEF Inv
<1>1. CASE UNCHANGED vars \/ (\E m \in Msgs : AppendMessage(m)) \/ (\E m \in Msgs :
            RouteRefused(m)) \/ TimerFires \/ TaskReady \/ (\E r \in StopReasons : HostStop(r)
            \/ LoopEnds(r)) \/ (\E j \in Jobs : JobCompletes(j)) \/ (\E b \in BOOLEAN :
            SetContinuous(b)) \/ ModelCall \/ Nudge \/ CloseMoment \/ MarkDone \/ ModelLost \/
            ModelBack \/ StartReset \/ ResetDisk \/ EndReset
  <2>1. UNCHANGED <<up, phase, waits, social>>
    BY <1>1 DEF vars, AppendMessage, RouteRefused, TimerFires, TaskReady, HostStop, LoopEnds,
       Stop, JobCompletes, SetContinuous, ModelCall, Nudge, CloseMoment, MarkDone, ModelLost,
       ModelBack, StartReset, ResetDisk, EndReset, loopVars, queueVars, contVars, msgVars,
       LoopFrame, FinalFrame
  <2>2. work'["wait_timeout"] = work["wait_timeout"]
    <3>1. CASE work' = work
      BY <3>1
    <3>2. CASE \E k \in {"timer", "task_ready", "background", "moment_continue"} : \E n :
                work' = [work EXCEPT ![k] = n]
      BY <3>2, WorkType, KindSets DEF Inv
    <3> QED
      BY <3>1, <3>2, <1>1 DEF vars, AppendMessage, RouteRefused, TimerFires, TaskReady,
         HostStop, LoopEnds, Stop, JobCompletes, SetContinuous, ModelCall, Nudge, CloseMoment,
         MarkDone, ModelLost, ModelBack, StartReset, ResetDisk, EndReset, loopVars, queueVars,
         contVars, msgVars, LoopFrame, FinalFrame
  <2> QED
    BY <1>0, <2>1, <2>2 DEF WaitInv, Pending
<1>2. ASSUME NEW m \in Msgs, NEW api \in BOOLEAN, Route(m, api) PROVE WaitInv'
  <2>0. up' = up /\ work' = work
    BY <1>2, Routes
  <2>1. CASE Interjected(m)
    BY <1>0, <2>0, <2>1 DEF WaitInv, Interjected
  <2>2. CASE Answered(m)
    <3>1. Wake("wait_reply", m) \in social' /\ Wake("wait_reply", m).kind = "wait_reply"
      BY <2>2 DEF Answered, Wake
    <3>2. Pending # {} /\ phase' = phase
      BY <2>2 DEF Answered
    <3> QED
      BY <1>0, <2>0, <3>1, <3>2 DEF WaitInv
  <2>3. CASE Started(m)
    <3>1. PICK stale \in SUBSET Pending : UserMessage(m, stale)
      BY <2>3 DEF Started
    <3>2. Pending' = Pending \ stale
      BY <1>0, <3>1, StaleClosed
    <3>3. social \subseteq social'
      BY <3>1 DEF UserMessage
    <3>4. phase' = IF stale # {} /\ phase = "waiting" /\ Pending = stale THEN "idle" ELSE phase
      BY <3>1 DEF UserMessage
    <3> QED
      BY <1>0, <2>0, <3>1, <3>2, <3>3, <3>4 DEF WaitInv
  <2> QED
    BY <1>2, <2>1, <2>2, <2>3, Routes
<1>3. ASSUME NEW w \in Waits, WaitTimesOut(w) PROVE WaitInv'
  <2>1. work'["wait_timeout"] = work["wait_timeout"] + 1 /\ work["wait_timeout"] \in Nat
    BY <1>0, <1>3, KindSets DEF WaitTimesOut, TypeOK
  <2>2. w \in Pending /\ UNCHANGED <<up, phase>>
    BY <1>3 DEF WaitTimesOut, Pending
  <2> QED
    BY <1>0, <2>1, <2>2 DEF WaitInv
<1>4. ASSUME NEW w \in Waits, ToolCancelWait(w) PROVE WaitInv'
  <2>1. up => phase' = "in_moment"
    BY <1>0, <1>4 DEF ToolCancelWait, ControlInv, LoopFrame
  <2> QED
    BY <2>1, <1>4 DEF WaitInv, ToolCancelWait, LoopFrame
<1>5. ASSUME NEW w \in Waits, NEW u \in Users, ToolWait(w, u) PROVE WaitInv'
  <2>1. up => phase' = "in_moment"
    BY <1>0, <1>5 DEF ToolWait, Stop, ControlInv, LoopFrame
  <2> QED
    BY <2>1, <1>5 DEF WaitInv, ToolWait, Stop, LoopFrame
<1>6. ASSUME NEW b \in BOOLEAN, ToolBatch(b) PROVE WaitInv'
  <2>1. up => phase' = "in_moment"
    BY <1>0, <1>6 DEF ToolBatch, ControlInv, LoopFrame
  <2> QED
    BY <2>1, <1>6 DEF WaitInv, ToolBatch, LoopFrame
<1>7. ASSUME NEW b \in BOOLEAN, Finalize(b) PROVE WaitInv'
  BY <1>7 DEF Finalize, WaitInv, PhaseFrom, Pending
<1>8. CASE Claim
  BY <1>8 DEF Claim, WaitInv
<1>9. CASE ClaimFails
  BY <1>9 DEF ClaimFails, WaitInv, PhaseFrom, Pending
<1>10. CASE FailInFlight
  BY <1>10 DEF FailInFlight, WaitInv, PhaseFrom, Pending
<1>11. CASE ResetMemory
  <2>1. \A w \in Waits : waits'[w].status # "pending"
    BY <1>0, <1>11 DEF ResetMemory, TypeOK
  <2> QED
    BY <2>1, <1>11 DEF WaitInv, Pending, ResetMemory
<1>12. CASE Crash
  BY <1>12 DEF Crash, WaitInv
<1>13. CASE Restart
  BY <1>13 DEF Restart, WaitInv, PhaseFrom, Pending
<1> QED
  BY <1>1, <1>2, <1>3, <1>4, <1>5, <1>6, <1>7, <1>8, <1>9, <1>10, <1>11, <1>12, <1>13 DEF Next

\* A continue wake is only made when there is none, and only while the streak has room.
LEMMA ContinueStep ==
  ASSUME Inv, [Next]_vars
  PROVE  ContinueInv'
<1>0. ContinueInv /\ TypeOK /\ work["moment_continue"] \in Nat /\ streak \in Nat /\ MaxStreak
            \in Nat /\ bounds["crashes"] \in Nat
  BY PresenceOK, KindSets DEF Inv, TypeOK
<1>1. CASE UNCHANGED vars \/ (\E m \in Msgs : AppendMessage(m)) \/ (\E m \in Msgs :
            RouteRefused(m)) \/ (\E m \in Msgs : \E api \in BOOLEAN : Route(m, api)) \/ (\E w
            \in Waits : ToolCancelWait(w)) \/ (\E w \in Waits : \E u \in Users : ToolWait(w,
            u)) \/ (\E r \in StopReasons : HostStop(r) \/ LoopEnds(r)) \/ (\E b \in BOOLEAN :
            ToolBatch(b)) \/ ModelCall \/ Nudge \/ CloseMoment \/ MarkDone \/ FailInFlight \/
            ModelBack \/ StartReset \/ ResetDisk \/ EndReset
  <2>1. UNCHANGED <<up, work, inflight, streak, enabled>> \/ (UNCHANGED <<up, work, streak,
              enabled>> /\ inflight' = NoWake)
    <3>1. CASE \E m \in Msgs, api \in BOOLEAN : Route(m, api)
      BY <3>1, Routes DEF loopVars, contVars
    <3> QED
      BY <1>1, <3>1 DEF vars, AppendMessage, RouteRefused, HostStop, LoopEnds, Stop,
         ModelCall, Nudge, CloseMoment, MarkDone, ModelBack, StartReset, ResetDisk, EndReset,
         ToolCancelWait, ToolWait, ToolBatch, FailInFlight, loopVars, queueVars, contVars,
         msgVars, LoopFrame, FinalFrame
  <2>2. bounds'.crashes = bounds.crashes
    <3>1. CASE \E m \in Msgs, api \in BOOLEAN : Route(m, api)
      BY <3>1, Routes
    <3>2. CASE StartReset \/ FailInFlight
      BY <1>0, <3>2, SpendType DEF StartReset, FailInFlight, Bounds
    <3> QED
      BY <1>1, <3>1, <3>2 DEF vars, AppendMessage, RouteRefused, HostStop, LoopEnds, Stop,
         ModelCall, Nudge, CloseMoment, MarkDone, ModelBack, ResetDisk, EndReset,
         ToolCancelWait, ToolWait, ToolBatch, loopVars, queueVars, contVars, msgVars,
         LoopFrame, FinalFrame
  <2> QED
    BY <1>0, <2>1, <2>2 DEF ContinueInv, NoWake
<1>2. CASE TimerFires
  <2>1. bounds'.crashes = bounds.crashes
    BY <1>0, <1>2, SpendType DEF TimerFires, Bounds
  <2>2. work'["moment_continue"] = work["moment_continue"]
    BY <1>0, <1>2, KindSets DEF TimerFires, TypeOK
  <2>3. UNCHANGED <<up, inflight, streak, enabled>>
    BY <1>2 DEF TimerFires, loopVars, contVars
  <2> QED
    BY <1>0, <2>1, <2>2, <2>3 DEF ContinueInv
<1>3. CASE TaskReady
  <2>1. bounds'.crashes = bounds.crashes
    BY <1>0, <1>3, SpendType DEF TaskReady, Bounds
  <2>2. work'["moment_continue"] = work["moment_continue"]
    BY <1>0, <1>3, KindSets DEF TaskReady, TypeOK
  <2>3. UNCHANGED <<up, inflight, streak, enabled>>
    BY <1>3 DEF TaskReady, loopVars, contVars
  <2> QED
    BY <1>0, <2>1, <2>2, <2>3 DEF ContinueInv
<1>4. ASSUME NEW w \in Waits, WaitTimesOut(w) PROVE ContinueInv'
  <2>1. work'["moment_continue"] = work["moment_continue"]
    BY <1>0, <1>4, KindSets DEF WaitTimesOut, TypeOK
  <2>2. UNCHANGED <<up, inflight, streak, enabled, bounds>>
    BY <1>4 DEF WaitTimesOut, loopVars, contVars
  <2> QED
    BY <1>0, <2>1, <2>2 DEF ContinueInv
<1>5. ASSUME NEW j \in Jobs, JobCompletes(j) PROVE ContinueInv'
  <2>1. work'["moment_continue"] = work["moment_continue"]
    BY <1>0, <1>5, KindSets DEF JobCompletes, TypeOK
  <2>2. UNCHANGED <<up, inflight, streak, enabled, bounds>>
    BY <1>5 DEF JobCompletes, loopVars, contVars
  <2> QED
    BY <1>0, <2>1, <2>2 DEF ContinueInv
<1>6. ASSUME NEW b \in BOOLEAN, SetContinuous(b) PROVE ContinueInv'
  <2>1. bounds'.crashes = bounds.crashes /\ UNCHANGED <<up, inflight>>
    BY <1>0, <1>6, SpendType DEF SetContinuous, Bounds, loopVars
  <2>2. CASE b
    BY <1>0, <1>6, <2>1, <2>2 DEF SetContinuous, ContinueInv
  <2>3. CASE ~b
    <3>1. work' = [work EXCEPT !["moment_continue"] = 0] /\ streak' = 0
      BY <1>6, <2>3 DEF SetContinuous
    <3>2. work'["moment_continue"] = 0
      BY <1>0, <3>1, WorkType, KindSets
    <3> QED
      BY <1>0, <2>1, <3>1, <3>2 DEF ContinueInv
  <2> QED
    BY <2>2, <2>3
<1>7. ASSUME NEW b \in BOOLEAN, Finalize(b) PROVE ContinueInv'
  <2> DEFINE next == IF inflight.kind = "moment_continue" /\ enabled THEN streak + 1 ELSE streak
  <2>1. /\ bounds' = bounds /\ up' = up /\ enabled' = enabled /\ inflight' = NoWake
        /\ streak' = next
        /\ work' = IF ContinueAllowed(next, b) THEN [work EXCEPT !["moment_continue"] = @ + 1]
                   ELSE work
    BY <1>7 DEF Finalize, FinalFrame
  <2>2. next \in Nat /\ next <= MaxStreak /\ (work["moment_continue"] # 0 => next < MaxStreak)
    BY <1>0 DEF ContinueInv
  <2>3. CASE ContinueAllowed(next, b)
    <3>1. work["moment_continue"] = 0 /\ next < MaxStreak /\ enabled
      BY <2>3 DEF ContinueAllowed
    <3>2. work'["moment_continue"] = 1
      BY <1>0, <2>1, <2>3, <3>1, WorkType, KindSets
    <3> QED
      BY <1>0, <2>1, <2>2, <3>1, <3>2 DEF ContinueInv, NoWake
  <2>4. CASE ~ContinueAllowed(next, b)
    BY <1>0, <2>1, <2>2, <2>4 DEF ContinueInv, NoWake
  <2> QED
    BY <2>3, <2>4
<1>8. CASE Claim
  <2>1. PICK e \in Best : /\ Take(e) /\ inflight' = e
                          /\ streak' = IF e.kind \in Social THEN 0 ELSE streak
    BY <1>8 DEF Claim
  <2>2. UNCHANGED <<bounds, up, enabled>>
    BY <1>8 DEF Claim
  <2>3. CASE e.kind \in Social /\ work' = work
    BY <1>0, <2>1, <2>2, <2>3, KindSets DEF ContinueInv
  <2>4. CASE e.kind \in QueueKinds /\ work[e.kind] > 0 /\ work' = [work EXCEPT ![e.kind] = @ -
              1]
    <3>1. streak' = streak
      BY <2>1, <2>4, KindSets
    <3>2. CASE e.kind = "moment_continue"
      <4>1. work'["moment_continue"] = 0 /\ work["moment_continue"] = 1
        BY <1>0, <2>4, <3>2, WorkType, KindSets DEF ContinueInv
      <4> QED
        BY <1>0, <2>1, <2>2, <3>1, <3>2, <4>1 DEF ContinueInv
    <3>3. CASE e.kind # "moment_continue"
      <4>1. work'["moment_continue"] = work["moment_continue"]
        BY <1>0, <2>4, <3>3, WorkType, KindSets
      <4> QED
        BY <1>0, <2>1, <2>2, <3>1, <3>3, <4>1 DEF ContinueInv
    <3> QED
      BY <3>2, <3>3
  <2> QED
    BY <1>0, <2>1, <2>3, <2>4, Takes
<1>9. CASE ClaimFails
  <2>1. PICK e \in Best : Take(e)
    BY <1>9 DEF ClaimFails
  <2>2. bounds'.crashes = bounds.crashes /\ UNCHANGED <<up, enabled, streak, inflight>>
    BY <1>0, <1>9, SpendType DEF ClaimFails, Bounds, loopVars, contVars
  <2>3. work'["moment_continue"] \in {work["moment_continue"], 0}
    <3>1. CASE work' = work
      BY <3>1
    <3>2. CASE e.kind \in QueueKinds /\ work[e.kind] > 0 /\ work' = [work EXCEPT ![e.kind] = @
                - 1]
      <4>1. CASE e.kind = "moment_continue"
        <5>1. work["moment_continue"] = 1
          BY <1>0, <3>2, <4>1 DEF ContinueInv
        <5> QED
          BY <1>0, <3>2, <4>1, <5>1, WorkType, KindSets
      <4>2. CASE e.kind # "moment_continue"
        BY <1>0, <3>2, <4>2, WorkType, KindSets
      <4> QED
        BY <4>1, <4>2
    <3> QED
      BY <1>0, <2>1, <3>1, <3>2, Takes
  <2> QED
    BY <1>0, <2>2, <2>3 DEF ContinueInv
<1>10. CASE ModelLost
  <2>1. bounds'.crashes = bounds.crashes
    BY <1>0, <1>10, SpendType DEF ModelLost, Bounds
  <2> QED
    BY <1>0, <1>10, <2>1 DEF ModelLost, ContinueInv, queueVars, loopVars
<1>11. CASE ResetMemory
  <2>1. work'["moment_continue"] = 0 /\ streak' = 0 /\ UNCHANGED <<bounds, up, inflight,
              enabled>>
    BY <1>11, KindSets DEF ResetMemory, loopVars
  <2> QED
    BY <1>0, <2>1 DEF ContinueInv
<1>12. CASE Crash
  <2>1. bounds'.crashes = bounds.crashes - 1
    BY <1>0, <1>12, SpendType DEF Crash, Bounds
  <2>2. UNCHANGED <<work, enabled>> /\ streak' = 0
    BY <1>12 DEF Crash, queueVars
  <2>3. inflight'.kind = "moment_continue" => inflight.kind = "moment_continue"
    BY <1>12 DEF Crash, NoWake
  <2>4. bounds'.crashes < MaxCrashes /\ bounds'.crashes <= MaxCrashes /\ bounds'.crashes #
              MaxCrashes
    BY <1>0, <2>1, PresenceOK DEF ContinueInv
  <2>5. work["moment_continue"] # 0 \/ inflight.kind = "moment_continue" => 0 < MaxStreak
    BY <1>0 DEF ContinueInv
  <2> QED
    BY <1>0, <2>2, <2>3, <2>4, <2>5 DEF ContinueInv
<1>13. CASE Restart
  <2>1. UNCHANGED <<bounds, enabled, streak>> /\ inflight' = NoWake
    BY <1>13 DEF Restart, contVars
  <2>2. CASE work' = work
    BY <1>0, <2>1, <2>2, <1>13 DEF ContinueInv, NoWake, Restart
  <2>3. CASE inflight.kind \in Durable /\ work' = [work EXCEPT ![inflight.kind] = @ + 1]
    <3>1. CASE inflight.kind = "moment_continue"
      <4>1. work["moment_continue"] = 0 /\ work'["moment_continue"] = 1
        BY <1>0, <2>3, <3>1, WorkType, KindSets DEF ContinueInv
      <4> QED
        BY <1>0, <1>13, <2>1, <3>1, <4>1 DEF ContinueInv, NoWake, Restart
    <3>2. CASE inflight.kind # "moment_continue"
      <4>1. work'["moment_continue"] = work["moment_continue"]
        BY <1>0, <2>3, <3>2, WorkType, KindSets
      <4> QED
        BY <1>0, <1>13, <2>1, <3>2, <4>1 DEF ContinueInv, NoWake, Restart
    <3> QED
      BY <3>1, <3>2
  <2> QED
    BY <1>13, <2>2, <2>3 DEF Restart
<1> QED
  BY <1>1, <1>2, <1>3, <1>4, <1>5, <1>6, <1>7, <1>8, <1>9, <1>10, <1>11, <1>12, <1>13 DEF Next

\* After the queue was emptied, only refusals happen until the flag falls.
LEMMA ResetStep ==
  ASSUME Inv, [Next]_vars
  PROVE  ResetInv'
<1>0. ResetInv /\ TypeOK /\ ControlInv /\ (Jobs # {} \/ jobs = {})
  BY DEF Inv, TypeOK
<1>1. CASE UNCHANGED vars
  BY <1>0, <1>1 DEF vars, ResetInv, Pending
<1>2. ASSUME NEW m \in Msgs, AppendMessage(m) PROVE ResetInv'
  BY <1>0, <1>2 DEF AppendMessage, ResetInv, queueVars, Pending
<1>3. ASSUME NEW m \in Msgs, RouteRefused(m) PROVE ResetInv'
  BY <1>0, <1>3 DEF RouteRefused, ResetInv, queueVars, Pending
<1>4. ASSUME NEW m \in Msgs, NEW api \in BOOLEAN, Route(m, api) PROVE ResetInv'
  BY <1>4, Routes DEF ResetInv
<1>5. CASE TimerFires
  BY <1>5 DEF TimerFires, ResetInv
<1>6. CASE TaskReady \/ (\E w \in Waits : ToolCancelWait(w)) \/ (\E w \in Waits : \E u \in
            Users : ToolWait(w, u)) \/ (\E r \in StopReasons : HostStop(r) \/ LoopEnds(r)) \/
            (\E b \in BOOLEAN : SetContinuous(b)) \/ (\E b \in BOOLEAN : ToolBatch(b)) \/ (\E
            b \in BOOLEAN : Finalize(b)) \/ Claim \/ ClaimFails \/ ModelCall \/ Nudge \/
            CloseMoment \/ MarkDone \/ FailInFlight \/ ModelLost \/ ModelBack
  <2>1. resetting' # "end" \/ UNCHANGED <<resetting, social, work, waits, glass>>
    BY <1>0, <1>6 DEF ControlInv, TaskReady, ToolCancelWait, ToolWait, HostStop, LoopEnds,
       Stop, SetContinuous, ToolBatch, Finalize, Claim, ClaimFails, ModelCall, Nudge,
       CloseMoment, MarkDone, FailInFlight, ModelLost, ModelBack, loopVars, queueVars,
       contVars, msgVars, LoopFrame, FinalFrame
  <2> QED
    BY <1>0, <2>1 DEF ResetInv, Pending
<1>7. ASSUME NEW w \in Waits, WaitTimesOut(w) PROVE ResetInv'
  BY <1>0, <1>7 DEF WaitTimesOut, ResetInv, Pending
<1>8. ASSUME NEW j \in Jobs, JobCompletes(j) PROVE ResetInv'
  BY <1>8 DEF ResetInv
<1>9. CASE StartReset
  BY <1>9 DEF StartReset, ResetInv
<1>10. CASE ResetDisk
  BY <1>10 DEF ResetDisk, ResetInv
<1>11. CASE ResetMemory
  <2>1. \A w \in Waits : waits'[w].status # "pending"
    BY <1>0, <1>11 DEF ResetMemory, TypeOK
  <2> QED
    BY <2>1, <1>11 DEF ResetInv, Pending, ResetMemory
<1>12. CASE EndReset
  BY <1>12 DEF EndReset, ResetInv
<1>13. CASE Crash
  BY <1>13 DEF Crash, ResetInv
<1>14. CASE Restart
  BY <1>0, <1>14 DEF Restart, ResetInv, ControlInv
<1> QED
  BY <1>1, <1>2, <1>3, <1>4, <1>5, <1>6, <1>7, <1>8, <1>9, <1>10, <1>11, <1>12, <1>13, <1>14
     DEF Next

LEMMA InvInit == Init => Inv
<1> SUFFICES ASSUME Init PROVE Inv
  OBVIOUS
<1>1. TypeOK
  <2>0. NoWake \in Claims /\ NoResult \in Results /\ 0 \in 0 .. MaxHops /\ 0 \in Nat
    BY PresenceOK DEF Results, Claims, NoResult, NoWake
  <2>1. ControlType
    BY <2>0 DEF Init, ControlType
  <2>2. QueueType
    BY DEF Init, QueueType, Counts, WaitRows, Nobody
  <2>3. MsgType
    BY PresenceOK DEF Init, MsgType, Buffers, Served
  <2>4. bounds \in Budgets
    BY PresenceOK DEF Init, Budgets, Bounds
  <2> QED
    BY <2>1, <2>2, <2>3, <2>4, TypeIs DEF Init, LimitType
<1>2. Buffered = {} /\ Woken = {}
  BY NoneBuffered DEF Init, Buffered, Woken
<1>3. ControlInv /\ WaitInv
  BY DEF Init, ControlInv, WaitInv, NoWake, Pending
<1>4. PlaceInv
  BY <1>2 DEF Init, PlaceInv
<1>5. KeptInv
  BY KindSets DEF Init, KeptInv, NoMessageForgotten, NoWake
<1>6. ContinueInv /\ ResetInv
  BY PresenceOK, KindSets DEF Init, ContinueInv, ResetInv, NoWake
<1> QED
  BY <1>1, <1>3, <1>4, <1>5, <1>6 DEF Inv

LEMMA InvNext == Inv /\ [Next]_vars => Inv'
  BY TypeStep, ControlStep, PlaceStep, KeptStep, WaitStep, ContinueStep, ResetStep DEF Inv

LEMMA AlwaysInv == Spec => []Inv
  BY InvInit, InvNext, PTL DEF Spec

-----------------------------------------------------------------------------
(* The theorems                                                            *)

\* Whatever users, crashes and failures do between two steps of the worker
\* (worker.py): a moment is open exactly in phase in_moment, and a message is on its
\* way, served, or accounted for, and enters one moment at most.
THEOREM MessagesKept == Spec => []NothingForgotten
<1>1. Inv => NothingForgotten
  <2> SUFFICES ASSUME Inv PROVE NothingForgotten
    OBVIOUS
  <2>1. OpenIffInMoment
    BY DEF Inv, TypeOK, ControlInv, OpenIffInMoment, Unlocked, LoopSteps
  <2>2. OneBoutPerMessage
    BY DEF Inv, TypeOK, PlaceInv, OneBoutPerMessage
  <2> QED
    BY <2>1, <2>2 DEF Inv, KeptInv, NothingForgotten
<1> QED
  BY <1>1, AlwaysInv, PTL

\* _phase_from_pending_waits_unlocked and should_enqueue_moment_continue keep their
\* word: no waiting without a cause, no idling over a wait, at most one continue wake
\* and a streak within its budget, none once continuous work is off.
THEOREM PhaseHolds == Spec => []PhaseIsTrue
<1>1. Inv => PhaseIsTrue
  <2> SUFFICES ASSUME Inv PROVE PhaseIsTrue
    OBVIOUS
  <2>1. WaitingHasCause /\ IdleHasNoWait
    BY DEF Inv, WaitInv, WaitingHasCause, IdleHasNoWait, Unlocked
  <2>2. ContinueBounded
    BY DEF Inv, ContinueInv, ContinueBounded
  <2>3. OffStaysOff
    BY DEF Inv, ContinueInv, OffStaysOff
  <2> QED
    BY <2>1, <2>2, <2>3 DEF Inv, PhaseIsTrue
<1> QED
  BY <1>1, AlwaysInv, PTL

\* reset_runtime_state leaves nothing behind, unless an instrument job completes while
\* it runs: the reaper enqueues without asking for the flag (reaper.py:619), which is
\* why the theorem is about instances without such jobs.
THEOREM ResetLeavesNothing == ASSUME Jobs = {} PROVE Spec => ResetEndsEmpty
<1>1. Inv /\ [Next]_vars =>
        [resetting = "end" /\ resetting' = "no" => Queued = {} /\ glass = {} /\ buffer = <<>>]_vars
  <2> SUFFICES ASSUME Inv, resetting = "end" PROVE Queued = {} /\ glass = {} /\ buffer = <<>>
    OBVIOUS
  <2>1. up /\ at = "poll"
    BY DEF Inv, ControlInv, TypeOK
  <2>2. social = {} /\ glass = {} /\ \A k \in QueueKinds : work[k] = 0
    BY DEF Inv, ResetInv
  <2>3. Queued = {}
    BY <2>2 DEF Queued
  <2> QED
    BY <2>1, <2>2, <2>3 DEF Inv, ControlInv
<1> QED
  BY <1>1, AlwaysInv, PTL DEF Spec, ResetEndsEmpty
=============================================================================
