------------------------------- MODULE Ladder -------------------------------
(***************************************************************************)
(* The summary ladder (memory/ladder.py, memory/temporal.py): closed hours *)
(* are summarised oldest first, each cascades into its day, and what is    *)
(* still to do is kept in ladder/state.json.                               *)
(*                                                                         *)
(* Two threads work on it without a lock between them: the idle tick of    *)
(* the presence thread (never while a moment runs) and the operator's      *)
(* rebuild on an HTTP thread.  Both read state.json when they begin and    *)
(* write it when they end.  A budget may stop either between two windows.  *)
(* Hours are 1, 2, ...; one coarser scale, the day, stands for 1d to 1y.   *)
(***************************************************************************)
EXTENDS Integers, Sequences, FiniteSets, FiniteSetsExt

CONSTANTS
  MaxHour,       \* bound on time
  CatchupMax,    \* ladder_catchup_max_hours
  RebuildMax,    \* ladder_rebuild_max_hours
  NibbleMax,     \* windows the nibble looks back over
  MaxAtoms,      \* bound on atoms per hour
  MaxRaises,     \* bound on refreshes that raise
  MaxDeaths,     \* bound on process deaths
  MaxRebuilds    \* bound on operator rebuilds

Hours  == 1 .. MaxHour
Actors == {"tick", "rebuild"}

VARIABLES
  hour,      \* the open hour
  moment,    \* is a moment running?
  raw,       \* atoms of each hour
  hourTip,   \* what the 1h tip of an hour covers (0: there is none)
  day,       \* the day's summary: how many versions, what the tip covers per hour
  json,      \* ladder/state.json
  act,       \* what each thread is at
  forgotten, \* history: hours whose mark was lost or that left the horizon
  rewritten, \* history: day versions that two writers minted
  raises, deaths, rebuilds   \* bounds

bounds == <<raises, deaths, rebuilds>>
vars == <<hour, moment, raw, hourTip, day, json, act, forgotten, rewritten, bounds>>

Off == [at |-> "off"]
NewState == [dirty |-> {}, pending |-> {}, cursor |-> 0, last |-> 0, scale |-> "hour"]

Closed == {h \in Hours : h < hour}
NoTips == [h \in Hours |-> 0]
Has == {h \in Hours : raw[h] > 0}

-----------------------------------------------------------------------------
(* Which hours                                                             *)

\* windows_in_horizon over 1h: n windows back, the open one included.
Horizon(n) == {h \in Hours : h <= hour /\ h > hour - n}

\* _hourly_due; otherwise the tick only nibbles.
HourlyDue(s) == s.dirty # {} \/ s.pending # {} \/ s.last < hour \/ s.cursor < hour

Oldest(S, n) == {h \in S : Cardinality({g \in S : g < h}) < n}

\* process_closed_hours: the horizon from the cursor on, and whatever is dirty
\* or has its cascade pending; the oldest CatchupMax of them.
Ordered(s) ==
  LET found  == {h \in Horizon(CatchupMax + 1) : h < hour} \cup s.dirty \cup s.pending
      forced == s.dirty \cup s.pending
  IN  Oldest({h \in found : h >= s.cursor \/ h \in forced}, CatchupMax)

-----------------------------------------------------------------------------
(* Moments                                                                 *)

WriteAtom ==
  /\ moment /\ raw[hour] < MaxAtoms
  /\ raw' = [raw EXCEPT ![hour] = @ + 1]
  /\ UNCHANGED <<hour, moment, hourTip, day, json, act, forgotten, rewritten, bounds>>

OpenMoment ==
  /\ ~moment /\ act["tick"] = Off /\ raw[hour] < MaxAtoms
  /\ moment' = TRUE
  /\ UNCHANGED <<hour, raw, hourTip, day, json, act, forgotten, rewritten, bounds>>

\* mark_dirty_1h at the end of a moment: the hour it ends in.
Finalize ==
  /\ moment
  /\ moment' = FALSE
  /\ json' = [json EXCEPT !.dirty = @ \cup {hour}]
  /\ UNCHANGED <<hour, raw, hourTip, day, act, forgotten, rewritten, bounds>>

\* An hour that leaves the horizon with nothing pointing at it is forgotten.
HourPasses ==
  /\ hour < MaxHour
  /\ hour' = hour + 1
  /\ forgotten' = forgotten \cup {h \in Has : h < hour' - CatchupMax /\ hourTip[h] < raw[h]
                                             /\ h \notin json.dirty}
  /\ UNCHANGED <<moment, raw, hourTip, day, json, act, rewritten, bounds>>

-----------------------------------------------------------------------------
(* The tick                                                                *)

Begin(p, at, todo, force) ==
  act' = [act EXCEPT ![p] = [at |-> at, st |-> json, todo |-> todo, cur |-> 0, ver |-> 0,
                             seen |-> NoTips, last |-> 0, stop |-> 0, force |-> force,
                             now |-> hour]]

TickBegin ==
  /\ ~moment /\ act["tick"] = Off
  /\ IF HourlyDue(json) THEN Begin("tick", "hour", Ordered(json), FALSE)
     ELSE Begin("tick", IF json.scale = "hour" THEN "nibble" ELSE "cascade", {}, FALSE)
  /\ UNCHANGED <<hour, moment, raw, hourTip, day, json, forgotten, rewritten, bounds>>

\* The next hour of process_closed_hours.
TickHour ==
  /\ act["tick"].at = "hour" /\ act["tick"].todo # {}
  /\ LET a    == act["tick"]
         h    == Min(a.todo)
         rest == [a EXCEPT !.todo = @ \ {h}]
         seenOpen == h >= a.now
         Done(s) == [s EXCEPT !.dirty = @ \ {h}]
     IN  \/ \* the open hour is left dirty
            /\ seenOpen
            /\ act' = [act EXCEPT !["tick"] = rest] /\ UNCHANGED <<hourTip, raises>>
         \/ \* nothing there, or nothing to do
            /\ ~seenOpen /\ h \notin a.st.pending
            /\ raw[h] = 0 \/ (hourTip[h] > 0 /\ h \notin a.st.dirty)
            /\ act' = [act EXCEPT !["tick"] = [rest EXCEPT !.last = h, !.st = Done(a.st)]]
            /\ UNCHANGED <<hourTip, raises>>
         \/ \* refresh_window raises: the hour is kept dirty
            /\ ~seenOpen /\ raw[h] > 0 /\ (hourTip[h] = 0 \/ h \in a.st.dirty)
            /\ raises < MaxRaises /\ raises' = raises + 1
            /\ act' = [act EXCEPT !["tick"] = [rest EXCEPT !.last = h,
                                                           !.st.dirty = @ \cup {h}]]
            /\ UNCHANGED hourTip
         \/ \* the tip is written, or only the cascade is left; then the parents
            /\ ~seenOpen
            /\ (raw[h] > 0 /\ (hourTip[h] = 0 \/ h \in a.st.dirty)) \/ h \in a.st.pending
            /\ hourTip' = [hourTip EXCEPT ![h] = IF h \in a.st.dirty \/ @ = 0 THEN raw[h] ELSE @]
            /\ act' = [act EXCEPT !["tick"] = [rest EXCEPT !.last = h, !.cur = h,
                                                           !.at = "cascade"]]
            /\ UNCHANGED raises
  /\ UNCHANGED <<hour, moment, raw, day, json, forgotten, rewritten, deaths, rebuilds>>

\* refresh_due on the 1h scale: as many windows as the budget allows.
NibbleHours ==
  /\ act["tick"].at = "nibble"
  /\ \E n \in 0 .. NibbleMax :
       hourTip' = [h \in Hours |-> IF h \in Oldest(Horizon(NibbleMax) \cap Has, n)
                                   THEN raw[h] ELSE hourTip[h]]
  /\ act' = [act EXCEPT !["tick"].at = "save", !["tick"].st.scale = "day"]
  /\ UNCHANGED <<hour, moment, raw, day, json, forgotten, rewritten, bounds>>

\* The budget is spent before the next hour.
BudgetStop(p) ==
  /\ act[p].at = "hour" /\ act[p].todo # {}
  /\ act' = [act EXCEPT ![p].at = "save", ![p].stop = Min(act[p].todo)]
  /\ UNCHANGED <<hour, moment, raw, hourTip, day, json, forgotten, rewritten, bounds>>

-----------------------------------------------------------------------------
(* cascade_from_hour and refresh_window on the day                         *)

Covered == day.tip

\* Where a thread goes on when the cascade of its current hour is complete.
Resume(p, a) ==
  LET h == a.cur
      s == [a.st EXCEPT !.pending = @ \ {h}, !.dirty = @ \ {h}]
  IN  IF p = "tick" /\ h = 0 THEN [a EXCEPT !.at = "save", !.st.scale = "hour"]
      ELSE IF p = "tick" THEN [a EXCEPT !.at = "hour", !.st = s, !.cur = 0]
      ELSE [a EXCEPT !.at = IF h = 0 THEN "save" ELSE "hour", !.cur = 0]

\* The tip and the children are read; equal children need no new version.
CascadeRead(p) ==
  /\ act[p].at = "cascade"
  /\ LET a == act[p]
         same == ~a.force /\ hourTip = Covered
         none == \A h \in Hours : hourTip[h] = 0
     IN  act' = [act EXCEPT ![p] = IF same \/ none THEN Resume(p, a)
                                   ELSE [a EXCEPT !.at = "mint", !.ver = day.n + 1,
                                                  !.seen = hourTip]]
  /\ UNCHANGED <<hour, moment, raw, hourTip, day, json, forgotten, rewritten, bounds>>

\* The body is made and the version put, under an id made of the number read.
Mint(p) ==
  /\ act[p].at = "mint"
  /\ LET a == act[p]
     IN  /\ day' = IF a.ver >= day.n THEN [n |-> a.ver, tip |-> a.seen] ELSE day
         /\ rewritten' = IF a.ver > day.n THEN rewritten ELSE rewritten \cup {a.ver}
         /\ act' = [act EXCEPT ![p] = Resume(p, [a EXCEPT !.ver = 0, !.seen = NoTips])]
  /\ UNCHANGED <<hour, moment, raw, hourTip, json, forgotten, bounds>>

\* An error in a parent is logged and the cascade counts as complete.
CascadeRaises(p) ==
  /\ act[p].at \in {"cascade", "mint"} /\ raises < MaxRaises /\ raises' = raises + 1
  /\ act' = [act EXCEPT ![p] = Resume(p, [act[p] EXCEPT !.ver = 0, !.seen = NoTips])]
  /\ UNCHANGED <<hour, moment, raw, hourTip, day, json, forgotten, rewritten, deaths, rebuilds>>

\* The budget is spent before the parents are done: the cascade stays pending.
CascadeStop ==
  /\ act["tick"].at = "cascade" /\ act["tick"].cur # 0
  /\ LET h == act["tick"].cur
     IN  act' = [act EXCEPT !["tick"].at = "save", !["tick"].stop = h,
                            !["tick"].st.pending = @ \cup {h}, !["tick"].st.dirty = @ \ {h}]
  /\ UNCHANGED <<hour, moment, raw, hourTip, day, json, forgotten, rewritten, bounds>>

-----------------------------------------------------------------------------
(* The rebuild                                                             *)

RebuildBegin ==
  /\ rebuilds < MaxRebuilds /\ rebuilds' = rebuilds + 1
  /\ act["rebuild"] = Off
  /\ Begin("rebuild", "hour", {h \in Closed : h >= hour - RebuildMax}, TRUE)
  /\ UNCHANGED <<hour, moment, raw, hourTip, day, json, forgotten, rewritten, raises, deaths>>

RebuildHour ==
  /\ act["rebuild"].at = "hour" /\ act["rebuild"].todo # {}
  /\ LET h == Min(act["rebuild"].todo)
     IN  IF raw[h] = 0
         THEN act' = [act EXCEPT !["rebuild"].todo = @ \ {h}] /\ UNCHANGED hourTip
         ELSE /\ hourTip' = [hourTip EXCEPT ![h] = raw[h]]
              /\ act' = [act EXCEPT !["rebuild"].todo = @ \ {h}, !["rebuild"].cur = h,
                                    !["rebuild"].at = "cascade"]
  /\ UNCHANGED <<hour, moment, raw, day, json, forgotten, rewritten, bounds>>

\* The hours are done: the open day once more.
RebuildDay ==
  /\ act["rebuild"].at = "hour" /\ act["rebuild"].todo = {}
  /\ act' = [act EXCEPT !["rebuild"].at = "cascade"]
  /\ UNCHANGED <<hour, moment, raw, hourTip, day, json, forgotten, rewritten, bounds>>

-----------------------------------------------------------------------------
(* save_ladder_state                                                       *)

CursorPast(a) ==   \* mutant: the cursor moves to the open hour also after a stop
  IF a.last # 0 /\ a.stop = 0 THEN Min({a.last + 1, a.now}) ELSE a.now

\* The cursor: the hour that was stopped at, past the last one examined, or
\* the open hour when there was none.
Cursor(a) ==
  IF a.stop # 0 THEN a.stop
  ELSE IF a.last # 0 THEN Min({a.last + 1, a.now}) ELSE a.now

Save(p) ==
  /\ IF p = "tick" THEN act[p].at = "save" \/ (act[p].at = "hour" /\ act[p].todo = {})
                   ELSE act[p].at = "save"
  /\ LET a == act[p]
         hourly == a.at = "hour" \/ a.stop # 0
     IN  json' = IF p = "rebuild" THEN [a.st EXCEPT !.last = a.now]
                 ELSE IF hourly THEN [a.st EXCEPT !.last = a.now, !.cursor = Cursor(a)]
                 ELSE a.st
  /\ forgotten' = forgotten \cup {h \in json.dirty \ json'.dirty : hourTip[h] < raw[h]}
                            \cup {h \in Has : h < hour - CatchupMax /\ hourTip[h] < raw[h]
                                              /\ h \notin json'.dirty}
  /\ act' = [act EXCEPT ![p] = Off]
  /\ UNCHANGED <<hour, moment, raw, hourTip, day, rewritten, bounds>>

\* The process dies: a moment that was running is never marked.
Dies ==
  /\ deaths < MaxDeaths /\ deaths' = deaths + 1
  /\ moment' = FALSE /\ act' = [p \in Actors |-> Off]
  /\ UNCHANGED <<hour, raw, hourTip, day, json, forgotten, rewritten, raises, rebuilds>>

-----------------------------------------------------------------------------
Init ==
  /\ hour = 1 /\ moment = FALSE /\ raw = [h \in Hours |-> 0]
  /\ hourTip = NoTips /\ day = [n |-> 0, tip |-> NoTips] /\ json = NewState
  /\ act = [p \in Actors |-> Off] /\ forgotten = {} /\ rewritten = {}
  /\ raises = 0 /\ deaths = 0 /\ rebuilds = 0

TickStep ==
  \/ TickBegin \/ TickHour \/ NibbleHours \/ CascadeRead("tick") \/ Mint("tick") \/ Save("tick")

RebuildStep ==
  \/ RebuildHour \/ RebuildDay \/ CascadeRead("rebuild") \/ Mint("rebuild") \/ Save("rebuild")

Next ==
  \/ WriteAtom \/ OpenMoment \/ Finalize \/ HourPasses \/ RebuildBegin \/ Dies
  \/ TickStep \/ RebuildStep \/ CascadeStop
  \/ \E p \in Actors : BudgetStop(p) \/ CascadeRaises(p)

\* Moments end; the idle tick comes again and gets through its hours sometimes,
\* and its nibble through all its windows; the rebuild's thread runs.
Fairness ==
  /\ WF_vars(Finalize) /\ WF_vars(RebuildStep)
  /\ SF_vars(TickBegin) /\ SF_vars(TickHour) /\ WF_vars(NibbleHours) /\ SF_vars(CascadeRead("tick"))
  /\ SF_vars(Mint("tick")) /\ WF_vars(Save("tick"))

Spec == Init /\ [][Next]_vars /\ Fairness

-----------------------------------------------------------------------------
(* Properties                                                              *)

\* The state is well formed; a summary covers atoms that exist.
TypeOK ==
  /\ hour \in Hours /\ \A h \in Hours : raw[h] \in 0 .. MaxAtoms /\ hourTip[h] \in 0 .. raw[h]
  /\ json.dirty \subseteq Hours /\ json.pending \subseteq Hours
  /\ json.cursor \in 0 .. MaxHour

\* Issues 2 and 3: the cursor never passes an hour that has atoms and no tip,
\* unless the hour is marked dirty (a refresh raised) or the mark was lost.
CursorSkipsNothing ==
  act["tick"] = Off =>
    \A h \in Has : h < json.cursor /\ hourTip[h] = 0 => h \in json.dirty \cup forgotten

Summarised == {h \in DOMAIN hourTip : hourTip[h] > 0}

\* Every closed hour is summarised at last, whatever raised, ran out of budget
\* or was rebuilt meanwhile, unless its dirty mark was lost.
HourSummarised ==
  \A h \in Hours : (h \in Closed /\ raw[h] > 0) ~> (h \in Summarised \cup forgotten)

\* Never rewrite previous version rows; tip moves on put (KD-TIP): a version of
\* a coarser summary, once put, is not changed by a later put.
VersionsImmutable == rewritten = {}

\* No closed hour is left behind the cursor without a summary or a dirty mark.
LadderSound == TypeOK /\ CursorSkipsNothing
=============================================================================
