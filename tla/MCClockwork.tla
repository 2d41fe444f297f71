----------------------------- MODULE MCClockwork -----------------------------
(***************************************************************************)
(* What the clock sets off: the timers and waits, which this module        *)
(* extends, and the ladder of hourly and daily summaries that an idle      *)
(* worker mints.  A behaviour exercises the component that focus names and *)
(* leaves the other as it starts.  The ladder has two instances: three     *)
(* hours with a death, and two hours with a rebuild.                       *)
(***************************************************************************)
EXTENDS TimerService

VARIABLES focus,  \* the component this behaviour is about
          hour, moment, raw, hourTip, day, json, act, forgotten, rewritten, raises, deaths,
          rebuilds

La == INSTANCE Ladder WITH
  MaxHour <- 3, CatchupMax <- 1, RebuildMax <- 2, NibbleMax <- 2, MaxAtoms <- 1,
  MaxRaises <- 0, MaxDeaths <- 1, MaxRebuilds <- 0
LaRebuild == INSTANCE Ladder WITH
  MaxHour <- 2, CatchupMax <- 1, RebuildMax <- 2, NibbleMax <- 2, MaxAtoms <- 1,
  MaxRaises <- 0, MaxDeaths <- 0, MaxRebuilds <- 1

laVars ==
  <<hour, moment, raw, hourTip, day, json, act, forgotten, rewritten, raises, deaths,
    rebuilds>>

ClockInit ==
  /\ focus \in {"timers", "ladder", "ladder rebuild"}
  /\ Init
  /\ IF focus = "ladder rebuild" THEN LaRebuild!Init ELSE La!Init

ClockNext ==
  /\ UNCHANGED focus
  /\ \/ /\ focus = "timers" /\ Next
        /\ UNCHANGED laVars
     \/ /\ focus = "ladder" /\ La!Next
        /\ UNCHANGED vars
     \/ /\ focus = "ladder rebuild" /\ LaRebuild!Next
        /\ UNCHANGED vars

ClockFairness ==
  /\ WF_vars(focus = "timers" /\ Poll)
  /\ WF_vars(focus = "timers" /\ EnqueueMarked)
  /\ WF_vars(focus = "timers" /\ Restart)
  /\ WF_vars(focus = "timers" /\ ResetStep)
  /\ \A S \in {Timers, Waits} : WF_vars(focus = "timers" /\ \E w \in Wakes : Mark(S, w))
  /\ \A S \in {Timers, Waits} : WF_vars(focus = "timers" /\ Reconcile(S))
  /\ \A S \in {Timers, Waits} : WF_vars(focus = "timers" /\ EndStage(S))
  /\ WF_vars(focus = "timers" /\ \E w \in Wakes : Reply(w))
  /\ WF_laVars(\/ focus = "ladder" /\ La!Finalize
               \/ focus = "ladder rebuild" /\ LaRebuild!Finalize)
  /\ WF_laVars(\/ focus = "ladder" /\ La!RebuildStep
               \/ focus = "ladder rebuild" /\ LaRebuild!RebuildStep)
  /\ SF_laVars(\/ focus = "ladder" /\ La!TickBegin
               \/ focus = "ladder rebuild" /\ LaRebuild!TickBegin)
  /\ SF_laVars(\/ focus = "ladder" /\ La!TickHour
               \/ focus = "ladder rebuild" /\ LaRebuild!TickHour)
  /\ WF_laVars(\/ focus = "ladder" /\ La!NibbleHours
               \/ focus = "ladder rebuild" /\ LaRebuild!NibbleHours)
  /\ SF_laVars(\/ focus = "ladder" /\ La!CascadeRead("tick")
               \/ focus = "ladder rebuild" /\ LaRebuild!CascadeRead("tick"))
  /\ SF_laVars(\/ focus = "ladder" /\ La!Mint("tick")
               \/ focus = "ladder rebuild" /\ LaRebuild!Mint("tick"))
  /\ WF_laVars(\/ focus = "ladder" /\ La!Save("tick")
               \/ focus = "ladder rebuild" /\ LaRebuild!Save("tick"))

ClockSpec == ClockInit /\ [][ClockNext]_<<vars, focus, laVars>> /\ ClockFairness

-----------------------------------------------------------------------------

(* Ladder *)

\* Every closed hour is summarised at last, whatever raised, ran out of budget
\* or was rebuilt meanwhile, unless its dirty mark was lost.
HourSummarised == La!HourSummarised

=============================================================================
