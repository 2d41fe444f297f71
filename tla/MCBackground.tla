---------------------------- MODULE MCBackground ----------------------------
(***************************************************************************)
(* The threads that work beside the presence worker, each on its own small *)
(* instance: background builds and their reaper, the keep-alive of the     *)
(* OAuth token, the device login, and the credits poller.  A behaviour     *)
(* exercises the component that focus names and leaves the others as they  *)
(* start.                                                                  *)
(***************************************************************************)
EXTENDS Naturals, Sequences

VARIABLES focus,  \* the component this behaviour is about
          meta, result, tokens, log, child, code, due, act, woken, usage, wakes, upset,
          jbFaults, deaths, bundle, key, pvSource, model, pvOk, http, flight, th, keepStop,
          keepCur, seen, life, issued, newest, revoked, told, out, raced, ops, pvFaults,
          state, cur, dlThread, poller, req, saved, barred, crossed, cancels, cpThread,
          stop, signal, recent, cpSource, src, unsupported, bills, applying, owed, torn,
          wrote, denied, starts, switches

Jb == INSTANCE Jobs WITH
  Job <- {1}, MaxFaults <- 1, MaxDeaths <- 1, faults <- jbFaults
Pv == INSTANCE Provider WITH
  MaxTok <- 3, MaxOps <- 0, MaxBusy <- 2, MaxFaults <- 1, source <- pvSource, ok <- pvOk,
  faults <- pvFaults
Dl == INSTANCE DeviceLogin WITH
  Requests <- {"r1", "r2"}, MaxStarts <- 2, MaxCancels <- 1, MaxPolls <- 2,
  thread <- dlThread
Cp == INSTANCE CreditsPoller WITH
  MaxSwitches <- 2, MaxStarts <- 2, thread <- cpThread, source <- cpSource

jbVars ==
  <<meta, result, tokens, log, child, code, due, act, woken, usage, wakes, upset, jbFaults,
    deaths>>
pvVars ==
  <<bundle, key, pvSource, model, pvOk, http, flight, th, keepStop, keepCur, seen, life,
    issued, newest, revoked, told, out, raced, ops, pvFaults>>
dlVars ==
  <<state, cur, dlThread, poller, req, saved, barred, crossed, cancels>>
cpVars ==
  <<cpThread, stop, signal, recent, cpSource, src, unsupported, bills, applying, owed,
    torn, wrote, denied, starts, switches>>
vars == <<focus, jbVars, pvVars, dlVars, cpVars>>

Init ==
  /\ focus \in {"jobs", "keepalive", "login", "credits"}
  /\ Jb!Init
  /\ Pv!Init
  /\ (focus # "keepalive" => key = 0)
  /\ Dl!Init
  /\ Cp!Init
  /\ (focus # "credits" => cpSource = "oauth" /\ ~bills)

Next ==
  /\ UNCHANGED focus
  /\ \/ /\ focus = "jobs" /\ Jb!Next
        /\ UNCHANGED <<pvVars, dlVars, cpVars>>
     \/ /\ focus = "keepalive" /\ Pv!Next
        /\ UNCHANGED <<jbVars, dlVars, cpVars>>
     \/ /\ focus = "login" /\ Dl!Next
        /\ UNCHANGED <<jbVars, pvVars, cpVars>>
     \/ /\ focus = "credits" /\ Cp!Next
        /\ UNCHANGED <<jbVars, pvVars, dlVars>>

Fairness ==
  /\ WF_jbVars(focus = "jobs" /\ (Jb!ToolStep \/ Jb!EndStep("tool")))
  /\ WF_jbVars(focus = "jobs" /\ (Jb!ReaperStep \/ Jb!EndStep("reaper")))
  /\ WF_jbVars(focus = "jobs" /\ Jb!Overdue(1))
  /\ \A t \in Pv!Threads : WF_pvVars(focus = "keepalive" /\ Pv!Resolve(t))
  /\ \A t \in {"api", "login"} : WF_pvVars(focus = "keepalive" /\ Pv!Rebuild(t))
  /\ WF_pvVars(focus = "keepalive" /\ Pv!Keep)
  /\ WF_pvVars(focus = "keepalive" /\ (Pv!SwitchSource \/ Pv!SetModel))
  /\ WF_pvVars(focus = "keepalive" /\ Pv!LoginSource)
  /\ WF_pvVars(focus = "keepalive" /\ Pv!ChatRetry)
  /\ WF_pvVars(focus = "keepalive" /\ Pv!PollDone)
  /\ \A r \in {"r1", "r2"} : WF_dlVars(focus = "login" /\ Dl!Handler(r))
  /\ \A s \in Dl!Sessions : WF_dlVars(focus = "login" /\ Dl!Poller(s))
  /\ WF_cpVars(focus = "credits" /\ (Cp!Loop \/ Cp!Begin \/ Cp!Resolve \/ Cp!Fetch \/ Cp!Apply \/ Cp!Write))
  /\ WF_cpVars(focus = "credits" /\ Cp!Signalled)

Spec == Init /\ [][Next]_vars /\ Fairness

-----------------------------------------------------------------------------

(* Jobs *)

\* Whoever ends a job, the tool, the reaper or a restart, and in whatever order: it
\* is announced once, metered once, leaves no child and no token behind, is called
\* completed only if its child was seen to end well; and every job ends.
JobsPromise == Jb!JobsPromise

(* Provider *)

\* keep-alive: a live OAuth client whose credential was marked failed is
\* marked good again, without a restart, while the login is one the service
\* honours; or it is replaced, or another source is chosen.
KeepaliveRecovers == Pv!KeepaliveRecovers

(* DeviceLogin *)

\* A cancelled login stays cancelled, the status is that of the newest session,
\* one poller is live, and no login stays pending for ever.
LoginPromise == Dl!LoginPromise

(* CreditsPoller *)

\* The verdict on a key is that of the current source, a stopped poller applies
\* nothing, and every signal leads to a poll.
CreditsPromise == Cp!CreditsPromise

=============================================================================
