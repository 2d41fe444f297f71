-------------------------------- MODULE Browser --------------------------------
(***************************************************************************)
(* Browser sessions (elyra/tools/browser_sessions.py, builtin/browser.py). *)
(* Playwright's synchronous API may only be used from one thread, so every *)
(* operation is a job in the queue of the browser thread; the caller waits *)
(* for it and gives up after a timeout, while the job still runs.  A slot  *)
(* is reserved before a launch and given back when it is settled, by the   *)
(* caller or by the callback of a launch that ended too late.  The caller  *)
(* is the presence worker; at shutdown the supervisor closes what is left. *)
(***************************************************************************)
EXTENDS Naturals, FiniteSets, Sequences

CONSTANTS MaxSessions, \* MAX_SESSIONS
          MaxJobs,     \* jobs ever submitted; a session is named by its launch
          MaxTimeouts, \* waits that end too early
          MaxFaults    \* jobs that fail, pages that change on their own

Callers == {"worker", "supervisor"}
Ids == 1 .. MaxJobs

VARIABLES sessions, \* _sessions: the ids registered
          pending,  \* _pending_opens
          alive,    \* sessions whose Chromium runs
          queue,    \* the browser thread's queue, of jobs [n, k, s]
          running,  \* the job it executes, or NoJob
          outcome,  \* settled jobs: n -> did it succeed
          late,     \* jobs whose caller has left its callback
          call,     \* what each caller does
          stopping, \* the supervisor has asked the worker to stop
          refs,     \* session.refs: the state of the page they describe, 0 none
          dom,      \* the state of the page
          zombies,  \* browsers whose teardown or abort failed
          crossed,  \* an abort ran on the thread of a caller
          lag,      \* sessions whose page changed behind their references
          acted,    \* references used: the state described and the state met
          jobs, timeouts, faults

vars == <<sessions, pending, alive, queue, running, outcome, late, call,
          stopping, refs, dom, lag, zombies, crossed, acted, jobs, timeouts, faults>>

NoJob == [n |-> 0, k |-> "none", s |-> 0]

\* A caller that is not in the middle of an operation.
Rests(pc) == [pc |-> pc, n |-> 0, k |-> "none", s |-> 0, left |-> {}, force |-> FALSE, end |-> pc]
Free == Rests("free")
Ended == Rests("ended")

Init == /\ sessions = {} /\ pending = 0 /\ alive = {} /\ queue = <<>>
        /\ running = NoJob /\ outcome = <<>> /\ late = {}
        /\ call = [c \in Callers |-> IF c = "worker" THEN Free ELSE Rests("asleep")]
        /\ stopping = FALSE
        /\ refs = [s \in Ids |-> 0] /\ dom = [s \in Ids |-> 1]
        /\ lag = {} /\ zombies = {} /\ crossed = FALSE /\ acted = {}
        /\ jobs = 0 /\ timeouts = 0 /\ faults = 0

Page == <<refs, dom, lag, acted>>
Fault == faults < MaxFaults /\ faults' = faults + 1

(* BrowserThread.submit: the job is queued and its future waited for. *)
Submit(c, k, s, left, force, end) ==
    /\ jobs < MaxJobs /\ jobs' = jobs + 1
    /\ queue' = Append(queue, [n |-> jobs + 1, k |-> k, s |-> s])
    /\ call' = [call EXCEPT ![c] = [pc |-> "wait", n |-> jobs + 1, k |-> k, s |-> s,
                                    left |-> left, force |-> force, end |-> end]]

(* BrowserSessionManager.open up to the hop. *)
Open ==
    /\ call["worker"] = Free /\ ~stopping
    /\ Cardinality(sessions) + pending < MaxSessions
    /\ pending' = pending + 1
    /\ Submit("worker", "launch", jobs + 1, {}, FALSE, "free")
    /\ UNCHANGED <<sessions, alive, running, outcome, late, stopping, zombies, crossed, timeouts, faults, Page>>

(* goto, snapshot, click and type_text: one hop each.  A session that is    *)
(* not known is refused by the job itself.                                  *)
Operate ==
    /\ call["worker"] = Free /\ ~stopping
    /\ \E k \in {"goto", "snap", "act"}, s \in sessions :
          Submit("worker", k, s, {}, FALSE, "free")
    /\ UNCHANGED <<sessions, pending, alive, running, outcome, late, stopping, zombies, crossed, timeouts, faults, Page>>

(* close, close_for_moment and close_all: the sessions known now, one after *)
(* the other; the teardown is a hop.                                        *)
CloseNext(c, left, force, end) ==
    LET todo == left \cap sessions IN
    IF todo = {} THEN call' = [call EXCEPT ![c] = Rests(end)] /\ UNCHANGED <<queue, jobs>>
    ELSE \E s \in todo : Submit(c, "teardown", s, todo \ {s}, force, end)

Close ==
    /\ call["worker"] = Free /\ sessions # {}
    /\ \/ \E s \in sessions : CloseNext("worker", {s}, FALSE, "free")
       \/ CloseNext("worker", sessions, TRUE, "free")
    /\ UNCHANGED <<sessions, pending, alive, running, outcome, late, stopping, zombies, crossed, timeouts, faults, Page>>

(* The end of the worker's thread, and of the supervisor's shutdown after   *)
(* the join, which may have timed out.                                      *)
Stop == /\ ~stopping /\ stopping' = TRUE
        /\ UNCHANGED <<sessions, pending, alive, queue, running, outcome, late, call, zombies, crossed, jobs, timeouts, faults, Page>>

WorkerEnds ==
    /\ stopping /\ call["worker"] = Free
    /\ CloseNext("worker", sessions, TRUE, "ended")
    /\ UNCHANGED <<sessions, pending, alive, running, outcome, late, stopping, zombies, crossed, timeouts, faults, Page>>

SupervisorCloses ==
    /\ stopping /\ call["supervisor"].pc = "asleep"
    /\ \/ call["worker"] = Ended /\ UNCHANGED timeouts
       \/ call["worker"] # Ended /\ timeouts < MaxTimeouts /\ timeouts' = timeouts + 1
    /\ CloseNext("supervisor", sessions, TRUE, "ended")
    /\ UNCHANGED <<sessions, pending, alive, running, outcome, late, stopping, zombies, crossed, faults, Page>>

(* The browser thread: _run. *)
Take ==
    /\ running = NoJob /\ queue # <<>>
    /\ running' = Head(queue) /\ queue' = Tail(queue)
    /\ UNCHANGED <<sessions, pending, alive, outcome, late, call, stopping, zombies, crossed, jobs, timeouts, faults, Page>>

Settle(ok) == /\ outcome' = [n \in DOMAIN outcome \cup {running.n} |->
                                IF n = running.n THEN ok ELSE outcome[n]]
              /\ running' = NoJob
              /\ UNCHANGED <<sessions, queue, call, stopping, crossed, jobs, timeouts>>

FinishLaunchLeaky ==                                             \* MUTANT
    /\ running.k = "launch"
    /\ alive' = alive \cup {running.s} /\ UNCHANGED <<faults, zombies>>
    /\ pending' = IF running.n \in late THEN pending - 1 ELSE pending
    /\ Settle(TRUE) /\ UNCHANGED <<late, Page>>

(* A launch succeeds.  The callback of a caller that has gone aborts it and *)
(* frees the slot.                                                          *)
FinishLaunch ==
    /\ running.k = "launch"
    /\ LET gone == running.n \in late IN
       /\ pending' = IF gone THEN pending - 1 ELSE pending
       /\ \/ /\ alive' = IF gone THEN alive ELSE alive \cup {running.s}
             /\ UNCHANGED <<faults, zombies>>
          \/ /\ gone /\ Fault
             /\ alive' = alive \cup {running.s} /\ zombies' = zombies \cup {running.s}
    /\ Settle(TRUE) /\ UNCHANGED <<late, Page>>

(* _default_launch closes what it had opened when it fails. *)
LaunchFails ==
    /\ running.k = "launch" /\ Fault /\ Settle(FALSE)
    /\ pending' = IF running.n \in late THEN pending - 1 ELSE pending
    /\ UNCHANGED <<alive, zombies, late, Page>>

(* _teardown: context, browser and playwright, and a kill as a last resort. *)
FinishTeardown ==
    /\ running.k = "teardown"
    /\ \/ /\ alive' = alive \ {running.s} /\ zombies' = zombies \ {running.s}
          /\ UNCHANGED faults /\ Settle(TRUE)
       \/ /\ Fault /\ UNCHANGED alive /\ Settle(FALSE)
          /\ zombies' = zombies \cup {running.s}
    /\ refs' = [refs EXCEPT ![running.s] = 0]
    /\ UNCHANGED <<pending, late, dom, lag, acted>>

Known == running.s \in sessions /\ running.s \in alive

(* goto clears the references before it navigates, and may fail halfway. *)
FinishGoto ==
    /\ running.k = "goto"
    /\ IF Known
       THEN /\ refs' = [refs EXCEPT ![running.s] = 0]
            /\ \/ dom' = [dom EXCEPT ![running.s] = @ + 1] /\ Settle(TRUE) /\ UNCHANGED faults
               \/ Fault /\ dom' \in {dom, [dom EXCEPT ![running.s] = @ + 1]} /\ Settle(FALSE)
       ELSE Settle(FALSE) /\ UNCHANGED <<refs, dom, faults>>
    /\ UNCHANGED <<pending, alive, late, zombies, lag, acted>>

FinishSnap ==
    /\ running.k = "snap"
    /\ IF Known
       THEN \/ /\ refs' = [refs EXCEPT ![running.s] = dom[running.s]]
               /\ lag' = lag \ {running.s} /\ Settle(TRUE) /\ UNCHANGED faults
            \/ Fault /\ Settle(FALSE) /\ UNCHANGED <<refs, lag>>
       ELSE Settle(FALSE) /\ UNCHANGED <<refs, lag, faults>>
    /\ UNCHANGED <<pending, alive, late, zombies, dom, acted>>

(* _locator_for_ref: the element is looked up on the page by what the last  *)
(* snapshot said of it.                                                     *)
Used(s) == IF s \in lag THEN {} ELSE {<<refs[s], dom[s]>>}

(* click and type_text: _locator_for_ref refuses a reference that is not of *)
(* the last snapshot; a success drops the references, as the page may have  *)
(* changed; a failure keeps them.                                           *)
FinishAct ==
    /\ running.k = "act"
    /\ IF Known /\ refs[running.s] # 0
       THEN /\ acted' = acted \cup Used(running.s)
            /\ \/ /\ dom' = [dom EXCEPT ![running.s] = @ + 1]
                  /\ refs' = [refs EXCEPT ![running.s] = 0]
                  /\ Settle(TRUE) /\ UNCHANGED <<faults, lag>>
               \/ /\ Fault /\ Settle(FALSE) /\ UNCHANGED refs
                  /\ dom' = [dom EXCEPT ![running.s] = @ + 1]
                  /\ lag' = lag \cup {running.s}
       ELSE Settle(FALSE) /\ UNCHANGED <<refs, dom, lag, acted, faults>>
    /\ UNCHANGED <<pending, alive, late, zombies>>

(* The page changes by itself. *)
PageMoves ==
    /\ \E s \in alive : dom' = [dom EXCEPT ![s] = @ + 1] /\ lag' = lag \cup {s}
    /\ Fault
    /\ UNCHANGED <<sessions, pending, alive, queue, running, outcome, late, call, stopping, refs, zombies, crossed, acted, jobs, timeouts>>

(* The wait of the caller ends with the job.  open registers the session.   *)
OpenReturns ==
    /\ call["worker"].pc = "wait" /\ call["worker"].k = "launch"
    /\ call["worker"].n \in DOMAIN outcome
    /\ sessions' = IF outcome[call["worker"].n] THEN sessions \cup {call["worker"].s} ELSE sessions
    /\ pending' = pending - 1 /\ call' = [call EXCEPT !["worker"] = Free]
    /\ UNCHANGED <<alive, queue, running, outcome, late, stopping, zombies, crossed, jobs, timeouts, faults, Page>>

OperationReturns ==
    /\ call["worker"].pc = "wait" /\ call["worker"].k \in {"goto", "snap", "act"}
    /\ call["worker"].n \in DOMAIN outcome
    /\ call' = [call EXCEPT !["worker"] = Free]
    /\ UNCHANGED <<sessions, pending, alive, queue, running, outcome, late, stopping, zombies, crossed, jobs, timeouts, faults, Page>>

(* The second half of close: a teardown that worked, or force, frees the    *)
(* slot; otherwise the session stays for a retry.                           *)
Freed(c, ok) ==
    sessions' = IF ok \/ call[c].force THEN sessions \ {call[c].s} ELSE sessions

\* on to the next session, if any
GoOn(c) == call' = [call EXCEPT ![c].pc = "next", ![c].n = 0, ![c].k = "none", ![c].s = 0]

CloseReturns(c) ==
    /\ call[c].pc = "wait" /\ call[c].k = "teardown" /\ call[c].n \in DOMAIN outcome
    /\ Freed(c, outcome[call[c].n])
    /\ GoOn(c)
    /\ UNCHANGED <<pending, alive, queue, running, outcome, late, stopping, zombies, crossed, jobs, timeouts, faults, Page>>

Continue(c) ==
    /\ call[c].pc = "next"
    /\ CloseNext(c, call[c].left, call[c].force, call[c].end)
    /\ UNCHANGED <<sessions, pending, alive, running, outcome, late, stopping, zombies, crossed, timeouts, faults, Page>>

(* The wait times out; the callback is attached only afterwards, and runs   *)
(* at once on this thread when the job ended in between.  There Playwright  *)
(* refuses the abort, which swallows it.                                    *)
TimeOut(c) ==
    /\ call[c].pc = "wait" /\ call[c].n \notin DOMAIN outcome
    /\ timeouts < MaxTimeouts /\ timeouts' = timeouts + 1
    /\ call' = [call EXCEPT ![c].pc = "gap"]
    /\ UNCHANGED <<sessions, pending, alive, queue, running, outcome, late, stopping, zombies, crossed, jobs, faults, Page>>

Attach(c) ==
    /\ call[c].pc = "gap"
    /\ LET j == call[c]
           settled == j.n \in DOMAIN outcome
       IN CASE j.k = "launch" ->
                 /\ late' = IF settled THEN late ELSE late \cup {j.n}
                 /\ pending' = IF settled THEN pending - 1 ELSE pending
                 /\ crossed' = (crossed \/ (settled /\ outcome[j.n]))
                 /\ zombies' = IF settled /\ outcome[j.n] THEN zombies \cup {j.s} ELSE zombies
                 /\ call' = [call EXCEPT ![c] = Free] /\ UNCHANGED sessions
            [] j.k = "teardown" ->
                 /\ Freed(c, FALSE)
                 /\ GoOn(c)
                 /\ UNCHANGED <<late, pending, crossed, zombies>>
            [] OTHER -> /\ call' = [call EXCEPT ![c] = Free]
                        /\ UNCHANGED <<late, pending, crossed, zombies, sessions>>
    /\ UNCHANGED <<alive, queue, running, outcome, stopping, jobs, timeouts, faults, Page>>

Next == \/ Open \/ Operate \/ Close \/ Stop \/ WorkerEnds \/ SupervisorCloses
        \/ Take \/ FinishLaunch \/ LaunchFails \/ FinishTeardown \/ FinishGoto \/ FinishSnap \/ FinishAct \/ PageMoves
        \/ OpenReturns \/ OperationReturns
        \/ \E c \in Callers : CloseReturns(c) \/ Continue(c) \/ TimeOut(c) \/ Attach(c)

Spec == Init /\ [][Next]_vars

-----------------------------------------------------------------------------
(* The kinds of value the fields hold. *)
TypeOK == /\ sessions \subseteq Ids /\ alive \subseteq Ids /\ zombies \subseteq Ids
          /\ pending \in 0 .. MaxSessions
          /\ \A i \in 1 .. Len(queue) : queue[i].n \in Ids
          /\ DOMAIN outcome \subseteq Ids /\ late \subseteq Ids
          /\ refs \in [Ids -> Nat]

Launching == {n \in Ids : \/ running.k = "launch" /\ running.n = n
                          \/ \E i \in 1 .. Len(queue) : queue[i].k = "launch" /\ queue[i].n = n
                          \/ /\ call["worker"].pc \in {"wait", "gap"}
                             /\ call["worker"].k = "launch" /\ call["worker"].n = n}

(* Every slot reserved belongs to a launch that is not settled, however its *)
(* wait ended: none is lost and none given back twice (_pending_opens).     *)
SlotsExact == pending = Cardinality(Launching)

(* No more browsers run than there are sessions allowed, except those whose *)
(* teardown failed and that were let go by force.                           *)
BrowsersBounded == Cardinality(alive \ zombies) <= MaxSessions

(* A browser that runs is registered, or a job or a caller is about to deal *)
(* with it: a launch that ends after its caller left does not leak.         *)
NoOrphan == \A s \in alive \ zombies :
    \/ s \in sessions \/ s \in Launching
    \/ running.k = "teardown" /\ running.s = s
    \/ \E i \in 1 .. Len(queue) : queue[i].k = "teardown" /\ queue[i].s = s

(* Once the worker and the supervisor have ended and the queue is empty, no *)
(* browser is left but those that refused to close.                         *)
ShutdownCloses ==
    /\ \A c \in Callers : call[c] = Ended
    /\ queue = <<>> /\ running = NoJob
    => sessions = {} /\ alive \subseteq zombies

(* A reference is used only on the state of the page its snapshot showed,   *)
(* also when a timed-out operation ends after the next was asked for; a     *)
(* failed operation and a page that moves by itself excepted.               *)
RefsAreCurrent == \A a \in acted : a[1] = a[2]

\* With callers that give up and jobs that end too late: slots are counted exactly,
\* browsers are bounded and none is orphaned, a shutdown closes all, and the
\* references the agent holds are those of the page.
SessionsExact ==
  TypeOK /\ SlotsExact /\ BrowsersBounded /\ NoOrphan /\ ShutdownCloses /\ RefsAreCurrent
=============================================================================
