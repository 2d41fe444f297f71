---------------------------- MODULE DeviceLogin ----------------------------
(***************************************************************************)
(* The device-code login (elyra/runtime/oauth_session.py, and the poll     *)
(* answers of llm/xai_oauth.py): start mints a code and starts a poller    *)
(* thread with a stop event of its own, cancel and a newer start set that  *)
(* event and wait at most two seconds, and the poller reports back only    *)
(* while its event is the session's.  Requests come from the threads of    *)
(* the HTTP server and may overlap.                                        *)
(***************************************************************************)
EXTENDS Integers, FiniteSets

CONSTANTS Requests,    \* threads of the HTTP server
          MaxStarts,   \* bound on sessions started
          MaxCancels,  \* bound on cancels
          MaxPolls     \* polls until the code expires

VARIABLES state,       \* what status() shows
          cur,         \* the session whose event is _poll_stop, 0 for none
          thread,      \* the session whose poller is _thread, 0 for none
          poller,      \* the poller of each session
          req,         \* the requests
          saved,       \* sessions whose tokens were persisted
          barred,      \* history: sessions cancelled or replaced before their poller saw a token
          crossed,     \* history: requests overlapped
          cancels

vars == <<state, cur, thread, poller, req, saved, barred, crossed, cancels>>

Sessions == 1..MaxStarts
NoPoller == [pc |-> "none", stop |-> FALSE, polls |-> 0]
Quiet == [pc |-> "idle", old |-> 0, thr |-> 0]
Started == Cardinality({s \in Sessions : poller[s].pc # "none"})
Gone == {"none", "gone"}

Init ==
    /\ state = "idle" /\ cur = 0 /\ thread = 0
    /\ poller = [s \in Sessions |-> NoPoller]
    /\ req = [r \in Requests |-> Quiet]
    /\ saved = {} /\ barred = {} /\ crossed = FALSE /\ cancels = 0

Overlap(r) == crossed' = (crossed \/ \E q \in Requests \ {r} : req[q].pc # "idle")
Signal(s) == IF s = 0 THEN poller ELSE [poller EXCEPT ![s].stop = TRUE]
Bar(s) == IF s # 0 /\ poller[s].pc \in {"loop", "asked", "wait"} THEN barred \cup {s} ELSE barred
\* A join ends when the poller does, or after two seconds, which only a
\* poller at the network or in its success callback outlasts.
Joined(s) == s # 0 => poller[s].pc \in Gone \cup {"asked", "ok"}

----------------------------------------------------------------------------
(* start *)

\* _stop_previous_poller
StartStops(r) ==
    /\ req[r].pc = "idle" /\ Started + Cardinality({q \in Requests : req[q].pc \in {"mint", "join"}}) < MaxStarts
    /\ Overlap(r)
    /\ poller' = Signal(cur) /\ barred' = Bar(cur)
    /\ req' = [req EXCEPT ![r] = [pc |-> "join", old |-> cur, thr |-> thread]]
    /\ cur' = 0 /\ thread' = 0
    /\ UNCHANGED <<state, saved, cancels>>

StartJoins(r) ==
    /\ req[r].pc = "join" /\ Joined(req[r].thr)
    /\ req' = [req EXCEPT ![r] = [Quiet EXCEPT !.pc = "mint"]]
    /\ UNCHANGED <<state, cur, thread, poller, saved, barred, crossed, cancels>>

\* request_device_code answers, and the session and its poller are set up.
StartMints(r) ==
    /\ req[r].pc = "mint"
    /\ LET s == Started + 1 IN
       /\ cur' = s /\ thread' = s
       /\ poller' = [poller EXCEPT ![s] = [pc |-> "loop", stop |-> FALSE, polls |-> 0]]
    /\ state' = "pending"
    /\ req' = [req EXCEPT ![r] = Quiet]
    /\ UNCHANGED <<saved, barred, crossed, cancels>>

StartFails(r) ==
    /\ req[r].pc = "mint"
    /\ state' = "error" /\ req' = [req EXCEPT ![r] = Quiet]
    /\ UNCHANGED <<cur, thread, poller, saved, barred, crossed, cancels>>

(* cancel *)

CancelBegins(r) ==
    /\ req[r].pc = "idle" /\ cancels < MaxCancels /\ cancels' = cancels + 1
    /\ Overlap(r)
    /\ req' = [req EXCEPT ![r] = [pc |-> "cancel", old |-> cur, thr |-> thread]]
    /\ state' = "cancelled"
    /\ poller' = Signal(cur) /\ barred' = Bar(cur)
    /\ UNCHANGED <<cur, thread, saved>>

CancelEnds(r) ==
    /\ req[r].pc = "cancel" /\ Joined(req[r].thr)
    /\ thread' = IF thread = req[r].thr THEN 0 ELSE thread
    /\ cur' = IF cur = req[r].old THEN 0 ELSE cur
    /\ state' = "cancelled"
    /\ req' = [req EXCEPT ![r] = Quiet]
    /\ UNCHANGED <<poller, saved, barred, crossed, cancels>>

----------------------------------------------------------------------------
(* _poll_loop *)

To(s, pc) == poller' = [poller EXCEPT ![s].pc = pc]
Report(s, st) == state' = IF cur = s THEN st ELSE state

\* MUTANT: the code's expiry ends the poller without a word.
PollBeginsSilent(s) ==
    /\ poller[s].pc = "loop"
    /\ IF poller[s].stop \/ poller[s].polls = MaxPolls THEN To(s, "gone")
       ELSE poller' = [poller EXCEPT ![s].pc = "asked", ![s].polls = @ + 1]
    /\ UNCHANGED <<state, cur, thread, req, saved, barred, crossed, cancels>>

\* The event and the deadline are looked at before every request.
PollBegins(s) ==
    /\ poller[s].pc = "loop"
    /\ IF poller[s].stop THEN To(s, "gone") /\ UNCHANGED state
       ELSE IF poller[s].polls = MaxPolls THEN To(s, "gone") /\ Report(s, "error")
       ELSE poller' = [poller EXCEPT ![s].pc = "asked", ![s].polls = @ + 1] /\ UNCHANGED state
    /\ UNCHANGED <<cur, thread, req, saved, barred, crossed, cancels>>

\* _token_poll_result_from_body: a token; pending, slow_down or a network
\* error; a denial, an expired code or any other error.
PollAnswers(s) ==
    /\ poller[s].pc = "asked"
    /\ IF poller[s].stop THEN To(s, "gone") /\ UNCHANGED state
       ELSE \/ To(s, "ok") /\ UNCHANGED state
            \/ To(s, "wait") /\ UNCHANGED state
            \/ To(s, "gone") /\ Report(s, "error")
    /\ UNCHANGED <<cur, thread, req, saved, barred, crossed, cancels>>

\* stop.wait(interval)
PollWaits(s) ==
    /\ poller[s].pc = "wait"
    /\ To(s, IF poller[s].stop THEN "gone" ELSE "loop")
    /\ UNCHANGED <<state, cur, thread, req, saved, barred, crossed, cancels>>

\* _handle_success: complete_oauth_login persists the tokens (or raises),
\* then the state is set if the session is still this one.
PollSucceeds(s) ==
    /\ poller[s].pc = "ok" /\ To(s, "gone")
    /\ \/ saved' = saved \cup {s} /\ Report(s, "success")
       \/ UNCHANGED saved /\ Report(s, "error")
    /\ UNCHANGED <<cur, thread, req, barred, crossed, cancels>>

Poller(s) == PollBegins(s) \/ PollAnswers(s) \/ PollWaits(s) \/ PollSucceeds(s)
Handler(r) == StartJoins(r) \/ StartMints(r) \/ StartFails(r) \/ CancelEnds(r)

Next ==
    \/ \E r \in Requests : StartStops(r) \/ CancelBegins(r) \/ Handler(r)
    \/ \E s \in Sessions : Poller(s)

\* Threads keep running; requests to the service are answered or time out.
Fairness ==
    /\ \A r \in Requests : WF_vars(Handler(r))
    /\ \A s \in Sessions : WF_vars(Poller(s))

Spec == Init /\ [][Next]_vars /\ Fairness

----------------------------------------------------------------------------
(* Properties. *)

\* Every variable stays in its domain (OAuthDeviceSession's fields), and a
\* pending status has a session or a request that is making one.
TypeOK ==
    /\ state = "pending" => cur # 0 \/ \E r \in Requests : req[r].pc # "idle"
    /\ state \in {"idle", "pending", "success", "error", "cancelled"}
    /\ cur \in {0} \cup Sessions /\ thread \in {0} \cup Sessions
    /\ poller \in [Sessions -> [pc : {"none", "loop", "asked", "ok", "wait", "gone"}, stop : BOOLEAN, polls : 0..MaxPolls]]
    /\ req \in [Requests -> [pc : {"idle", "join", "mint", "cancel"}, old : {0} \cup Sessions, thr : {0} \cup Sessions]]
    /\ saved \subseteq Sessions /\ barred \subseteq Sessions /\ crossed \in BOOLEAN /\ cancels \in 0..MaxCancels

\* A session that was cancelled or replaced before its poller held a token
\* never logs anybody in, however late the service answers (the two looks
\* at the event in _poll_loop).
CancelHolds == saved \cap barred = {}

\* The status never shows a login of another session than the current one:
\* success means that this session's tokens were persisted, and a pending
\* session has a poller at work (_handle_success, _set_terminal and cancel
\* compare the event under the lock).
StatusIsCurrent ==
    /\ state = "success" => cur \in saved \/ (cur = 0 /\ \E r \in Requests : req[r].pc # "idle")
    /\ (state = "pending" /\ ~crossed /\ \A r \in Requests : req[r].pc = "idle")
           => cur # 0 /\ poller[cur].pc \notin Gone /\ ~poller[cur].stop

\* One poller at a time: all others have been told to stop, unless two
\* requests overlapped.
OneLivePoller == crossed \/ Cardinality({s \in Sessions : poller[s].pc \notin Gone /\ ~poller[s].stop}) <= 1

\* A pending login comes to an end: granted, refused, expired, cancelled.
PendingEnds == (state = "pending") ~> (state # "pending")

\* A cancelled login stays cancelled, the status is that of the newest session,
\* one poller is live, and no login stays pending for ever.
LoginPromise ==
  [](TypeOK /\ CancelHolds /\ StatusIsCurrent /\ OneLivePoller) /\ PendingEnds
=============================================================================
