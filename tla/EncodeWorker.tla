---------------------------- MODULE EncodeWorker ----------------------------
(***************************************************************************)
(* Who polls the encode queue and who owns the embedder: the daemon thread *)
(* of memory/embed/worker.py, its restarts, the gap drain and the teardown *)
(* on the presence thread, and the embedder's load-and-publish protocol    *)
(* (presence/worker.py).  A poll is reduced to its steps; EncodeQueue      *)
(* models what one does to the store.                                      *)
(***************************************************************************)
EXTENDS Integers, FiniteSets

CONSTANTS
  MaxDeaths,    \* bound on deaths of the worker thread
  MaxRestarts   \* encode_worker_max_restarts

NoHandle == 0

VARIABLES
  thread,   \* the worker thread: where it is, or "absent" / "dead"
  bound,    \* the epoch its poll is bound to
  stop,     \* EncodeWorker._stop
  kept,     \* is _encode_worker set?
  presence, \* where the presence thread is
  epoch,    \* _encode_epoch
  shutting, \* _encode_shutting_down
  state,    \* _embedder_state
  emb,      \* _embedder: the published handle
  open,     \* handles open_encoder returned that are not closed
  using,    \* per poller: the raw handle its drain works with
  window,   \* restarts within the thrash window
  backoff,  \* is _encode_worker_next_restart_at in the future?
  deaths,   \* deaths of the worker thread so far
  loads,    \* handles made so far (names the next one)
  orphaned  \* history: the worker died while it was loading

worker == <<thread, bound, stop, kept>>
embedder == <<state, emb, open>>
restarts == <<window, backoff>>
vars == <<worker, presence, epoch, shutting, embedder, using, restarts, deaths, loads, orphaned>>

Pollers == {"worker", "gap"}
Polling == {"start", "scan", "load", "use"}

\* The step a poller is at; the gap drain runs on the presence thread.
At(p) == IF p = "worker" THEN thread ELSE presence

Goto(p, step) ==
  IF p = "worker" THEN thread' = step /\ UNCHANGED <<presence, bound, stop, kept>>
                  ELSE presence' = step /\ UNCHANGED worker

\* Where a poll returns to.
Rest(p) == IF p = "worker" THEN "wait" ELSE "loop"

\* EncodeWorker.is_alive of the handle that is kept.
Alive == kept /\ thread \notin {"absent", "dead"}

-----------------------------------------------------------------------------
(* _encode_poll_once                                                       *)

\* Only a poll bound to an epoch gives way to a stop or a shutdown.
Stale(p) == p = "worker" /\ bound # epoch

PollBegin(p) ==
  /\ At(p) = "start"
  /\ IF Stale(p) \/ (p = "worker" /\ shutting) THEN Goto(p, Rest(p)) ELSE Goto(p, "scan")
  /\ UNCHANGED <<epoch, shutting, embedder, using, restarts, deaths, loads, orphaned>>

\* Catch-up and scan are done: _ensure_embedder(role="loader").
Ensure(p) ==
  /\ At(p) = "scan"
  /\ \/ Stale(p) /\ Goto(p, Rest(p)) /\ UNCHANGED <<embedder, using>>
     \/ /\ ~Stale(p) /\ emb # NoHandle /\ state = "warm"
        /\ using' = [using EXCEPT ![p] = emb]
        /\ Goto(p, "use") /\ UNCHANGED embedder
     \/ /\ ~Stale(p) /\ ~(emb # NoHandle /\ state = "warm")
        /\ state \in {"failed", "loading"} \/ shutting
        /\ Goto(p, Rest(p)) /\ UNCHANGED <<embedder, using>>
     \/ /\ ~Stale(p) /\ state = "absent" /\ ~shutting
        /\ state' = "loading"
        /\ Goto(p, "load") /\ UNCHANGED <<emb, open, using>>
  /\ UNCHANGED <<epoch, shutting, restarts, deaths, loads, orphaned>>

\* open_encoder returned: publish only if the slot is still ours.
Loaded(p) ==
  /\ At(p) = "load"
  /\ loads' = loads + 1
  /\ LET h == loads + 1
     IN  \/ /\ ~shutting /\ state = "loading"
            /\ emb' = h /\ state' = "warm" /\ open' = open \cup {h}
            /\ using' = [using EXCEPT ![p] = h]
            /\ Goto(p, "use")
         \/ /\ shutting \/ state # "loading"
            /\ state' = IF state = "loading" THEN "absent" ELSE state
            /\ Goto(p, Rest(p))
            /\ UNCHANGED <<emb, open, using>>
  /\ UNCHANGED <<epoch, shutting, restarts, deaths, orphaned>>

\* open_encoder raised: failed for good, if the slot is still ours.
LoadFails(p) ==
  /\ At(p) = "load"
  /\ state' = IF state = "loading" THEN "failed" ELSE state
  /\ Goto(p, Rest(p))
  /\ UNCHANGED <<epoch, shutting, emb, open, using, restarts, deaths, loads, orphaned>>

\* The drain itself, after the last look at the epoch.
Drain(p) ==
  /\ At(p) = "use"
  /\ using' = [using EXCEPT ![p] = NoHandle]
  /\ Goto(p, Rest(p))
  /\ UNCHANGED <<epoch, shutting, embedder, restarts, deaths, loads, orphaned>>

-----------------------------------------------------------------------------
(* EncodeWorker._run                                                       *)

Tick ==
  /\ thread = "wait"
  /\ thread' = IF stop THEN "dead" ELSE "start"
  /\ UNCHANGED <<bound, stop, kept, presence, epoch, shutting, embedder, using, restarts,
                 deaths, loads, orphaned>>

\* Something _run does not catch ends the thread.
Dies ==
  /\ thread \in Polling \cup {"wait"} /\ deaths < MaxDeaths
  /\ thread' = "dead" /\ deaths' = deaths + 1
  /\ using' = [using EXCEPT !["worker"] = NoHandle]
  /\ orphaned' = (orphaned \/ thread = "load")
  /\ UNCHANGED <<bound, stop, kept, presence, epoch, shutting, embedder, restarts, loads>>

-----------------------------------------------------------------------------
(* The presence thread                                                     *)

\* The preload of _ensure_memory_store, if embed_preload is set, and then
\* _start_encode_worker_if_needed: no other thread is there yet.
StartWorker ==
  /\ presence = "boot"
  /\ presence' = "loop"
  /\ thread' = "wait" /\ bound' = epoch /\ stop' = FALSE /\ kept' = TRUE
  /\ \/ UNCHANGED <<embedder, loads>>
     \/ state' = "warm" /\ loads' = 1 /\ emb' = 1 /\ open' = {1}
     \/ state' = "failed" /\ UNCHANGED <<emb, open, loads>>
  /\ UNCHANGED <<epoch, shutting, using, restarts, deaths, orphaned>>

\* _maybe_restart_encode_worker: a dead worker is replaced under a new epoch.
Restart ==
  /\ presence = "loop" /\ ~Alive /\ ~backoff /\ window < MaxRestarts
  /\ epoch' = epoch + 1
  /\ thread' = "wait" /\ bound' = epoch' /\ stop' = FALSE /\ kept' = TRUE
  /\ window' = window + 1 /\ backoff' = TRUE
  /\ UNCHANGED <<presence, shutting, embedder, using, deaths, loads, orphaned>>

\* The thrash budget is spent: wait, do not restart in this iteration.
Throttle ==
  /\ presence = "loop" /\ ~Alive /\ ~backoff /\ window >= MaxRestarts
  /\ kept' = FALSE /\ backoff' = TRUE
  /\ UNCHANGED <<thread, bound, stop, presence, epoch, shutting, embedder, using, window,
                 deaths, loads, orphaned>>

BackoffEnds ==
  /\ backoff /\ backoff' = FALSE
  /\ UNCHANGED <<worker, presence, epoch, shutting, embedder, using, window, deaths, loads,
                 orphaned>>

WindowEndsAlive ==   \* mutant: the window is pruned only while the worker lives
  /\ window > 0 /\ Alive /\ window' = 0
  /\ UNCHANGED <<worker, presence, epoch, shutting, embedder, using, backoff, deaths, loads,
                 orphaned>>

\* Restarts older than encode_worker_restart_window_s no longer count.
WindowEnds ==
  /\ window > 0 /\ window' = 0
  /\ UNCHANGED <<worker, presence, epoch, shutting, embedder, using, backoff, deaths, loads,
                 orphaned>>

\* _gap_drain_if_needed: a poll of its own while the worker is not alive.
GapDrain ==
  /\ presence = "loop" /\ ~Alive /\ ~shutting
  /\ presence' = "start"
  /\ UNCHANGED <<worker, epoch, shutting, embedder, using, restarts, deaths, loads, orphaned>>

\* _shutdown_encode: flag, stop and join, close, in this order.
ShutdownBegin ==
  /\ presence = "loop"
  /\ shutting' = TRUE /\ epoch' = epoch + 1 /\ stop' = TRUE
  /\ presence' = "join"
  /\ UNCHANGED <<thread, bound, kept, embedder, using, restarts, deaths, loads, orphaned>>

\* join(20 s): the thread is dead, or is kept as a zombie.
Join ==
  /\ presence = "join"
  /\ presence' = "close"
  /\ kept' = Alive
  /\ UNCHANGED <<thread, bound, stop, epoch, shutting, embedder, using, restarts, deaths,
                 loads, orphaned>>

\* _close_embedder takes the state away from a loader that is still running.
Close ==
  /\ presence = "close"
  /\ presence' = "down"
  /\ open' = open \ {emb} /\ emb' = NoHandle /\ state' = "absent"
  /\ UNCHANGED <<worker, epoch, shutting, using, restarts, deaths, loads, orphaned>>

-----------------------------------------------------------------------------
Init ==
  /\ thread = "absent" /\ bound = 0 /\ stop = FALSE /\ kept = FALSE
  /\ presence = "boot" /\ epoch = 0 /\ shutting = FALSE
  /\ state = "absent" /\ emb = NoHandle /\ open = {}
  /\ using = [p \in Pollers |-> NoHandle]
  /\ window = 0 /\ backoff = FALSE /\ deaths = 0 /\ loads = 0 /\ orphaned = FALSE

PollStep(p) == PollBegin(p) \/ Ensure(p) \/ Loaded(p) \/ LoadFails(p) \/ Drain(p)

Next ==
  \/ \E p \in Pollers : PollStep(p)
  \/ Tick \/ Dies \/ StartWorker \/ Restart \/ Throttle \/ BackoffEnds
  \/ WindowEnds \/ GapDrain \/ ShutdownBegin \/ Join \/ Close
  \/ (presence = "down" /\ thread \in {"absent", "dead"} /\ UNCHANGED vars)

\* Threads that are not dead go on, the presence loop calls the restart in every
\* iteration, and time passes.
Fairness ==
  /\ \A p \in Pollers : WF_vars(PollStep(p))
  /\ WF_vars(Tick) /\ WF_vars(StartWorker) /\ SF_vars(Restart)
  /\ WF_vars(BackoffEnds) /\ WF_vars(WindowEnds) /\ WF_vars(Join) /\ WF_vars(Close)

Spec == Init /\ [][Next]_vars /\ Fairness

-----------------------------------------------------------------------------
(* Properties                                                              *)

\* The state is well formed, and a published embedder is one that is open.
TypeOK ==
  /\ thread \in {"absent", "wait", "dead"} \cup Polling
  /\ presence \in {"boot", "loop", "join", "close", "down"} \cup Polling
  /\ state \in {"absent", "loading", "warm", "failed"}
  /\ emb \in open \cup {NoHandle} /\ (state = "warm" <=> emb # NoHandle)
  /\ window \in 0 .. MaxRestarts

\* KD-E7: the worker and the gap drain never poll at the same time, whatever
\* dies and is restarted (EncodeQueue relies on it).
OnePoller == ~(thread \in Polling /\ presence \in Polling)

\* KD-E13: at most one embedder is open, and none is once the teardown is over
\* and the last thread has gone, also when it was still loading at the join.
NoEmbedderLeaks ==
  /\ Cardinality(open) <= 1
  /\ presence = "down" => emb = NoHandle
  /\ presence = "down" /\ thread \in {"absent", "dead"} => open = {}

\* The loading slot is held by a poller that is loading, unless the worker died
\* in the middle of open_encoder (then no loader ever gets it again).
LoadingHasLoader ==
  state = "loading" => thread = "load" \/ presence = "load" \/ orphaned

\* KD-E16: a dead worker is replaced, or the process is being torn down.
WorkerComesBack == (thread = "dead") ~> (Alive \/ shutting)

\* One thread polls at a time, no embedder is left open and no slot stays loading
\* without a loader; and a worker that died is replaced in the end.
WorkerPromise ==
  [](TypeOK /\ OnePoller /\ NoEmbedderLeaks /\ LoadingHasLoader) /\ WorkerComesBack
=============================================================================
