--------------------------- MODULE CreditsPoller ---------------------------
(***************************************************************************)
(* The thread that asks the billing service (elyra/runtime/                *)
(* credits_poller.py).  The status page signals it, at most once per       *)
(* threshold; it polls at its interval or when signalled, one poll at a    *)
(* time; an API key the service will not bill is not asked about again     *)
(* until the credential source changes; after a stop nothing is applied.   *)
(***************************************************************************)
EXTENDS Integers

CONSTANTS MaxSwitches,   \* bound on changes of the credential source
          MaxStarts      \* bound on starts

VARIABLES thread,        \* where the thread is
          stop,          \* the _stop event
          signal,        \* the _poll_requested event
          recent,        \* the last attempt is younger than the threshold
          source,        \* the credential source now
          src,           \* the source this poll read
          unsupported,   \* _api_key_unsupported (for the key source)
          bills,         \* external: whether the service bills the key
          applying,      \* the answer about to be applied
          owed,          \* history: a signal was accepted and no poll began since
          torn,          \* history: stop() has returned
          wrote,         \* history: an answer was applied after that
          denied,        \* history: the key was denied since the source was last changed, as polls saw it
          starts, switches

vars == <<thread, stop, signal, recent, source, src, unsupported, bills, applying, owed, torn, wrote, denied, starts, switches>>

Sources == {"oauth", "key"}

Init ==
    /\ thread = "none" /\ stop = FALSE /\ signal = FALSE /\ recent = FALSE
    /\ source \in Sources /\ src = "oauth" /\ unsupported = FALSE /\ bills \in BOOLEAN
    /\ applying = "none" /\ owed = FALSE /\ torn = FALSE /\ wrote = FALSE /\ denied = FALSE
    /\ starts = 0 /\ switches = 0

\* start: only when no thread is alive.
Start ==
    /\ thread = "none" /\ starts < MaxStarts /\ starts' = starts + 1
    /\ thread' = "loop" /\ stop' = FALSE /\ torn' = FALSE /\ owed' = FALSE
    /\ UNCHANGED <<signal, recent, source, src, unsupported, bills, applying, wrote, denied, switches>>

\* request_poll
RequestPoll ==
    /\ ~stop /\ ~recent /\ thread # "none"
    /\ signal' = TRUE /\ owed' = TRUE
    /\ UNCHANGED <<thread, stop, recent, source, src, unsupported, bills, applying, torn, wrote, denied, starts, switches>>

\* stop: both events; the join outwaits everything but the network.
StopSets ==
    /\ thread # "none" /\ ~stop
    /\ stop' = TRUE /\ signal' = TRUE
    /\ UNCHANGED <<thread, recent, source, src, unsupported, bills, applying, owed, torn, wrote, denied, starts, switches>>

StopReturns ==
    /\ stop /\ ~torn /\ thread \in {"none", "resolve", "fetch"}
    /\ torn' = TRUE
    /\ UNCHANGED <<thread, stop, signal, recent, source, src, unsupported, bills, applying, owed, wrote, denied, starts, switches>>

\* _run: the event is cleared before the poll, so that a signal that comes
\* during it stays set.
Loop ==
    /\ thread = "loop"
    /\ IF stop THEN thread' = "none" /\ UNCHANGED <<signal, owed>>
               ELSE thread' = "begin" /\ signal' = FALSE /\ owed' = FALSE
    /\ UNCHANGED <<stop, recent, source, src, unsupported, bills, applying, torn, wrote, denied, starts, switches>>

\* _do_poll up to the request: the verdict is dropped when the source has
\* changed, and used instead of a request while it stands.
Begin ==
    /\ thread = "begin"
    /\ recent' = TRUE /\ src' = source
    /\ denied' = (denied /\ source = "key")
    /\ unsupported' = (unsupported /\ source = "key")
    /\ thread' = IF unsupported' THEN "apply" ELSE "resolve"
    /\ applying' = IF thread' = "apply" THEN "unsupported" ELSE "none"
    /\ UNCHANGED <<stop, signal, source, bills, owed, torn, wrote, starts, switches>>

\* resolve_bearer raises or has no token: an error, but no verdict.
Resolve ==
    /\ thread = "resolve"
    /\ \/ thread' = "fetch" /\ UNCHANGED applying
       \/ thread' = "apply" /\ applying' = "error"
    /\ UNCHANGED <<stop, signal, recent, source, src, unsupported, bills, owed, torn, wrote, denied, starts, switches>>

\* fetch_billing: only the service's own refusal of a key is a verdict.
Fetch ==
    /\ thread = "fetch"
    /\ \E a \in (IF src = "key" /\ ~bills THEN {"unsupported"} ELSE {"ok"}) \cup {"error"} :
         /\ unsupported' = (unsupported \/ a = "unsupported")
         /\ denied' = (denied \/ a = "unsupported")
         /\ applying' = a
    /\ thread' = "apply"
    /\ UNCHANGED <<stop, signal, recent, source, src, bills, owed, torn, wrote, starts, switches>>

\* _apply: the look at the event ...
Apply ==
    /\ thread = "apply" /\ thread' = (IF stop THEN "none" ELSE "write")
    /\ applying' = IF stop THEN "none" ELSE applying
    /\ UNCHANGED <<stop, signal, recent, source, src, unsupported, bills, owed, torn, wrote, denied, starts, switches>>

\* MUTANT: the event is cleared when the poll is over.
WriteClears ==
    /\ thread = "write" /\ thread' = "wait" /\ applying' = "none"
    /\ wrote' = (wrote \/ torn) /\ signal' = FALSE
    /\ UNCHANGED <<stop, recent, source, src, unsupported, bills, owed, torn, denied, starts, switches>>

\* ... and the meter's apply_credits_snapshot (it may raise).
Write ==
    /\ thread = "write" /\ thread' = "wait" /\ applying' = "none"
    /\ wrote' = (wrote \/ torn)
    /\ UNCHANGED <<stop, signal, recent, source, src, unsupported, bills, owed, torn, denied, starts, switches>>

\* The wait ends by a signal or when the interval has passed.
Wake ==
    /\ thread = "wait"
    /\ thread' = IF stop THEN "none" ELSE "loop"
    /\ UNCHANGED <<stop, signal, recent, source, src, unsupported, bills, applying, owed, torn, wrote, denied, starts, switches>>

\* External: the threshold passes, the operator changes the source.
Threshold ==
    /\ recent /\ recent' = FALSE
    /\ UNCHANGED <<thread, stop, signal, source, src, unsupported, bills, applying, owed, torn, wrote, denied, starts, switches>>

Switch ==
    /\ switches < MaxSwitches /\ switches' = switches + 1
    /\ source' = IF source = "key" THEN "oauth" ELSE "key"
    /\ bills' \in BOOLEAN
    /\ UNCHANGED <<thread, stop, signal, recent, src, unsupported, applying, owed, torn, wrote, denied, starts>>

Signalled == thread = "wait" /\ signal /\ Wake

Next ==
    \/ Start \/ RequestPoll \/ StopSets \/ StopReturns \/ Loop \/ Begin \/ Resolve \/ Fetch \/ Apply \/ Write
    \/ Wake \/ Threshold \/ Switch

\* The thread runs, and a set event ends its wait; the interval alone is
\* not relied upon.
Fairness == WF_vars(Loop \/ Begin \/ Resolve \/ Fetch \/ Apply \/ Write) /\ WF_vars(Signalled)

Spec == Init /\ [][Next]_vars /\ Fairness

----------------------------------------------------------------------------
(* Properties. *)

\* Every variable stays in its domain (CreditsPoller's fields).
TypeOK ==
    /\ thread \in {"none", "loop", "begin", "resolve", "fetch", "apply", "write", "wait"}
    /\ {stop, signal, recent, unsupported, bills, owed, torn, wrote, denied} \subseteq BOOLEAN
    /\ {source, src} \subseteq Sources /\ applying \in {"none", "ok", "error", "unsupported"}
    /\ starts \in 0..MaxStarts /\ switches \in 0..MaxSwitches

\* The service is not asked about a key it has refused to bill until a poll
\* has seen another source, and it is asked again after that: the verdict
\* stands exactly as long as the refusal (_api_key_unsupported).
VerdictIsCurrent ==
    /\ thread = "fetch" /\ src = "key" => ~denied
    /\ thread = "apply" /\ applying = "unsupported" => denied

\* Nothing is applied once stop() has returned, however late the service
\* answers (the looks at _stop in _do_poll and _apply).
QuietAfterStop == ~wrote

\* A signal from the status page is followed by a poll, the one that comes
\* while a poll is under way included, or the poller is stopped.
SignalServed == owed ~> (~owed \/ stop)

\* The verdict on a key is that of the current source, a stopped poller applies
\* nothing, and every signal leads to a poll.
CreditsPromise ==
  [](TypeOK /\ VerdictIsCurrent /\ QuietAfterStop) /\ SignalServed
=============================================================================
