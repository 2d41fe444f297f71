------------------------------ MODULE Provider ------------------------------
(***************************************************************************)
(* The live credential and the chat client made from it                    *)
(* (elyra/runtime/provider_runtime.py), over the token bundle and the key  *)
(* file (llm/oauth_store.py, llm/auth.py), the refresh of an access token  *)
(* (llm/xai_oauth.py), the 401 retry of a chat call (llm/client.py) and    *)
(* the rebinding the credits poller asks for (runtime/credits_poller.py).  *)
(*                                                                         *)
(* The runtime's lock is never held over the network, so every operation   *)
(* is a chain of steps with the world moving in between: read the          *)
(* settings, resolve a bearer (one refresh at a time, under its own lock), *)
(* bind.  Operator requests run on one thread, a completed device login on *)
(* another, beside the keep-alive loop, a chat call and the poller.       *)
(*                                                                         *)
(* Access tokens are numbered as the service issues them; the refresh      *)
(* token issued with one carries its number and replaces the one before,   *)
(* and only the last access token is alive.                                *)
(***************************************************************************)
EXTENDS Integers, Sequences, FiniteSets

CONSTANTS MaxTok,     \* bound on the tokens the service issues
          MaxOps,     \* bound on operator requests and device logins
          MaxBusy,    \* bound on the threads that are in the middle of something
          MaxFaults   \* bound on lost answers and failed writes

VARIABLES bundle,     \* xai_oauth.json
          key,        \* the stored API key, 0 when there is none
          source, model, ok, http,   \* ProviderRuntime's fields; http is the client in use
          flight,     \* the thread that holds _refresh_lock
          th,         \* what every thread is in the middle of
          keepStop, keepCur,         \* the stop event, whether _oauth_keepalive_thread is set
          seen,       \* the poller's _last_access_token
          life, issued, newest, revoked,   \* external: the authorisation service
          told,       \* history: logins whose end was reported to a caller
          out,        \* history: a logout was the last thing done to the bundle
          raced,      \* history: operations overlapped that do not lock each other out
          ops, faults

vars == <<bundle, key, source, model, ok, http, flight, th, keepStop, keepCur, seen,
          life, issued, newest, revoked, told, out, raced, ops, faults>>
live == <<source, model, ok, http>>
service == <<life, issued, newest, revoked>>
bounds == <<ops, faults>>

Threads == {"api", "login", "chat", "poll", "keep"}
NoBundle == [login |-> 0, tok |-> 0, reauth |-> FALSE]
NoHttp == [src |-> "none", tok |-> <<"none", 0>>, model |-> 0]
Failed == [ok |-> FALSE, tok |-> <<"none", 0>>, rotated |-> FALSE, raised |-> FALSE]
Got(tok, rotated) == [ok |-> TRUE, tok |-> tok, rotated |-> rotated, raised |-> FALSE]
Raised == [Failed EXCEPT !.raised = TRUE]

\* pc, the operation, the source and model it read, the old credential_ok,
\* whether the client it took is still the one in use, its bundle, its result
Idle == [pc |-> "idle", do |-> "none", src |-> "none", mod |-> 0, was |-> TRUE, mine |-> FALSE,
         b |-> NoBundle, res |-> Failed]
Dead == [Idle EXCEPT !.pc = "dead"]

\* Age of a token: only the last one issued is alive.
Life(n) == IF n = issued THEN life ELSE "dead"

At(t, pc) == th[t].pc = pc
Go(t, pc) == th' = [th EXCEPT ![t].pc = pc]
Rest(t) == th' = [th EXCEPT ![t] = Idle]
Busy == {t \in {"api", "login"} : th[t].pc # "idle"}
Room == Cardinality({t \in Threads : th[t].pc \notin {"idle", "wait", "dead"}}) < MaxBusy
Refreshing == {t \in Threads \ {"api", "login"} : th[t].pc \in {"enter", "http", "have"}}

Init ==
    /\ bundle = [login |-> 1, tok |-> 1, reauth |-> FALSE]
    /\ key \in 0..1 /\ source \in {"oauth"} \cup (IF key = 1 THEN {"key"} ELSE {})
    /\ model = 1 /\ ok = TRUE
    /\ http = [src |-> source, tok |-> <<source, 1>>, model |-> 1]
    /\ flight = "none"
    /\ th = [t \in Threads |-> IF t = "keep" THEN [Idle EXCEPT !.pc = IF source = "oauth" THEN "wait" ELSE "dead"] ELSE Idle]
    /\ keepStop = FALSE /\ keepCur = (source = "oauth") /\ seen = <<"none", 0>>
    /\ life = "fresh" /\ issued = 1 /\ newest = <<1>> /\ revoked = {}
    /\ told = {} /\ out = FALSE /\ raced = FALSE
    /\ ops = 0 /\ faults = 0

----------------------------------------------------------------------------
(* Resolving a bearer. *)

\* resolve_bearer for the stored key; no lock.
ResolveKey(t) ==
    /\ At(t, "enter") /\ th[t].src = "key"
    /\ th' = [th EXCEPT ![t].pc = "have",
                        ![t].res = IF key = 0 THEN Failed ELSE Got(<<"key", key>>, FALSE)]
    /\ UNCHANGED <<bundle, key, live, flight, keepStop, keepCur, seen, service, told, out, raced, bounds>>

\* MUTANT: the refresh is not single-flight.
EnterUnlocked(t) ==
    /\ At(t, "enter") /\ th[t].src = "oauth"
    /\ LET b == bundle
           keeps == b.login # 0 /\ ~b.reauth /\ Life(b.tok) = "fresh" /\ th[t].do # "chat"
       IN
       IF b.login = 0 \/ b.reauth \/ keeps
         THEN /\ th' = [th EXCEPT ![t].pc = "have",
                                  ![t].res = IF keeps THEN Got(<<"oauth", b.tok>>, FALSE) ELSE Failed]
              /\ UNCHANGED flight
         ELSE /\ th' = [th EXCEPT ![t].pc = "http", ![t].b = b]
              /\ flight' = t
    /\ UNCHANGED <<bundle, key, live, keepStop, keepCur, seen, service, told, out, raced, bounds>>

\* _ensure_fresh_access_locked up to the request: a missing bundle or one
\* marked for a new login fails, a fresh token is returned unless the
\* caller forces a refresh (after a 401).
EnterRefresh(t) ==
    /\ At(t, "enter") /\ th[t].src = "oauth" /\ flight = "none"
    /\ LET b == bundle
           keeps == b.login # 0 /\ ~b.reauth /\ Life(b.tok) = "fresh" /\ th[t].do # "chat"
       IN
       IF b.login = 0 \/ b.reauth \/ keeps
         THEN /\ th' = [th EXCEPT ![t].pc = "have",
                                  ![t].res = IF keeps THEN Got(<<"oauth", b.tok>>, FALSE) ELSE Failed]
              /\ UNCHANGED flight
         ELSE /\ th' = [th EXCEPT ![t].pc = "http", ![t].b = b]
              /\ flight' = t
    /\ UNCHANGED <<bundle, key, live, keepStop, keepCur, seen, service, told, out, raced, bounds>>

Back(t, res) == /\ th' = [th EXCEPT ![t].pc = "have", ![t].res = res, ![t].b = NoBundle]
                /\ flight' = IF flight = t THEN "none" ELSE flight

Honoured(b) == b.login \notin revoked /\ newest[b.login] = b.tok

\* refresh_access_token succeeds: the new bundle replaces whatever the file
\* holds by now.
RefreshOk(t) ==
    /\ At(t, "http") /\ Honoured(th[t].b) /\ issued < MaxTok
    /\ LET n == issued + 1
           b == [login |-> th[t].b.login, tok |-> n, reauth |-> FALSE]
       IN /\ life' = "fresh" /\ issued' = n
          /\ newest' = [newest EXCEPT ![b.login] = n]
          /\ \/ bundle' = b /\ Back(t, Got(<<"oauth", n>>, TRUE)) /\ UNCHANGED faults
             \/ \* save_oauth_bundle raises: the token is gone
                /\ faults < MaxFaults /\ faults' = faults + 1
                /\ UNCHANGED bundle /\ Back(t, Raised)
    /\ UNCHANGED <<key, live, keepStop, keepCur, seen, revoked, told, out, raced, ops>>

\* invalid_grant: the bundle read before the request is written back with
\* reauth_required, with one retry; two failures raise.
RefreshDenied(t) ==
    /\ At(t, "http") /\ ~Honoured(th[t].b)
    /\ \/ /\ bundle' = [th[t].b EXCEPT !.reauth = TRUE]
          /\ told' = told \cup {th[t].b.login} /\ Back(t, Failed)
          /\ UNCHANGED faults
       \/ \* the disk refuses both times
          /\ faults < MaxFaults /\ faults' = faults + 1
          /\ Back(t, Raised) /\ UNCHANGED <<bundle, told>>
    /\ UNCHANGED <<key, live, keepStop, keepCur, seen, service, out, raced, ops>>

\* No answer: the old token is good for as long as it lives.
RefreshTransient(t) ==
    /\ At(t, "http") /\ faults < MaxFaults /\ faults' = faults + 1
    /\ LET b == th[t].b IN
       Back(t, IF Life(b.tok) # "dead" THEN Got(<<"oauth", b.tok>>, FALSE) ELSE Failed)
    /\ UNCHANGED <<bundle, key, live, keepStop, keepCur, seen, service, told, out, raced, ops>>

----------------------------------------------------------------------------
(* rebuild_chat_stack *)

\* The settings are read under the lock, the bearer is resolved without it.
Snapshot(t) ==
    /\ At(t, "snap")
    /\ th' = [th EXCEPT ![t].pc = "enter", ![t].do = "build", ![t].src = source, ![t].mod = model]
    /\ UNCHANGED <<bundle, key, live, flight, keepStop, keepCur, seen, service, told, out, raced, bounds>>

\* A client of what was read replaces the one in use, and every thread that
\* holds the old one holds an old one.
Bind(t) ==
    /\ At(t, "have") /\ th[t].do = "build"
    /\ LET r == th[t].res IN
       /\ ok' = r.ok
       /\ http' = IF r.ok THEN [src |-> th[t].src, tok |-> r.tok, model |-> th[t].mod] ELSE NoHttp
       /\ th' = [u \in Threads |->
                   IF u = t THEN [th[t] EXCEPT !.pc = IF r.ok /\ th[t].src = "oauth" THEN "startk" ELSE "stopk"]
                   ELSE [th[u] EXCEPT !.mine = FALSE]]
    /\ UNCHANGED <<bundle, key, source, model, flight, keepStop, keepCur, seen, service, told, out, raced, bounds>>

Alive == keepCur /\ th["keep"].pc # "dead"

\* refresh_models resolves once more, for the list of models, when the
\* credential is good.
Listing(t) == [Idle EXCEPT !.pc = IF ok THEN "enter" ELSE "idle", !.do = IF ok THEN "models" ELSE "none",
                           !.src = IF ok THEN source ELSE "none"]

\* _start_oauth_keepalive.  A loop that outlived its join finds the event
\* cleared and runs on beside the new one; one stands for both.
StartKeep(t) ==
    /\ At(t, "startk")
    /\ LET dead == th["keep"].pc = "dead" IN
       th' = [th EXCEPT ![t] = Listing(t), !["keep"] = IF dead THEN [Idle EXCEPT !.pc = "wait"] ELSE @]
    /\ keepStop' = IF Alive THEN keepStop ELSE FALSE
    /\ keepCur' = TRUE
    /\ UNCHANGED <<bundle, key, live, flight, seen, service, told, out, raced, bounds>>

\* _stop_oauth_keepalive: the event, then a join of a second, which a loop
\* that is at the network outlasts.
StopKeep(t) ==
    /\ At(t, "stopk")
    /\ keepStop' = TRUE /\ Go(t, "joink")
    /\ UNCHANGED <<bundle, key, live, flight, keepCur, seen, service, told, out, raced, bounds>>

JoinKeep(t) ==
    /\ At(t, "joink")
    /\ Alive => th["keep"].pc \in {"enter", "http"}
    /\ keepCur' = FALSE
    /\ th' = [th EXCEPT ![t] = IF th[t].res.ok THEN Listing(t) ELSE Idle]
    /\ UNCHANGED <<bundle, key, live, flight, keepStop, seen, service, told, out, raced, bounds>>

Listed(t) ==
    /\ At(t, "have") /\ th[t].do = "models"
    /\ Rest(t)
    /\ UNCHANGED <<bundle, key, live, flight, keepStop, keepCur, seen, service, told, out, raced, bounds>>

----------------------------------------------------------------------------
(* Operator requests and a completed login. *)

Request == At("api", "idle") /\ Room /\ ops < MaxOps /\ ops' = ops + 1
Overlaps == raced' = (raced \/ Busy # {} \/ Refreshing # {})

\* apply_credential_source: resolve first, switch only when that worked.
ApplySource(s) ==
    /\ Request /\ Overlaps
    /\ th' = [th EXCEPT !["api"].pc = "enter", !["api"].do = "switch", !["api"].src = s]
    /\ UNCHANGED <<bundle, key, live, flight, keepStop, keepCur, seen, service, told, out, faults>>

SwitchSource ==
    /\ At("api", "have") /\ th["api"].do = "switch"
    /\ raced' = (raced \/ Busy # {"api"} \/ Refreshing # {})
    /\ IF th["api"].res.ok THEN source' = th["api"].src /\ Go("api", "snap")
                           ELSE Rest("api") /\ UNCHANGED source
    /\ UNCHANGED <<bundle, key, model, ok, http, flight, keepStop, keepCur, seen, service, told, out, bounds>>

\* apply_model: set on the client in use, or rebuild when there is none.
ApplyModel(m) ==
    /\ Request /\ Overlaps /\ m # model
    /\ model' = m
    /\ th' = [th EXCEPT !["api"].pc = IF http # NoHttp THEN "setmodel" ELSE IF ok THEN "snap" ELSE "idle",
                        !["api"].mod = m, !["api"].mine = http # NoHttp]
    /\ UNCHANGED <<bundle, key, source, ok, http, flight, keepStop, keepCur, seen, service, told, out, faults>>

SetModel ==
    /\ At("api", "setmodel")
    /\ http' = IF th["api"].mine THEN [http EXCEPT !.model = th["api"].mod] ELSE http
    /\ Rest("api")
    /\ UNCHANGED <<bundle, key, source, model, ok, flight, keepStop, keepCur, seen, service, told, out, raced, bounds>>

\* put_api_key, delete_api_key
PutKey(k) ==
    /\ Request /\ Overlaps /\ key' = k /\ key # k
    /\ th' = [th EXCEPT !["api"].pc = IF source = "key" THEN "snap" ELSE "idle"]
    /\ UNCHANGED <<bundle, live, flight, keepStop, keepCur, seen, service, told, out, faults>>

\* logout_xai_oauth: the file is deleted without the refresh lock.
Logout ==
    /\ Request /\ Overlaps
    /\ out' = TRUE /\ bundle' = NoBundle
    /\ th' = [th EXCEPT !["api"].pc = IF source = "oauth" THEN "snap" ELSE "idle"]
    /\ UNCHANGED <<key, live, flight, keepStop, keepCur, seen, service, told, faults>>

\* complete_oauth_login on the device poller's thread: the file first,
\* then the source, then a rebuild.
LoginPersist(activate) ==
    /\ At("login", "idle") /\ Room /\ ops < MaxOps /\ issued < MaxTok
    /\ ops' = ops + 1 /\ Overlaps
    /\ LET n == issued + 1 IN
       /\ life' = "fresh" /\ issued' = n /\ newest' = Append(newest, n)
       /\ bundle' = [login |-> Len(newest) + 1, tok |-> n, reauth |-> FALSE]
    /\ out' = FALSE
    /\ th' = [th EXCEPT !["login"].pc = "source", !["login"].was = activate]
    /\ UNCHANGED <<key, live, flight, keepStop, keepCur, seen, revoked, told, faults>>

LoginSource ==
    /\ At("login", "source")
    /\ raced' = (raced \/ Busy # {"login"} \/ Refreshing # {})
    /\ LET activate == th["login"].was IN
       /\ source' = IF activate THEN "oauth" ELSE source
       /\ IF activate \/ source = "oauth" THEN Go("login", "snap") ELSE Rest("login")
    /\ UNCHANGED <<bundle, key, model, ok, http, flight, keepStop, keepCur, seen, service, told, out, bounds>>

----------------------------------------------------------------------------
(* Rebinding. *)

\* on_access_refreshed: the client in use gets the token, whoever made it.
Rebound(tok) == /\ http' = IF http = NoHttp THEN http ELSE [http EXCEPT !.tok = tok]
                /\ ok' = TRUE
\* _mark_oauth_credential_failed
MarkFailed == ok' = FALSE /\ UNCHANGED http

\* _oauth_keepalive_loop: after the stop event is looked at, before and
\* after the wait alike.
KeepTop ==
    /\ At("keep", "wait") /\ (Room \/ keepStop)
    /\ raced' = (raced \/ Busy # {})
    /\ th' = [th EXCEPT !["keep"] = IF keepStop THEN Dead
                               ELSE IF source = "oauth"
                                 THEN [Idle EXCEPT !.pc = "enter", !.do = "keep", !.src = "oauth", !.was = ok]
                                 ELSE [Idle EXCEPT !.pc = "wait"]]
    /\ UNCHANGED <<bundle, key, live, flight, keepStop, keepCur, seen, service, told, out, bounds>>

\* MUTANT: only a rotated token is bound.
KeepDoneRotated ==
    /\ At("keep", "have") /\ th["keep"].do = "keep"
    /\ LET r == th["keep"].res IN
       IF r.ok /\ r.rotated THEN Rebound(r.tok)
       ELSE IF ~r.ok /\ ~r.raised THEN MarkFailed
       ELSE UNCHANGED <<ok, http>>
    /\ th' = [th EXCEPT !["keep"] = [Idle EXCEPT !.pc = "wait"]]
    /\ UNCHANGED <<bundle, key, source, model, flight, keepStop, keepCur, seen, service, told, out, raced, bounds>>

KeepDone ==
    /\ At("keep", "have") /\ th["keep"].do = "keep"
    /\ LET r == th["keep"].res IN
       IF r.ok /\ (r.rotated \/ ~th["keep"].was) THEN Rebound(r.tok)
       ELSE IF ~r.ok /\ ~r.raised THEN MarkFailed
       ELSE UNCHANGED <<ok, http>>
    /\ th' = [th EXCEPT !["keep"] = [Idle EXCEPT !.pc = "wait"]]
    /\ UNCHANGED <<bundle, key, source, model, flight, keepStop, keepCur, seen, service, told, out, raced, bounds>>

\* A call with a dead token is answered 401; the client's callback forces a
\* refresh and the call is made once more with what it returns.
Chat401 ==
    /\ At("chat", "idle") /\ Room /\ http.src = "oauth" /\ http.tok[1] = "oauth" /\ Life(http.tok[2]) = "dead"
    /\ raced' = (raced \/ Busy # {})
    /\ th' = [th EXCEPT !["chat"] = [Idle EXCEPT !.pc = "enter", !.do = "chat", !.src = "oauth"]]
    /\ UNCHANGED <<bundle, key, live, flight, keepStop, keepCur, seen, service, told, out, bounds>>

ChatRetry ==
    /\ At("chat", "have")
    /\ IF th["chat"].res.ok THEN Rebound(th["chat"].res.tok) ELSE MarkFailed
    /\ Rest("chat")
    /\ UNCHANGED <<bundle, key, source, model, flight, keepStop, keepCur, seen, service, told, out, raced, bounds>>

\* CreditsPoller._do_poll, as far as it resolves and rebinds.
Poll ==
    /\ At("poll", "idle") /\ Room
    /\ raced' = (raced \/ Busy # {})
    /\ th' = [th EXCEPT !["poll"] = [Idle EXCEPT !.pc = "enter", !.do = "poll", !.src = source]]
    /\ UNCHANGED <<bundle, key, live, flight, keepStop, keepCur, seen, service, told, out, bounds>>

PollDone ==
    /\ At("poll", "have")
    /\ LET r == th["poll"].res IN
       /\ seen' = IF r.ok THEN r.tok ELSE seen
       /\ IF r.ok /\ (r.rotated \/ (seen[1] # "none" /\ seen # r.tok))
            THEN Rebound(r.tok) ELSE UNCHANGED <<ok, http>>
    /\ Rest("poll")
    /\ UNCHANGED <<bundle, key, source, model, flight, keepStop, keepCur, service, told, out, raced, bounds>>

\* External: time passes for the last token, the login in the file is
\* revoked.
Age ==
    /\ life # "dead" /\ life' = IF life = "fresh" THEN "near" ELSE "dead"
    /\ UNCHANGED <<bundle, key, live, flight, th, keepStop, keepCur, seen, issued, newest, revoked, told, out, raced, bounds>>

Revoke(l) ==
    /\ l = bundle.login /\ l \notin revoked /\ revoked' = revoked \cup {l}
    /\ UNCHANGED <<bundle, key, live, flight, th, keepStop, keepCur, seen, life, issued, newest, told, out, raced, bounds>>

Resolve(t) ==
    \/ ResolveKey(t) \/ EnterRefresh(t) \/ RefreshOk(t) \/ RefreshDenied(t) \/ RefreshTransient(t)

Rebuild(t) ==
    \/ Snapshot(t) \/ Bind(t) \/ StartKeep(t) \/ StopKeep(t) \/ JoinKeep(t) \/ Listed(t)

Keep == KeepTop \/ KeepDone

Operator ==
    \/ \E s \in {"oauth", "key"} : ApplySource(s)
    \/ ApplyModel(2)
    \/ \E k \in 0..1 : PutKey(k)
    \/ Logout
    \/ \E a \in BOOLEAN : LoginPersist(a)

Next ==
    \/ Operator \/ SwitchSource \/ SetModel \/ LoginSource
    \/ \E t \in Threads : Resolve(t)
    \/ \E t \in {"api", "login"} : Rebuild(t)
    \/ Keep
    \/ Chat401 \/ ChatRetry \/ Poll \/ PollDone
    \/ Age
    \/ \E l \in 1..Len(newest) : Revoke(l)

\* The keep-alive loop and whoever holds the refresh lock or an operation
\* keep running; a request to the service is answered or times out.
Fairness ==
    /\ \A t \in Threads : WF_vars(Resolve(t))
    /\ \A t \in {"api", "login"} : WF_vars(Rebuild(t))
    /\ WF_vars(Keep)
    /\ WF_vars(SwitchSource \/ SetModel) /\ WF_vars(LoginSource)
    /\ WF_vars(ChatRetry) /\ WF_vars(PollDone)

Spec == Init /\ [][Next]_vars /\ Fairness

----------------------------------------------------------------------------
(* Properties. *)

Tokens == {<<"none", 0>>} \cup ({"oauth"} \X (1..MaxTok)) \cup ({"key"} \X {1})

\* Every variable stays in its domain (ProviderRuntime's fields, the files).
TypeOK ==
    /\ bundle \in [login : 0..(MaxOps + 1), tok : 0..MaxTok, reauth : BOOLEAN]
    /\ key \in 0..1 /\ source \in {"oauth", "key"} /\ model \in 1..2 /\ ok \in BOOLEAN
    /\ http \in [src : {"none", "oauth", "key"}, tok : Tokens, model : 0..2]
    /\ flight \in Threads \cup {"none"} /\ seen \in Tokens
    /\ {keepStop, keepCur} \subseteq BOOLEAN
    /\ \A t \in Threads : th[t].pc \in {"idle", "enter", "http", "have", "snap", "startk", "stopk", "joink",
                                       "setmodel", "source", "wait", "dead"}
    /\ life \in {"fresh", "near", "dead"} /\ issued \in 1..MaxTok
    /\ revoked \subseteq 1..Len(newest) /\ told \subseteq 1..Len(newest)
    /\ {out, raced} \subseteq BOOLEAN

\* _refresh_lock makes the refresh single-flight: the refresh token of a
\* request in flight is the last one the service gave out for that login,
\* unless a write or an answer was lost before.
RefreshNotReused ==
    faults = 0 => \A t \in Threads : At(t, "http") => th[t].b.tok = newest[th[t].b.login]

\* Once a caller was told that a login is over, the file says so too (or
\* holds another login, or none): a restart cannot bring it back while its
\* access token lives (the KD15 comment in _ensure_fresh_access_locked).
ReauthIsDurable == bundle.login \in told => bundle.reauth

\* When nothing overlapped and nobody is in the middle of a change, the
\* client in use is one of the configured source and model, and holds a
\* token of that source (apply_credential_source, apply_model,
\* complete_oauth_login and rebuild_chat_stack together).
ClientMatches ==
    (~raced /\ Busy = {} /\ http # NoHttp)
        => http.src = source /\ http.model = model /\ http.tok[1] = source

\* A logout that overlapped nothing leaves no bundle behind, whatever source
\* is active and whatever runs later; only a login brings one.
LoggedOutStaysOut == (out /\ ~raced) => bundle = NoBundle

\* What the design promises of every logout ("Logout clears OAuth bundle"):
\* not so when a refresh is at the network meanwhile.
LogoutClears == out => bundle = NoBundle

\* keep-alive: a live OAuth client whose credential was marked failed is
\* marked good again, without a restart, while the login is one the service
\* honours; or it is replaced, or another source is chosen.
KeepaliveRecovers ==
    (~ok /\ http # NoHttp)
        ~> \/ ok \/ http = NoHttp \/ source # "oauth" \/ raced
           \/ bundle = NoBundle \/ bundle.reauth \/ ~Honoured(bundle) \/ issued = MaxTok

\* With chat call, keep-alive, poller and operator at the tokens: no refresh token
\* is used twice, a login that is over is marked so on disk, the client is the one
\* of the chosen source, and a logout is not undone.
CredentialHolds ==
  TypeOK /\ RefreshNotReused /\ ReauthIsDurable /\ ClientMatches /\ LoggedOutStaysOut
=============================================================================
