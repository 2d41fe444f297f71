----------------------------- MODULE UsageMeter -----------------------------
(***************************************************************************)
(* The token ledger (elyra/llm/usage.py), the gate every chat call passes  *)
(* (UsageGatedChatClient in llm/client.py) and the billing answers the     *)
(* poller brings it (llm/credits.py).  The meter's lock makes each        *)
(* operation one step; a call asks, runs for a while without the lock      *)
(* and records.  Every mutation writes usage.json and, when the write      *)
(* raises, puts the memory back.  Windows roll by the clock, in memory;    *)
(* the week's ledger follows the ISO week until the first good billing     *)
(* answer and the billing period from then on.                             *)
(*                                                                         *)
(* A tick is an hour block; days and weeks are DayLen and WeekLen ticks.   *)
(***************************************************************************)
EXTENDS Integers, FiniteSets

CONSTANTS Callers,     \* threads that make model calls
          MaxCall,     \* tokens one call may cost
          WeekLimit, DayLimit,   \* compute_limits; the day is a hard limit
          Burst,       \* burst_hours
          DayLen, WeekLen,
          BillShift,   \* ticks by which billing periods lead ISO weeks
          StaleAfter,  \* credits_stale_after_s, in ticks
          MaxTime,     \* bound on the clock
          MaxLedger,   \* bound on the day's tokens from which on no call is made
          MaxFaults,   \* bound on failed writes, corrupted files
          MaxOps       \* bound on operator actions and media calls

VARIABLES now,       \* the clock
          m, file,   \* the meter, usage.json
          pc,        \* callers between can_call and record
          answer,    \* a billing answer the poller has not applied yet
          ledger,    \* history: the books kept eagerly, window by window
          overran,   \* history: calls were let through by the override
          damaged,   \* history: usage.json was corrupted
          faults, ops

vars == <<now, m, file, pc, answer, ledger, overran, damaged, faults, ops>>
meter == <<m, file>>
book == <<ledger, overran, damaged>>

Day(t) == t \div DayLen
Week(t) == t \div WeekLen
Bill(t) == (t + BillShift) \div WeekLen
BillStart(p) == p * WeekLen - BillShift

None == -1
Absent == [hour |-> None]

\* _zero_state_unlocked
Zero(t) == [hour |-> t, day |-> Day(t), week |-> Week(t), auth |-> "iso", period |-> Week(t),
            uh |-> 0, ud |-> 0, uw |-> 0, media |-> 0, override |-> FALSE, pct |-> "none", fetched |-> 0]

\* _refresh_windows_unlocked: counters roll with their windows, the week's
\* only under ISO authority.
Refreshed(r) ==
    LET roll == r.week # Week(now) /\ r.auth = "iso" IN
    [r EXCEPT !.hour = now, !.day = Day(now), !.week = Week(now),
              !.uh = IF r.hour = now THEN @ ELSE 0,
              !.ud = IF r.day = Day(now) THEN @ ELSE 0,
              !.uw = IF roll THEN 0 ELSE @,
              !.media = IF roll THEN 0 ELSE @,
              !.period = IF roll THEN Week(now) ELSE @]

\* _load_from_disk: a file that is missing or unreadable starts a zero meter.
Loaded(f) == IF f.hour = None THEN Zero(now) ELSE Refreshed(f)

----------------------------------------------------------------------------
\* _account_usage_fraction_unlocked: the last good answer, while fresh.
AccountHigh(r) == r.auth = "supergrok" /\ r.pct = "high" /\ now - r.fetched <= StaleAfter

\* hard_level: account, then week, then day.
HardLevel(r) ==
    IF AccountHigh(r) THEN "account"
    ELSE IF r.uw >= WeekLimit THEN "week"
    ELSE IF r.ud >= DayLimit THEN "day" ELSE "none"

CanCall(r) == r.override \/ HardLevel(r) = "none"

\* elapsed_hours at time t: since the period began, held within it.
Elapsed(r, t) ==
    LET raw == IF r.auth = "supergrok" THEN t - BillStart(r.period) ELSE t % WeekLen IN
    IF raw < 0 THEN 0 ELSE IF raw > WeekLen THEN WeekLen ELSE raw

\* pace_ratio times a whole number: S * H against ratio * B * t.
PaceBelow(r, t, num, den) == r.uw * WeekLen * den < num * WeekLimit * Elapsed(r, t)

\* compute_band: green inside the burst cushion, else by the pace, with the
\* default ratios 1.25 and 1.75.
Band(r, t) ==
    IF HardLevel(r) # "none" THEN 3
    ELSE IF r.uw * WeekLen - WeekLimit * Elapsed(r, t) <= Burst * WeekLimit \/ PaceBelow(r, t, 5, 4) THEN 0
    ELSE IF PaceBelow(r, t, 7, 4) THEN 1 ELSE 2

----------------------------------------------------------------------------
TypeOK ==
    /\ now \in 0..MaxTime
    /\ m \in [hour : 0..MaxTime, day : 0..MaxTime, week : 0..MaxTime, auth : {"iso", "supergrok"}, period : 0..MaxTime,
              uh : Nat, ud : Nat, uw : Nat, media : 0..MaxOps, override : BOOLEAN, pct : {"none", "low", "high"}, fetched : 0..MaxTime]
    /\ file = Absent \/ file.hour \in 0..MaxTime
    /\ pc \in [Callers -> {"idle", "calling"}]
    /\ answer.kind \in {"none", "ok", "percent", "failed"}
    /\ overran \in BOOLEAN /\ damaged \in BOOLEAN
    /\ ledger \in [{"hour", "day", "week"} -> Nat]

NoSnap == [kind |-> "none", period |-> 0, pct |-> "none", at |-> 0]

Init ==
    /\ now = 0 /\ m = Zero(0) /\ file = Absent
    /\ pc = [c \in Callers |-> "idle"]
    /\ answer = NoSnap
    /\ ledger = [k \in {"hour", "day", "week"} |-> 0] /\ overran = FALSE /\ damaged = FALSE
    /\ faults = 0 /\ ops = 0

----------------------------------------------------------------------------
\* A mutation under the lock: refresh, change, _persist_unlocked.
Persist(r) == m' = r /\ file' = r

\* The write raises: _restore_durable_unlocked puts back the captured state,
\* the roll of the windows included.
PersistRaises ==
    /\ faults < MaxFaults /\ faults' = faults + 1
    /\ UNCHANGED <<m, file>>

\* UsageGatedChatClient.chat_completion asks can_call, which rolls the
\* windows in memory; a refusal raises and nothing else happens.
Ask(c) ==
    LET r == Refreshed(m) IN
    /\ pc[c] = "idle" /\ ledger["day"] < MaxLedger /\ r.uw < MaxLedger /\ m' = r
    /\ pc' = [pc EXCEPT ![c] = IF CanCall(r) THEN "calling" ELSE "idle"]
    /\ overran' = (overran \/ r.override)
    /\ UNCHANGED <<now, file, answer, ledger, damaged, faults, ops>>

\* The answer's billable tokens are recorded, under an override too.
Record(r, n) == [r EXCEPT !.uh = @ + n, !.ud = @ + n, !.uw = @ + n]

Return(c, n) ==
    /\ pc[c] = "calling" /\ pc' = [pc EXCEPT ![c] = "idle"]
    /\ Persist(Record(Refreshed(m), n))
    /\ ledger' = [k \in DOMAIN ledger |-> ledger[k] + n]
    /\ UNCHANGED <<now, answer, overran, damaged, faults, ops>>

\* The provider raises: nothing is recorded.
ReturnFails(c) ==
    /\ pc[c] = "calling" /\ pc' = [pc EXCEPT ![c] = "idle"]
    /\ UNCHANGED <<now, meter, answer, book, faults, ops>>

RecordFails(c) ==
    /\ pc[c] = "calling" /\ pc' = [pc EXCEPT ![c] = "idle"]
    /\ PersistRaises
    /\ UNCHANGED <<now, answer, book, ops>>

\* record_media_call counts a transcription or a synthesis, no tokens.
RecordMediaCall ==
    /\ ops < MaxOps /\ ops' = ops + 1
    /\ Persist([Refreshed(m) EXCEPT !.media = @ + 1])
    /\ UNCHANGED <<now, pc, answer, book, faults>>

SetHardStopOverride(active) ==
    /\ ops < MaxOps /\ ops' = ops + 1
    /\ Persist([Refreshed(m) EXCEPT !.override = active])
    /\ UNCHANGED <<now, pc, answer, book, faults>>

SetHardStopOverrideFails ==
    /\ ops < MaxOps /\ ops' = ops + 1 /\ PersistRaises
    /\ UNCHANGED <<now, pc, answer, book>>

\* refresh_windows persists only when something rolled.
RefreshWindows ==
    /\ Refreshed(m) # m /\ Persist(Refreshed(m))
    /\ UNCHANGED <<now, pc, answer, book, faults, ops>>

----------------------------------------------------------------------------
AppliedZeroing(r, s) ==
    LET good == s.kind = "ok"
        rolled == good /\ ~(r.auth = "supergrok" /\ r.period = s.period)
        basis == good \/ (s.kind = "percent" /\ r.auth = "supergrok") IN
    [r EXCEPT !.auth = IF good THEN "supergrok" ELSE @,
              !.period = IF good THEN s.period ELSE @,
              !.uw = IF rolled THEN 0 ELSE @,
              !.media = IF rolled THEN 0 ELSE @,
              !.pct = IF basis THEN s.pct ELSE @,
              !.fetched = IF basis THEN s.at ELSE @]

\* _apply_credits_snapshot_unlocked: the first good period is adopted and
\* keeps the ledger, another period zeroes it; the account's percentage is
\* taken with a good period or once one was adopted.
Applied(r, s) ==
    LET good == s.kind = "ok"
        rolled == good /\ r.auth = "supergrok" /\ r.period # s.period
        basis == good \/ (s.kind = "percent" /\ r.auth = "supergrok") IN
    [r EXCEPT !.auth = IF good THEN "supergrok" ELSE @,
              !.period = IF good THEN s.period ELSE @,
              !.uw = IF rolled THEN 0 ELSE @,
              !.media = IF rolled THEN 0 ELSE @,
              !.pct = IF basis THEN s.pct ELSE @,
              !.fetched = IF basis THEN s.at ELSE @]

\* MUTANT: adopting the first billing period starts the ledger afresh.

\* What fetch_billing and parse_billing_payload can give: a whole answer,
\* one without a period, and a failure (no credential, an HTTP status, no
\* percentage, bounds that do not parse).
Answers ==
    [kind : {"ok"}, period : {Bill(now)}, pct : {"low", "high"}, at : {now}]
    \cup [kind : {"percent"}, period : {0}, pct : {"low"}, at : {now}]
    \cup {[kind |-> "failed", period |-> 0, pct |-> "none", at |-> now]}

\* The request is made outside the meter's lock, one at a time.
FetchBilling ==
    /\ answer.kind = "none" /\ answer' \in Answers
    /\ UNCHANGED <<now, meter, pc, book, faults, ops>>

ApplyCreditsSnapshot ==
    /\ answer.kind # "none" /\ answer' = NoSnap
    /\ Persist(Applied(Refreshed(m), answer))
    /\ ledger' = [ledger EXCEPT !["week"] = IF answer.kind = "ok" /\ m.auth = "supergrok" /\ m.period # answer.period THEN 0 ELSE @]
    /\ UNCHANGED <<now, pc, overran, damaged, faults, ops>>

ApplyFails ==
    /\ answer.kind # "none" /\ answer' = NoSnap
    /\ PersistRaises
    /\ UNCHANGED <<now, pc, book, ops>>

----------------------------------------------------------------------------
Tick ==
    /\ now < MaxTime /\ now' = now + 1
    /\ ledger' = [hour |-> 0,
                  day |-> IF Day(now') = Day(now) THEN ledger["day"] ELSE 0,
                  week |-> IF Week(now') = Week(now) \/ m.auth = "supergrok" THEN ledger["week"] ELSE 0]
    /\ UNCHANGED <<meter, pc, answer, overran, damaged, faults, ops>>

Restart ==
    /\ ops < MaxOps /\ ops' = ops + 1
    /\ m' = Loaded(file)
    /\ pc' = [c \in Callers |-> "idle"]
    /\ answer' = NoSnap
    /\ UNCHANGED <<now, file, book, faults>>

Corrupt ==
    /\ faults < MaxFaults /\ faults' = faults + 1
    /\ file # Absent /\ file' = Absent /\ damaged' = TRUE
    /\ UNCHANGED <<now, m, pc, answer, ledger, overran, ops>>

Next ==
    \/ \E c \in Callers : Ask(c) \/ ReturnFails(c) \/ RecordFails(c) \/ \E n \in 1..MaxCall : Return(c, n)
    \/ RecordMediaCall \/ (\E b \in BOOLEAN : SetHardStopOverride(b)) \/ SetHardStopOverrideFails \/ RefreshWindows
    \/ FetchBilling \/ ApplyCreditsSnapshot \/ ApplyFails
    \/ Tick \/ Restart \/ Corrupt

Spec == Init /\ [][Next]_vars

----------------------------------------------------------------------------
\* What the meter shows is what books kept eagerly hold, across rolls
\* nobody persisted, restarts and writes that were taken back: the hour and
\* the day start at zero with the clock, the week's ledger with the ISO week
\* until a billing period is adopted, which keeps what was spent, and from
\* then on only with a new period a good poll reports.
BooksAgree ==
    LET r == Refreshed(m) IN
    ~damaged => r.uh = ledger["hour"] /\ r.ud = ledger["day"] /\ r.uw = ledger["week"]

\* A restart changes nothing: usage.json read now gives the meter as it is
\* now, override and account figures included, whatever write failed before.
RestartIsHarmless == ~damaged => Loaded(file) = Refreshed(m)

\* The gate is checked before a call and the tokens counted after it, so
\* calls in flight together may pass the limit, by no more than what each
\* of them costs, unless the operator overrode the stop.
OvershootBounded == ~overran => m.uw <= WeekLimit - 1 + Cardinality(Callers) * MaxCall

\* The pace eases when time passes without spending: within a billing period
\* no later band is worse than the one shown now.
PaceEases ==
    LET r == Refreshed(m) IN
    r.auth = "supergrok" => \A t \in now .. MaxTime : Band(r, t) <= Band(r, now)

\* The ledger counts what was spent in its window, a restart changes nothing the
\* gate looks at, calls in flight pass the limit by a bounded amount, and waiting
\* makes the pace no worse.
BooksHold == TypeOK /\ BooksAgree /\ RestartIsHarmless /\ OvershootBounded /\ PaceEases
=============================================================================
