------------------------------- MODULE DoLoop -------------------------------
(***************************************************************************)
(* The multi-hop do-loop of elyra/loop/doloop.py: one moment from its      *)
(* first precheck to its stop reason.  The host checks its limits, trims   *)
(* the chain, asks the model, runs the tool calls of the answer one by     *)
(* one, and answers a completion without tool calls with at most one       *)
(* nudge before it accepts the stop.                                       *)
(*                                                                         *)
(* The chain is the sequence of its spans: a tool batch ("open" while tool *)
(* results are missing), a user's interjection, or a HOST line by its      *)
(* kind.  Texts, token counts and the counters that are only reported      *)
(* (model beats, flood beats, re-outers) are left out.                     *)
(***************************************************************************)
EXTENDS Naturals, Sequences, FiniteSets, FiniteSetsExt, SequencesExt

CONSTANTS
  Calls,             \* the tool calls a model makes in this instance
  Failing,           \* those of them that may also fail
  MaxCalls,          \* bound on the calls of one completion
  MaxHops,           \* max_tool_hops
  Room,              \* spans that surely fill the in-turn token budget
  ContinueMax,       \* continue_max_injects
  IdleAfter,         \* continue_idle_minutes, in ticks
  WallClock,         \* moment_wall_clock_minutes, in ticks
  WorkNudgeMax,      \* in_moment_work_nudge_max
  FailStreak,        \* FAIL_STREAK_THRESHOLD
  OkStreak,          \* OK_STREAK_THRESHOLD
  SynthStreak,       \* LESSON_SYNTH_FAIL_STREAK
  MaxInterjections   \* bound on the messages users interject

\* A call stands for a tool name with its arguments, that is a fingerprint.
Known == {"speak", "read", "ledger", "wait", "load_work", "load_talk", "load_rest"}
Loads == {"load_work", "load_talk", "load_rest"}

\* HOST lines, by the kind of their beat.
FreeTextNudges == {"skill_commit", "no_speak", "answer_speak", "work_continue"}
HostLines == FreeTextNudges \cup {"continue", "thrash", "lesson_request", "lesson_pin"}
None == "none"

\* The wake of the moment: a user's (social), or one of the others, which is
\* workish by its kind or because goals are open; and whether continuous work
\* is on.  Open goals do not count on a social wake.
Wakes == {w \in [social : BOOLEAN, workish : BOOLEAN, continuous : BOOLEAN] :
            w.social => ~w.workish}

Texts == {"answer", "empty", "flood"}
Stops == {"wall_clock", "max_hops", "time_continue_declined", "no_tools",
          "wait", "policy", "error"}

ASSUME DoLoopOK ==
  /\ Calls \subseteq Known /\ Failing \subseteq Calls
  /\ MaxCalls \in Nat \ {0} /\ MaxHops \in Nat /\ Room \in Nat
  /\ ContinueMax \in Nat /\ IdleAfter \in Nat /\ WallClock \in Nat
  /\ WorkNudgeMax \in Nat /\ MaxInterjections \in Nat
  /\ FailStreak \in Nat \ {0} /\ OkStreak \in Nat \ {0} /\ SynthStreak \in Nat \ {0}

VARIABLES
  pc,        \* "top" of the loop, model "call", tool "batch", "done"
  wake,      \* the moment's wake: [social, workish, continuous]
  now,       \* the clock, started with the moment and stopped at its limit
  active,    \* last_activity
  hop,       \* completions so far
  chain,     \* chain_messages
  said,      \* HOST lines sent so far, counted by kind
  heard,     \* interjections drained so far
  left,      \* tool calls of the batch that have not run
  spoke,     \* spoke
  fresh,     \* spoke_since_non_speak_tool
  ran,       \* tools_ran
  mutated,   \* ledger_mutated
  pending,   \* pending_skill_commit
  thrash,    \* thrash_last_fp, thrash_streak, thrash_last_ok
  lesson,    \* lesson_synth_fp, lesson_fails_since_request
  text,      \* content of the completion the loop accepted as its stop
  stop       \* the stop reason

clock    == <<now, active>>
progress == <<spoke, fresh, ran, mutated>>
streaks  == <<thrash, lesson>>
vars == <<pc, wake, clock, hop, chain, said, heard, left, progress, pending,
          streaks, text, stop>>

Count(c, kind) == Cardinality({i \in DOMAIN c : c[i] = kind})
Sent(kind) == said[kind] > 0

\* append a HOST line and count it
Say(c, kind) == Append(c, kind)
Saying(kinds) == [k \in HostLines |-> said[k] + (IF k \in kinds THEN 1 ELSE 0)]

Finish(reason) == pc' = "done" /\ stop' = reason

-----------------------------------------------------------------------------
(* The host's precheck, the idle continue line and the token budget.       *)

Idle == now - active >= IdleAfter
WallClockExceeded == now >= WallClock
ContinueDeclined == said["continue"] >= ContinueMax /\ Idle
ShouldInjectContinue == said["continue"] < ContinueMax /\ Idle

PrecheckStop ==
  IF WallClockExceeded THEN "wall_clock"
  ELSE IF hop >= MaxHops THEN "max_hops"
  ELSE IF ContinueDeclined THEN "time_continue_declined"
  ELSE None

HostStop ==
  /\ pc = "top" /\ PrecheckStop # None
  /\ Finish(PrecheckStop)
  /\ UNCHANGED <<wake, clock, hop, chain, said, heard, left, progress, pending, streaks, text>>

\* The first span that is a batch goes; HOST lines and interjections stay.
DropOldestBatch(c) == RemoveAt(c, SelectInSeq(c, LAMBDA m : m = "batch"))

\* Oldest batches are dropped while the chain is over budget, never the last
\* one.  What a span costs is open, but more than Room spans never fit.
Trimmed(c) ==
  LET most == Max({Count(c, "batch") - 1, 0} \cap Nat)
      dropped[k \in 0..most] == IF k = 0 THEN c ELSE DropOldestBatch(dropped[k - 1])
  IN  {dropped[k] : k \in {j \in 0..most : Len(dropped[j]) <= Room \/ j = most}}

\* _ensure_lesson_pin_in_chain
EnsureLessonPin(c) ==
  IF Sent("lesson_pin") /\ Count(c, "lesson_pin") = 0 THEN Say(c, "lesson_pin") ELSE c

Prepare ==
  /\ pc = "top" /\ PrecheckStop = None
  /\ LET due  == ShouldInjectContinue
         full == IF due THEN Say(chain, "continue") ELSE chain
     IN  /\ said' = Saying(IF due THEN {"continue"} ELSE {})
         /\ active' = IF due THEN now ELSE active
         /\ \E c \in Trimmed(full) : chain' = EnsureLessonPin(c)
  /\ pc' = "call"
  /\ UNCHANGED <<wake, now, hop, heard, left, progress, pending, streaks, text, stop>>

\* chat_completion raises: a usage hard stop, a timeout or another error.
CallFails ==
  /\ pc = "call"
  /\ \E reason \in {"policy", "error"} : Finish(reason)
  /\ UNCHANGED <<wake, clock, hop, chain, said, heard, left, progress, pending, streaks, text>>

-----------------------------------------------------------------------------
(* Tool batches.                                                           *)

\* mutant: only completions without tools count as hops
CompletionWithToolsUncounted ==
  /\ pc = "call"
  /\ \E n \in 1..MaxCalls : left' = n
  /\ chain' = Append(chain, "open")
  /\ pc' = "batch"
  /\ UNCHANGED <<wake, clock, hop, said, heard, progress, pending, streaks, text, stop>>

CompletionWithTools ==
  /\ pc = "call"
  /\ hop' = hop + 1
  /\ \E n \in 1..MaxCalls : left' = n
  /\ chain' = Append(chain, "open")
  /\ pc' = "batch"
  /\ UNCHANGED <<wake, clock, said, heard, progress, pending, streaks, text, stop>>

\* update_thrash_streak; counts are only compared with the thresholds, so
\* they saturate there.
UpdatedStreak(call, ok) ==
  [fp |-> call, ok |-> ok,
   streak |-> IF call = thrash.fp THEN Min({thrash.streak + 1, Max({FailStreak, OkStreak})})
              ELSE 1]

UpdatedLesson(call, ok) ==
  IF ~Sent("lesson_request") \/ Sent("lesson_pin") THEN lesson
  ELSE IF ok THEN [fp |-> None, fails |-> 0]
  ELSE [fp |-> call,
        fails |-> IF call = lesson.fp THEN Min({lesson.fails + 1, SynthStreak}) ELSE 1]

\* A skill that may be committed to is armed by loading it; any other
\* successful call clears it.
Armed(call) ==
  CASE call = "load_work" -> "work"
    [] call = "load_talk" -> "talk"
    [] OTHER -> None

EndsMoment(call, ok) == call = "wait" /\ ok

Progressed(call, ok) ==
  /\ spoke' = (spoke \/ (call = "speak" /\ ok))
  /\ fresh' = IF ok THEN call = "speak" ELSE fresh
  /\ ran' = (ran \/ (ok /\ call # "speak"))
  /\ mutated' = (mutated \/ (ok /\ call = "ledger"))
  /\ active' = IF ok /\ call \in {"speak", "ledger"} THEN now ELSE active

\* One call of the batch.  A call that ends the moment leaves the rest of its
\* batch unexecuted.
ToolCall(call, ok) ==
  /\ pc = "batch" /\ left > 0
  /\ thrash' = UpdatedStreak(call, ok)
  /\ lesson' = UpdatedLesson(call, ok)
  /\ pending' = IF ok THEN Armed(call) ELSE pending
  /\ Progressed(call, ok)
  /\ left' = left - 1
  /\ chain' = IF left = 1 THEN [chain EXCEPT ![Len(chain)] = "batch"] ELSE chain
  /\ IF EndsMoment(call, ok) THEN Finish("wait") ELSE UNCHANGED <<pc, stop>>
  /\ UNCHANGED <<wake, now, hop, said, heard, text>>

ShouldInjectThrashHost ==
  /\ ~Sent("thrash")
  /\ thrash.streak >= IF thrash.ok THEN OkStreak ELSE FailStreak

BatchOver == left = 0

\* The whole batch ran: interjections are drained, then the thrash line, the
\* request for a lesson and the lesson the host writes itself are due.
EndBatch ==
  /\ pc = "batch" /\ BatchOver
  /\ \E n \in 0..(MaxInterjections - heard) :
       LET drained == [i \in 1..n |-> "user"]
           host    == ShouldInjectThrashHost
           ask     == (host \/ Sent("thrash")) /\ ~Sent("lesson_request")
           counted == IF ask THEN [fp |-> thrash.fp, fails |-> 0] ELSE lesson
           synth   == /\ (ask \/ Sent("lesson_request")) /\ ~Sent("lesson_pin")
                      /\ counted.fails >= SynthStreak
           lines   == (IF host THEN <<"thrash">> ELSE <<>>)
                        \o (IF ask THEN <<"lesson_request">> ELSE <<>>)
                        \o (IF synth THEN <<"lesson_pin">> ELSE <<>>)
       IN  /\ heard' = heard + n
           /\ chain' = chain \o drained \o lines
           /\ said' = Saying(ToSet(lines))
           /\ lesson' = counted
  /\ pc' = "top"
  /\ UNCHANGED <<wake, clock, hop, left, progress, pending, thrash, text, stop>>

-----------------------------------------------------------------------------
(* Completions without tool calls: at most one nudge, or the stop.         *)

ShouldSkillCommit == pending # None /\ ~Sent("skill_commit")

\* mutant: a pending skill defers the reminder also after its own nudge
ShouldAllowNoSpeakDeferred == wake.social /\ ~spoke /\ ~Sent("no_speak") /\ pending # "work"

ShouldAllowNoSpeak ==
  /\ wake.social /\ ~spoke /\ ~Sent("no_speak")
  /\ ~(pending = "work" /\ ~Sent("skill_commit"))

ShouldAnswerSpeak(t) ==
  /\ wake.social /\ spoke /\ ~Sent("answer_speak")
  /\ t = "answer"
  /\ ~(pending = "work" /\ ~Sent("skill_commit"))
  /\ ran /\ ~fresh

WorkContext == ran \/ mutated \/ wake.workish

ShouldWorkNudge(t) ==
  /\ wake.continuous /\ ~Sent("thrash") /\ t # "flood"
  /\ wake.social => spoke
  /\ said["work_continue"] < WorkNudgeMax
  /\ WorkContext

\* skill_commit, then no_speak, answer_speak, work_continue, then the stop
Nudge(t) ==
  IF ShouldSkillCommit THEN "skill_commit"
  ELSE IF ShouldAllowNoSpeak THEN "no_speak"
  ELSE IF ShouldAnswerSpeak(t) THEN "answer_speak"
  ELSE IF ShouldWorkNudge(t) THEN "work_continue"
  ELSE None

\* _maybe_capture_free_text_lesson
CapturesLesson(t) == Sent("lesson_request") /\ ~Sent("lesson_pin") /\ t = "answer"

CompletionWithoutTools(t) ==
  /\ pc = "call"
  /\ hop' = hop + 1
  /\ text' = IF Nudge(t) = None THEN t ELSE text
  /\ LET lines == (IF CapturesLesson(t) THEN <<"lesson_pin">> ELSE <<>>)
                    \o (IF Nudge(t) = None THEN <<>> ELSE <<Nudge(t)>>)
     IN  chain' = chain \o lines /\ said' = Saying(ToSet(lines))
  /\ pending' = IF Nudge(t) = "skill_commit" THEN None ELSE pending
  /\ IF Nudge(t) = None THEN Finish("no_tools") ELSE pc' = "top" /\ UNCHANGED stop
  /\ UNCHANGED <<wake, clock, heard, left, progress, streaks>>

-----------------------------------------------------------------------------
\* Time passes while the model answers and while the host is between hops (the
\* clock is read only there and when a tool marks activity); beyond the
\* wall-clock limit it makes no difference.
Tick ==
  /\ pc \in {"top", "call"} /\ now < WallClock
  /\ now' = now + 1
  /\ UNCHANGED <<pc, wake, active, hop, chain, said, heard, left, progress,
                 pending, streaks, text, stop>>

\* The moment is over: the loop has returned.
Done == pc = "done" /\ UNCHANGED vars

Init ==
  /\ pc = "top"
  /\ wake \in Wakes
  /\ now = 0 /\ active = 0 /\ hop = 0 /\ heard = 0 /\ left = 0
  /\ chain = <<>> /\ said = [k \in HostLines |-> 0]
  /\ spoke = FALSE /\ fresh = TRUE /\ ran = FALSE /\ mutated = FALSE
  /\ pending = None
  /\ thrash = [fp |-> None, streak |-> 0, ok |-> FALSE]
  /\ lesson = [fp |-> None, fails |-> 0]
  /\ text = None /\ stop = None

Step ==
  \/ HostStop \/ Prepare \/ CallFails \/ CompletionWithTools \/ EndBatch
  \/ \E call \in Calls : ToolCall(call, TRUE)
  \/ \E call \in Failing : ToolCall(call, FALSE)
  \/ \E t \in Texts : CompletionWithoutTools(t)

Next == Step \/ Tick \/ Done

\* The loop thread runs on: a model request ends by answering or timing out.
Spec == Init /\ [][Next]_vars /\ WF_vars(Step)

-----------------------------------------------------------------------------
(* Properties.                                                             *)

\* Types of the loop state (_LoopState).
TypeOK ==
  /\ pc \in {"top", "call", "batch", "done"}
  /\ wake \in Wakes
  /\ now \in 0..WallClock /\ active \in 0..now
  /\ hop \in 0..MaxHops /\ left \in 0..MaxCalls /\ heard \in 0..MaxInterjections
  /\ chain \in Seq(HostLines \cup {"open", "batch", "user"})
  /\ said \in [HostLines -> Nat]
  /\ {spoke, fresh, ran, mutated} \subseteq BOOLEAN
  /\ pending \in {None, "work", "talk"}
  /\ thrash \in [fp : Calls \cup {None}, ok : BOOLEAN,
                 streak : 0..Max({FailStreak, OkStreak})]
  /\ lesson \in [fp : Calls \cup {None}, fails : 0..SynthStreak]
  /\ text \in Texts \cup {None}
  /\ stop \in Stops \cup {None}
  /\ (stop = None) <=> (pc # "done")

\* A moment woken by a user that ends by itself without having spoken was
\* reminded to speak first, whatever skills it loaded on the way
\* (should_allow_no_speak and the order of the nudges).
SilenceWasNudged ==
  stop = "no_tools" /\ wake.social /\ ~spoke => Sent("no_speak")

\* A moment that spoke, then ran tools and ends with a text that no user
\* will see was reminded to put the result on the glass
\* (should_answer_speak_nudge).
ResultWasNudged ==
  stop = "no_tools" /\ wake.social /\ spoke /\ ran /\ ~fresh /\ text = "answer"
    => Sent("answer_speak")

\* Every chain that is sent to the model is well formed: each tool call in it
\* has its result, and only the last batch of a stopped moment is cut short
\* (_handle_tool_batch returns at a call that ends the moment).
ChainIsComplete ==
  /\ pc \in {"top", "call"} => Count(chain, "open") = 0
  /\ \A i \in DOMAIN chain : chain[i] = "open" => i = Len(chain)

\* Trimming to the token budget and the lesson pin keep every HOST line and
\* every interjection, each exactly once (_drop_oldest_batch,
\* _ensure_lesson_pin_in_chain).
NothingSaidIsLost ==
  /\ \A k \in HostLines : Count(chain, k) = said[k]
  /\ Count(chain, "user") = heard

\* Every moment ends: nudges run out, and hops are limited whatever the model
\* does (resolve_host_precheck_stop).
LoopEnds == <>(pc = "done")

\* One moment, whatever the model says and calls and in which order: nobody is left
\* without an answer unless reminded, every chain that is sent is complete, and
\* trimming loses nothing that the host or a user said.
LoopIsSound ==
  TypeOK /\ SilenceWasNudged /\ ResultWasNudged /\ ChainIsComplete /\ NothingSaidIsLost
=============================================================================
