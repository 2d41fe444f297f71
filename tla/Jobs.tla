-------------------------------- MODULE Jobs --------------------------------
(***************************************************************************)
(* Grok build jobs (elyra/instrument/jobs.py, reaper.py, process.py and    *)
(* the grok_build tool).  A job is a directory with meta.json,             *)
(* result.json, the child's logs and its access token.  Two threads end    *)
(* jobs without a lock around the whole of it: the presence worker, which  *)
(* starts a job (and waits for it when it is not asynchronous) or polls    *)
(* one, and the reaper, which lists the running jobs every second, kills   *)
(* the overdue ones, ends those whose child is gone and enqueues a wake.   *)
(* The process may die between any two writes; the children outlive it,    *)
(* and the start-up collection marks what it left.                         *)
(*                                                                         *)
(* usage, wakes and upset are history: how often a job's tokens were       *)
(* metered, how many completion wakes it got, and what went wrong for it.  *)
(***************************************************************************)
EXTENDS Naturals, FiniteSets

CONSTANTS Job,        \* job ids
          MaxFaults,  \* bound: writes and spawns that raise
          MaxDeaths   \* bound: process deaths

VARIABLES meta,    \* meta.json: status, whether the pid is recorded
          result,  \* result.json: its status, "none" when there is no file
          tokens,  \* the jobs whose run directory holds an access token
          log,     \* stdout.log: "empty", "text", "human" or "error"
          child,   \* the process: "none", "up", "zombie" (ours), "gone", "stray"
          code,    \* what the child exits with
          due,     \* jobs older than their timeout
          act,     \* where the two threads are
          woken,   \* InstrumentReaper._woken
          usage, wakes, upset, faults, deaths

vars == <<meta, result, tokens, log, child, code, due, act, woken, usage, wakes, upset, faults, deaths>>
files == <<meta, result, tokens>>
procs == <<log, child, code, due>>
history == <<usage, wakes, upset, faults, deaths>>

Terminal == {"completed", "failed", "needs_human", "interrupted"}
Actors == {"tool", "reaper"}
Idle == [pc |-> "idle", job |-> CHOOSE j \in Job : TRUE, code |-> "bad", timed |-> FALSE, st |-> "failed", todo |-> {}, gcd |-> {}]

TypeOK ==
    /\ meta \in [Job -> [status : {"absent", "running"} \cup Terminal, pid : BOOLEAN, async : BOOLEAN]]
    /\ result \in [Job -> {"none"} \cup Terminal]
    /\ tokens \subseteq Job /\ due \subseteq Job /\ woken \subseteq Job
    /\ log \in [Job -> {"empty", "text", "human", "error"}]
    /\ child \in [Job -> {"none", "up", "zombie", "gone", "stray"}]
    /\ code \in [Job -> {"ok", "bad"}]
    /\ act \in [Actors -> [pc : {"idle", "seed", "spawn", "pid", "run", "ran", "orphan", "orphanResult", "handle",
                                 "end", "result", "status", "shred", "wake", "gc", "gcRest", "gcWake", "down"},
                           job : Job, code : {"ok", "bad"}, timed : BOOLEAN, st : Terminal,
                           todo : SUBSET (Job \X BOOLEAN), gcd : SUBSET Job]]
    /\ usage \in [Job -> 0..2] /\ wakes \in [Job -> Nat]
    /\ upset \in [Job -> SUBSET {"raced", "died", "raised", "early"}]
    /\ faults \in 0..MaxFaults /\ deaths \in 0..MaxDeaths

Init ==
    /\ meta = [j \in Job |-> [status |-> "absent", pid |-> FALSE, async |-> FALSE]]
    /\ result = [j \in Job |-> "none"]
    /\ tokens = {} /\ due = {} /\ woken = {}
    /\ log = [j \in Job |-> "empty"]
    /\ child = [j \in Job |-> "none"]
    /\ code = [j \in Job |-> "ok"]
    /\ act = [a \in Actors |-> Idle]
    /\ usage = [j \in Job |-> 0] /\ wakes = [j \in Job |-> 0]
    /\ upset = [j \in Job |-> {}]
    /\ faults = 0 /\ deaths = 0

----------------------------------------------------------------------------
At(a, pc) == act[a].pc = pc
Go(a, pc) == act' = [act EXCEPT ![a].pc = pc]
InHand(j) == \E a \in Actors : act[a].pc \notin {"idle", "handle", "gc", "gcWake", "down"} /\ act[a].job = j

\* update_job_status: one write of meta.json under _meta_lock.
Mark(j, st) == meta' = [meta EXCEPT ![j].status = st]
WriteResult(j, st) == result' = [result EXCEPT ![j] = st]
ShredTokens(j) == tokens' = tokens \ {j}

Upset(j, why) == upset' = [upset EXCEPT ![j] = @ \cup why]

\* A write raises: the thread gives the job up where it stands.
Raise(a, pc) ==
    /\ faults < MaxFaults /\ faults' = faults + 1
    /\ Upset(act[a].job, {"raised"})
    /\ Go(a, pc)

----------------------------------------------------------------------------
\* The tool.

\* grok_build: arguments, meter and token are in order; the job is created.
\* _want_async picks the path.
Create(j, async) ==
    /\ At("tool", "idle") /\ meta[j].status = "absent"
    /\ meta' = [meta EXCEPT ![j] = [status |-> "running", pid |-> FALSE, async |-> async]]
    /\ act' = [act EXCEPT !["tool"].pc = "seed", !["tool"].job = j]
    /\ UNCHANGED <<result, tokens, procs, woken, history>>

\* seed_isolated_home writes the token last; it may fail before that.
Seed ==
    LET j == act["tool"].job IN
    /\ At("tool", "seed")
    /\ Go("tool", "spawn")
    /\ tokens' = tokens \cup {j}
    /\ UNCHANGED <<meta, result, procs, woken, history>>

SeedFails ==
    /\ At("tool", "seed") /\ Raise("tool", "orphan")
    /\ UNCHANGED <<files, procs, woken, usage, wakes, deaths>>

\* spawn_grok, or run_grok's Popen; c is what the child will exit with.
Spawn(c) ==
    LET j == act["tool"].job IN
    /\ At("tool", "spawn")
    /\ child' = [child EXCEPT ![j] = "up"]
    /\ code' = [code EXCEPT ![j] = c]
    /\ Go("tool", IF meta[j].async THEN "pid" ELSE "run")
    /\ UNCHANGED <<files, log, due, woken, history>>

SpawnFails ==
    /\ At("tool", "spawn") /\ Raise("tool", "orphan")
    /\ UNCHANGED <<files, procs, woken, usage, wakes, deaths>>

\* update_job(pid, pgid), and the tool returns.
RecordPid ==
    LET j == act["tool"].job IN
    /\ At("tool", "pid")
    /\ meta' = [meta EXCEPT ![j].pid = TRUE]
    /\ Go("tool", "idle")
    /\ UNCHANGED <<result, tokens, procs, woken, history>>

\* communicate() returns, or its timeout kills the group and reaps it.
\* The pipes are not the log: the log is written after, with the pid.
Ran ==
    LET j == act["tool"].job
        killed == child[j] = "up" IN
    /\ At("tool", "run") /\ (killed => j \in due)
    /\ child' = [child EXCEPT ![j] = "gone"]
    /\ act' = [act EXCEPT !["tool"].pc = "ran", !["tool"].timed = killed,
                          !["tool"].code = IF killed THEN "bad" ELSE code[j]]
    /\ UNCHANGED <<files, log, code, due, woken, history>>

RanLogged(out) ==
    LET j == act["tool"].job IN
    /\ At("tool", "ran")
    /\ log' = [log EXCEPT ![j] = out]
    /\ meta' = [meta EXCEPT ![j].pid = TRUE]
    /\ Go("tool", "end")
    /\ UNCHANGED <<result, tokens, child, code, due, woken, history>>

\* _terminalize_orphan: meta, then result.json, then the token.
Orphan ==
    LET j == act["tool"].job IN
    /\ At("tool", "orphan") /\ Mark(j, "failed") /\ Go("tool", "orphanResult")
    /\ UNCHANGED <<result, tokens, procs, woken, history>>

OrphanResult ==
    LET j == act["tool"].job IN
    /\ At("tool", "orphanResult") /\ WriteResult(j, "failed") /\ Go("tool", "shred")
    /\ UNCHANGED <<meta, tokens, procs, woken, history>>

\* waitpid(WNOHANG): only a zombie of this process gives its code.
Reaped(j) == child[j] = "zombie"
Alive(j) == child[j] \in {"up", "stray"}
ReapedCode(j, pid) == IF pid /\ Reaped(j) THEN code[j] ELSE "bad"

AfterReap(j, pid) == [child EXCEPT ![j] = IF pid /\ Reaped(j) THEN "gone" ELSE @]

\* _poll_job: a running job with a recorded pid and no result, whose child
\* has ended, is ended by the tool itself.
Poll(j) ==
    /\ At("tool", "idle") /\ meta[j].status = "running" /\ meta[j].pid
    /\ result[j] = "none" /\ ~Alive(j)
    /\ child' = AfterReap(j, TRUE)
    /\ act' = [act EXCEPT !["tool"] = [Idle EXCEPT !.pc = "end", !.job = j, !.code = ReapedCode(j, TRUE)]]
    /\ UNCHANGED <<files, log, code, due, woken, history>>

----------------------------------------------------------------------------
\* finalize_job, by either thread.

\* A headless error object, or an authentication phrase in the logs of a
\* child that failed.
Classified(out) == out = "error"

\* A NEEDS_HUMAN line wins over the exit code; a required artifact may be
\* missing, which fails the job whatever the exit code is.
Harvested(out, c) == IF out = "human" THEN {"needs_human"} ELSE {"failed"} \cup (IF c = "ok" THEN {"completed"} ELSE {})

Resolve(out, c, timed) == IF timed \/ Classified(out) THEN {"failed"} ELSE Harvested(out, c)

\* record_instrument_usage meters what the log reports; 2 is "more than once".
Meter(j) == usage' = [usage EXCEPT ![j] = IF log[j] = "empty" \/ @ = 2 THEN @ ELSE @ + 1]

\* Ended already: the token is shredded and nothing else happens.
EndKnown(a) ==
    LET j == act[a].job IN
    /\ At(a, "end") /\ result[j] # "none" /\ meta[j].status \in Terminal
    /\ ShredTokens(j)
    /\ act' = [act EXCEPT ![a].pc = IF a = "reaper" THEN "wake" ELSE "idle", ![a].st = meta[j].status]
    /\ UNCHANGED <<meta, result, procs, woken, history>>

\* The usage is metered, then the outcome is resolved.  Nothing is written
\* yet.
End(a) ==
    LET j == act[a].job
        other == \E b \in Actors \ {a} : act[b].pc \in {"end", "result", "status", "shred", "gcRest"} /\ act[b].job = j IN
    /\ At(a, "end") /\ ~(result[j] # "none" /\ meta[j].status \in Terminal)
    /\ Meter(j)
    /\ Upset(j, IF other THEN {"raced"} ELSE {})
    /\ \E st \in Resolve(log[j], act[a].code, act[a].timed) :
          act' = [act EXCEPT ![a].pc = "result", ![a].st = st]
    /\ UNCHANGED <<files, procs, woken, wakes, faults, deaths>>

EndWritesResult(a) ==
    /\ At(a, "result") /\ WriteResult(act[a].job, act[a].st) /\ Go(a, "status")
    /\ UNCHANGED <<meta, tokens, procs, woken, history>>

\* write_result or update_job_status raises: the tool answers skill_failed,
\* after shredding when it was waiting for the job; the reaper goes on.
EndRaises(a) ==
    /\ At(a, "result") /\ Raise(a, IF a = "reaper" THEN "handle" ELSE IF ~meta[act[a].job].async THEN "shred" ELSE "idle")
    /\ UNCHANGED <<files, procs, woken, usage, wakes, deaths>>

EndMarks(a) ==
    /\ At(a, "status") /\ Mark(act[a].job, act[a].st) /\ Go(a, "shred")
    /\ UNCHANGED <<result, tokens, procs, woken, history>>

EndShreds(a) ==
    /\ At(a, "shred") /\ ShredTokens(act[a].job) /\ Go(a, IF a = "reaper" THEN "wake" ELSE "idle")
    /\ UNCHANGED <<meta, result, procs, woken, history>>

----------------------------------------------------------------------------
\* The reaper.

\* _poll_running: list_jobs(status=running) reads every meta.json first.
List ==
    LET running == {j \in Job : meta[j].status = "running"} IN
    /\ At("reaper", "idle") /\ running # {}
    /\ act' = [act EXCEPT !["reaper"] = [Idle EXCEPT !.pc = "handle", !.todo = {<<j, meta[j].pid>> : j \in running}]]
    /\ UNCHANGED <<files, procs, woken, history>>

ListDone ==
    /\ At("reaper", "handle") /\ act["reaper"].todo = {} /\ Go("reaper", "idle")
    /\ UNCHANGED <<files, procs, woken, history>>

\* Take entry <<j, pid>> of the list to step pc.
Take(j, pid, pc, c, timed, st) ==
    act' = [act EXCEPT !["reaper"] = [pc |-> pc, job |-> j, code |-> c, timed |-> timed, st |-> st,
                                      todo |-> @.todo \ {<<j, pid>>}, gcd |-> {}]]

\* The tool had not got as far as recording the pid when the list was read,
\* and is not waiting for the child itself.
EndedEarly(j, pid) == Upset(j, IF ~pid /\ ~(act["tool"].job = j /\ act["tool"].pc \in {"run", "ran", "end"}) THEN {"early"} ELSE {})

\* MUTANT: the child is killed and the job left to the next poll, which
\* finds it overdue again.
OverdueOnlyKills(j, pid) ==
    /\ At("reaper", "handle") /\ <<j, pid>> \in act["reaper"].todo /\ j \in due
    /\ child' = [child EXCEPT ![j] = IF pid /\ @ # "none" THEN "gone" ELSE @]
    /\ Take(j, pid, "handle", "bad", TRUE, "failed")
    /\ UNCHANGED <<files, log, code, due, woken, history>>

\* SIGTERM, then SIGKILL, to the recorded group, and the zombie is reaped.
Killed(j, pid) == [child EXCEPT ![j] = IF pid /\ @ # "none" THEN "gone" ELSE @]

\* Past its timeout: the group is killed, the child reaped, the job fails.
HandleOverdue(j, pid) ==
    /\ At("reaper", "handle") /\ <<j, pid>> \in act["reaper"].todo /\ j \in due
    /\ child' = Killed(j, pid)
    /\ Take(j, pid, "end", "bad", TRUE, "failed") /\ EndedEarly(j, pid)
    /\ UNCHANGED <<files, log, code, due, woken, usage, wakes, faults, deaths>>

\* The child lives, or no pid is recorded and the log is still empty.
HandleLeaves(j, pid) ==
    /\ At("reaper", "handle") /\ <<j, pid>> \in act["reaper"].todo /\ j \notin due
    /\ IF pid THEN Alive(j) ELSE result[j] = "none" /\ log[j] = "empty"
    /\ Take(j, pid, "handle", "bad", FALSE, "failed")
    /\ UNCHANGED <<files, procs, woken, history>>

\* A result is there though the job is running: only mark and wake.
HandleResult(j, pid) ==
    /\ At("reaper", "handle") /\ <<j, pid>> \in act["reaper"].todo /\ j \notin due
    /\ ~(pid /\ Alive(j)) /\ result[j] # "none"
    /\ child' = AfterReap(j, pid)
    /\ Take(j, pid, "status", "bad", FALSE, result[j])
    /\ UNCHANGED <<files, log, code, due, woken, history>>

\* Gone: an exit code nobody saw counts as a failure.
HandleGone(j, pid) ==
    /\ At("reaper", "handle") /\ <<j, pid>> \in act["reaper"].todo /\ j \notin due
    /\ ~(pid /\ Alive(j)) /\ result[j] = "none" /\ (pid \/ log[j] # "empty")
    /\ child' = AfterReap(j, pid)
    /\ Take(j, pid, "end", ReapedCode(j, pid), FALSE, "failed") /\ EndedEarly(j, pid)
    /\ UNCHANGED <<files, log, code, due, woken, usage, wakes, faults, deaths>>

\* _enqueue_completion: once per job and process.
EnqueueCompletion ==
    LET j == act["reaper"].job IN
    /\ At("reaper", "wake") /\ Go("reaper", "handle")
    /\ woken' = woken \cup {j}
    /\ wakes' = [wakes EXCEPT ![j] = @ + IF j \in woken THEN 0 ELSE 1]
    /\ UNCHANGED <<files, procs, usage, upset, faults, deaths>>

\* The queue cannot be written: the job is terminal, nothing tries again.
EnqueueRaises ==
    /\ At("reaper", "wake") /\ act["reaper"].job \notin woken /\ Raise("reaper", "handle")
    /\ UNCHANGED <<files, procs, woken, usage, wakes, deaths>>

----------------------------------------------------------------------------
\* gc_interrupted, before the threads run.  The token of a job that is
\* terminal already is only shredded if .access_cache is left, which
\* seed_isolated_home does not write.
GcMark(j) ==
    /\ At("reaper", "gc") /\ meta[j].status = "running" /\ j \notin act["reaper"].gcd
    /\ ~(meta[j].pid /\ Alive(j)) \/ j \in due
    /\ Mark(j, "interrupted")
    /\ act' = [act EXCEPT !["reaper"].pc = "gcRest", !["reaper"].job = j]
    /\ UNCHANGED <<result, tokens, procs, woken, history>>

GcRest ==
    LET j == act["reaper"].job IN
    /\ At("reaper", "gcRest")
    /\ ShredTokens(j)
    /\ result' = [result EXCEPT ![j] = IF @ = "none" THEN "interrupted" ELSE @]
    /\ act' = [act EXCEPT !["reaper"].pc = "gc", !["reaper"].gcd = @ \cup {j}]
    /\ UNCHANGED <<meta, procs, woken, history>>

GcDone ==
    /\ At("reaper", "gc")
    /\ \A j \in Job : meta[j].status = "running" => (meta[j].pid /\ Alive(j) /\ j \notin due)
    /\ Go("reaper", "gcWake")
    /\ UNCHANGED <<files, procs, woken, history>>

\* The wakes of the marked jobs, then both threads start.
GcWake ==
    LET fresh == act["reaper"].gcd \ woken IN
    /\ At("reaper", "gcWake")
    /\ wakes' = [j \in Job |-> wakes[j] + IF j \in fresh THEN 1 ELSE 0]
    /\ woken' = woken \cup fresh
    /\ act' = [a \in Actors |-> Idle]
    /\ UNCHANGED <<files, procs, usage, upset, faults, deaths>>

----------------------------------------------------------------------------
\* The children and the clock.

\* A child of async mode writes its log as it goes.
ChildWrites(j, out) ==
    /\ Alive(j) /\ meta[j].async /\ log[j] = "empty"
    /\ log' = [log EXCEPT ![j] = out]
    /\ UNCHANGED <<files, child, code, due, act, woken, history>>

\* A child of this process stays a zombie until it is reaped.
ChildExits(j) ==
    /\ Alive(j)
    /\ child' = [child EXCEPT ![j] = IF @ = "up" THEN "zombie" ELSE "gone"]
    /\ UNCHANGED <<files, log, code, due, act, woken, history>>

Overdue(j) ==
    /\ j \notin due /\ meta[j].status = "running"
    /\ due' = due \cup {j}
    /\ UNCHANGED <<files, log, child, code, act, woken, history>>

Die ==
    /\ deaths < MaxDeaths /\ deaths' = deaths + 1
    /\ upset' = [j \in Job |-> upset[j] \cup (IF InHand(j) \/ (At("reaper", "gcWake") /\ j \in act["reaper"].gcd) \/ (At("reaper", "gc") /\ j \in act["reaper"].gcd) THEN {"died"} ELSE {})]
    /\ woken' = {}
    /\ child' = [j \in Job |-> CASE child[j] = "up" -> "stray" [] child[j] = "zombie" -> "gone" [] OTHER -> child[j]]
    /\ act' = [a \in Actors |-> [Idle EXCEPT !.pc = IF a = "tool" THEN "down" ELSE "gc"]]
    /\ UNCHANGED <<files, log, code, due, usage, wakes, faults>>

ToolStep == \/ Seed \/ SeedFails \/ \E c \in {"ok", "bad"} : Spawn(c)
            \/ SpawnFails \/ RecordPid \/ Ran \/ \E out \in {"text", "human", "error"} : RanLogged(out)
            \/ Orphan \/ OrphanResult
EndStep(a) == EndKnown(a) \/ End(a) \/ EndWritesResult(a) \/ EndRaises(a) \/ EndMarks(a) \/ EndShreds(a)
ReaperStep == \/ List \/ ListDone \/ EnqueueCompletion \/ EnqueueRaises
              \/ \E j \in Job, pid \in BOOLEAN : HandleOverdue(j, pid) \/ HandleLeaves(j, pid) \/ HandleResult(j, pid) \/ HandleGone(j, pid)
              \/ \E j \in Job : GcMark(j)
              \/ GcRest \/ GcDone \/ GcWake

Next == \/ ToolStep \/ ReaperStep \/ \E a \in Actors : EndStep(a)
        \/ \E j \in Job : (\E async \in BOOLEAN : Create(j, async)) \/ Poll(j) \/ ChildExits(j) \/ Overdue(j)
        \/ \E j \in Job, out \in {"text", "human", "error"} : ChildWrites(j, out)
        \/ Die

\* Both threads run, the wall clock reaches every timeout.
Fairness == /\ WF_vars(ToolStep \/ EndStep("tool")) /\ WF_vars(ReaperStep \/ EndStep("reaper"))
            /\ \A j \in Job : WF_vars(Overdue(j))

Spec == Init /\ [][Next]_vars /\ Fairness

----------------------------------------------------------------------------
Ended(j) == meta[j].status \in Terminal /\ ~InHand(j)

\* A job is announced at most once whatever restarts, polls and timeouts do
\* (the wake of a finished build would run another bout), and never before
\* its outcome can be read: _enqueue_completion and gc_interrupted.
WokenOnceWhenDone ==
    \A j \in Job : /\ wakes[j] <= 1
                   /\ wakes[j] = 1 => meta[j].status \in Terminal /\ result[j] # "none"

\* A build that was over before anybody gave it up is metered once:
\* finalize_job records the usage before it writes anything, so only a race
\* of the two threads, a death or a failed write may count it again.
MeteredOnce == \A j \in Job : upset[j] = {} => usage[j] <= 1

\* meta.json and result.json tell the same outcome, no token and no process
\* of the job is left, once nobody works on it and nothing went wrong while
\* somebody did (finalize_job, _terminalize_orphan, HandleOverdue).
EndsClean ==
    \A j \in Job : Ended(j) /\ upset[j] = {} =>
        /\ result[j] \in {meta[j].status} \cup (IF meta[j].status = "interrupted" THEN Terminal ELSE {})
        /\ j \notin tokens
        /\ Alive(j) => meta[j].status = "interrupted"

\* A build reported complete ended with exit code 0 seen by whoever reaped
\* it: an unknown exit is never a success (KD-F14).
CompletedWasSeen == \A j \in Job : meta[j].status = "completed" => code[j] = "ok" /\ child[j] = "gone"

\* Every job that is created ends, even when its child hangs, its pid was
\* never recorded or the process dies on the way: the timeout, the reaper
\* and the start-up collection between them leave no job running.
EveryJobEnds == \A j \in Job : meta[j].status = "running" ~> meta[j].status \in Terminal

\* Whoever ends a job, the tool, the reaper or a restart, and in whatever order: it
\* is announced once, metered once, leaves no child and no token behind, is called
\* completed only if its child was seen to end well; and every job ends.
JobsPromise ==
  /\ [](TypeOK /\ WokenOnceWhenDone /\ MeteredOnce /\ EndsClean /\ CompletedWasSeen)
  /\ EveryJobEnds
=============================================================================
