-------------------------------- MODULE Sandbox --------------------------------
(***************************************************************************)
(* The life of the one microsandbox VM (elyra/sandbox/lifecycle.py,        *)
(* async_bridge.py), the curated Python environment inside it              *)
(* (sandbox/pyenv.py, tools/builtin/sandbox_packages.py) and the guest     *)
(* commands run in it (the exec half of tools/guest_exec.py).              *)
(*                                                                         *)
(* Three threads meet here: the supervisor's warm thread (ensure, then     *)
(* pip), the presence worker (guest commands and sandbox_pip_update) and   *)
(* the supervisor's main thread (shutdown).  They share the connection     *)
(* cache, guarded by one lock that is given up on after five seconds, the  *)
(* bridge, the requirements file and its marker.                           *)
(*                                                                         *)
(* Every call of the VM's client is one step; it may work, raise with or   *)
(* without having had its effect, or use up the wall-clock budget of the   *)
(* ensure.  The VM, its disk and pip are external: pip --user writes to    *)
(* the VM's own disk, which a remove and create loses.  Fingerprints other *)
(* than the network policy are constant and are left out.                  *)
(***************************************************************************)
EXTENDS Integers, FiniteSets

CONSTANTS Pkgs, Policies, MaxGens, MaxFaults, MaxCrashes, MaxOps, MaxStarts

VARIABLES
    vm,         \* the VM: status, generation, create-time policy, user-site
    lock,       \* holder of the instance lock, or "none"
    con, ready, \* _connected (a generation, 0 for none) and _ready
    fps,        \* _fingerprints, in memory: a policy or "none"
    bridge,     \* the bridge is open
    policy,     \* ELYRA_SANDBOX_NETWORK of this process
    pc, h,      \* per thread: where it is, and the connection it was given
    goal,       \* per thread: "ensure", "run" (a guest command) or "pip"
    attempt,    \* the worker's attempt at a guest command, 0 or 1
    reqs,       \* requirements-curated.txt, as a set
    orig,       \* the worker's copy of it from before its change
    marker,     \* .elyra_pyenv_ready: the set hashed into it, or NoMarker
    digest,     \* per thread: the hash its install began with
    stopping,   \* _sandbox_stop
    straggler,  \* history: a thread outlived its join, or shutdown had no lock
    unstopped,  \* history: shutdown could not stop the VM
    lostSite,   \* history: a VM with packages was removed
    crossed,    \* history: two installs overlapped
    faults, crashes, ops, starts

vars == <<vm, lock, con, ready, fps, bridge, policy, pc, h, goal, attempt, reqs, orig, marker,
          digest, stopping, straggler, unstopped, lostSite, crossed, faults, crashes, ops, starts>>

cache == <<con, ready, fps>>
env   == <<reqs, orig, marker, digest, crossed>>
life  == <<bridge, policy, stopping, straggler, unstopped, crashes, ops, starts>>
work  == <<goal, attempt>>

Users    == {"warm", "tool"}
NoMarker == Pkgs \cup {"absent"}
Required == CHOOSE p \in Pkgs : TRUE
EnsurePcs == {"get", "connect", "start", "drain", "ping", "rget", "kill", "remove", "create", "mounts"}
LockedPcs == EnsurePcs \cup {"cached", "exec", "pip"}

Fresh(t) == IF t = "warm" THEN "lock" ELSE IF t = "tool" THEN "idle" ELSE "up"

Init ==
    /\ vm \in {[st |-> s, gen |-> 1, policy |-> "open", site |-> {}] : s \in {"none", "stopped"}}
    /\ lock = "none" /\ con = 0 /\ ready = FALSE /\ fps = "none"
    /\ bridge = TRUE /\ policy = "open"
    /\ pc = [t \in Users \cup {"main"} |-> Fresh(t)]
    /\ h = [t \in Users |-> 0]
    /\ goal = [t \in Users |-> IF t = "warm" THEN "ensure" ELSE "run"] /\ attempt = 0
    /\ reqs = Pkgs /\ orig = Pkgs /\ marker = NoMarker
    /\ digest = [t \in Users |-> {}]
    /\ stopping = FALSE /\ straggler = FALSE /\ unstopped = FALSE
    /\ lostSite = FALSE /\ crossed = FALSE
    /\ faults = 0 /\ crashes = 0 /\ ops = 0 /\ starts = 1

Goto(t, l) == pc' = [pc EXCEPT ![t] = l]

\* pyenv_ready: the marker's hash is that of the requirements.
PyenvReady == marker = reqs

\* is_ready
IsReady == ready /\ con # 0

Alive(g) == vm.st = "running" /\ vm.gen = g

\* full_readiness: the host tree and the guest's probes
ProbesPass(g) == Alive(g)

(***************************************************************************)
(* AsyncBridge.run: a call works, or raises because the bridge is closed   *)
(* or by a fault.                                                          *)
(***************************************************************************)
Works  == bridge /\ UNCHANGED faults
Raises == \/ ~bridge /\ UNCHANGED faults
          \/ faults < MaxFaults /\ faults' = faults + 1

FailsIf(cond) == \/ Works /\ cond
                 \/ Raises

\* where a thread goes when it could not get a usable sandbox
GiveUp(t) == Goto(t, CASE goal[t] = "ensure" -> "done"
                       [] goal[t] = "run"    -> "retry"
                       [] goal[t] = "pip"    -> "failed")

\* _clear_cache, which leaves the fingerprint
Clear == con' = 0 /\ ready' = FALSE /\ UNCHANGED fps

\* _degraded, and the lock's release
Degrade(t) == Clear /\ lock' = "none" /\ GiveUp(t) /\ UNCHANGED h

\* _recreate_once begins
Recreate(t) == Clear /\ Goto(t, "rget") /\ UNCHANGED <<h, lock>>

\* with_ready_sandbox yields under the lock; the warm thread's ensure lets go of it
Yield(t, g) == h' = [h EXCEPT ![t] = g]
               /\ Goto(t, CASE goal[t] = "ensure" -> "ensured" [] goal[t] = "run" -> "exec" [] OTHER -> "pip")
               /\ lock' = IF goal[t] = "ensure" THEN "none" ELSE lock

(***************************************************************************)
(* The lock, waited for five seconds.                                      *)
(***************************************************************************)
AcquireAnyway(t) == \* MUTANT
    /\ pc[t] = "lock"
    /\ lock' = t
    /\ Goto(t, IF goal[t] # "ensure" /\ IsReady THEN "cached" ELSE "get")
    /\ UNCHANGED <<vm, cache, h, env, life, work, faults, lostSite>>
Acquire(t) ==
    /\ pc[t] = "lock" /\ lock = "none"
    /\ lock' = t
    /\ Goto(t, IF goal[t] # "ensure" /\ IsReady THEN "cached" ELSE "get")
    /\ UNCHANGED <<vm, cache, h, env, life, work, faults, lostSite>>

\* lock_timeout: the cache is left alone
LockTimeout(t) ==
    /\ pc[t] = "lock" /\ lock \notin {"none", t}
    /\ GiveUp(t)
    /\ UNCHANGED <<vm, lock, cache, h, env, life, work, faults, lostSite>>

(***************************************************************************)
(* with_ready_sandbox and ensure.                                          *)
(***************************************************************************)
\* The cached connection is pinged; one that fails sends it to ensure.
CachedPing(t) ==
    /\ pc[t] = "cached"
    /\ \/ Works /\ Alive(con) /\ Yield(t, con)
       \/ FailsIf(~Alive(con)) /\ Goto(t, "get") /\ UNCHANGED <<h, lock>>
    /\ UNCHANGED <<vm, cache, env, life, work, lostSite>>

\* _ensure_locked reads the VM's status.
Get(t) ==
    /\ pc[t] = "get"
    /\ \/ Works /\ IF vm.st # "none" /\ (vm.st = "crashed" \/ fps \notin {"none", policy})
                   THEN Recreate(t)
                   ELSE /\ Goto(t, CASE vm.st = "none" -> "create" [] vm.st = "running" -> "connect"
                                     [] vm.st = "stopped" -> "start" [] vm.st = "draining" -> "drain")
                        /\ UNCHANGED <<cache, h, lock>>
       \/ Raises /\ Degrade(t)
    /\ UNCHANGED <<vm, env, life, work, lostSite>>

\* _handle_running connects.
Connect(t) ==
    /\ pc[t] = "connect"
    /\ \/ Works /\ vm.st = "running" /\ h' = [h EXCEPT ![t] = vm.gen] /\ Goto(t, "ping") /\ UNCHANGED <<cache, lock>>
       \/ FailsIf(vm.st # "running") /\ Recreate(t)
    /\ UNCHANGED <<vm, env, life, work, lostSite>>

\* _handle_stopped starts the VM; a start that raises may have worked.
Start(t) ==
    /\ pc[t] = "start"
    /\ \/ Works /\ vm.st = "stopped" /\ vm' = [vm EXCEPT !.st = "running"]
          /\ h' = [h EXCEPT ![t] = vm.gen] /\ Goto(t, "ping") /\ UNCHANGED <<cache, lock>>
       \/ FailsIf(vm.st # "stopped") /\ Recreate(t) /\ UNCHANGED vm
       \/ bridge /\ Raises /\ vm.st = "stopped" /\ vm' = [vm EXCEPT !.st = "running"] /\ Recreate(t)
    /\ UNCHANGED <<env, life, work, lostSite>>

\* _handle_draining waits for the VM to stop.
Drain(t) ==
    /\ pc[t] = "drain"
    /\ \/ Works /\ vm' = [vm EXCEPT !.st = IF @ = "draining" THEN "stopped" ELSE @]
          /\ Goto(t, "start") /\ UNCHANGED <<cache, h, lock>>
       \/ Raises /\ Recreate(t) /\ UNCHANGED vm
    /\ UNCHANGED <<env, life, work, lostSite>>

\* the ping of a connection just made
Ping(t) ==
    /\ pc[t] = "ping"
    /\ \/ Works /\ Alive(h[t]) /\ Goto(t, "mounts") /\ UNCHANGED <<cache, h, lock>>
       \/ FailsIf(~Alive(h[t])) /\ Recreate(t)
    /\ UNCHANGED <<vm, env, life, work, lostSite>>

\* _recreate_once: a running VM is killed first
RecreateGet(t) ==
    /\ pc[t] = "rget" /\ (Works \/ Raises)
    /\ Goto(t, IF faults' = faults /\ bridge /\ vm.st = "running" THEN "kill" ELSE "remove")
    /\ UNCHANGED <<vm, cache, h, lock, env, life, work, lostSite>>

Kill(t) ==
    /\ pc[t] = "kill"
    /\ \/ Works /\ vm' = [vm EXCEPT !.st = IF @ = "running" THEN "stopped" ELSE @]
       \/ Raises /\ UNCHANGED vm
    /\ Goto(t, "remove")
    /\ UNCHANGED <<cache, h, lock, env, life, work, lostSite>>

\* a remove that fails is only logged
Remove(t) ==
    /\ pc[t] = "remove"
    /\ \/ Works /\ vm.st # "running" /\ vm' = [vm EXCEPT !.st = "none", !.site = {}]
          /\ lostSite' = (lostSite \/ vm.site # {})
       \/ FailsIf(vm.st = "running") /\ UNCHANGED <<vm, lostSite>>
    /\ Goto(t, "create")
    /\ UNCHANGED <<cache, h, lock, env, life, work>>

Created == [st |-> "running", gen |-> vm.gen + 1, policy |-> policy, site |-> {}]

\* _create_and_ready: a create that raises may have worked.
Create(t) ==
    /\ pc[t] = "create" /\ vm.gen < MaxGens
    /\ \/ Works /\ vm.st = "none" /\ vm' = Created
          /\ h' = [h EXCEPT ![t] = vm.gen + 1] /\ Goto(t, "mounts") /\ UNCHANGED <<cache, lock>>
       \/ FailsIf(vm.st # "none") /\ Degrade(t) /\ UNCHANGED vm
       \/ bridge /\ Raises /\ vm.st = "none" /\ vm' = Created /\ Degrade(t)
    /\ UNCHANGED <<env, life, work, lostSite>>

\* _ready_if_mounts: the probes, the detach, and the cache is filled.
Mounts(t) ==
    /\ pc[t] = "mounts"
    /\ \/ Works /\ ProbesPass(h[t]) /\ con' = h[t] /\ ready' = TRUE /\ fps' = policy /\ Yield(t, h[t])
       \/ FailsIf(~ProbesPass(h[t])) /\ Degrade(t)
    /\ UNCHANGED <<vm, env, life, work, lostSite>>

\* The wall-clock budget is spent: ensure degrades, with_ready_sandbox only raises.
WallTimeout(t) ==
    /\ pc[t] \in EnsurePcs \cup {"cached"}
    /\ faults < MaxFaults /\ faults' = faults + 1
    /\ IF goal[t] = "ensure" THEN Degrade(t)
       ELSE lock' = "none" /\ GiveUp(t) /\ UNCHANGED <<cache, h>>
    /\ UNCHANGED <<vm, env, life, work, lostSite>>

EnsureStep(t) ==
    \/ Acquire(t) \/ LockTimeout(t) \/ CachedPing(t) \/ Get(t) \/ Connect(t) \/ Start(t) \/ Drain(t)
    \/ Ping(t) \/ RecreateGet(t) \/ Kill(t) \/ Remove(t) \/ Create(t) \/ Mounts(t) \/ WallTimeout(t)

(***************************************************************************)
(* A guest command of the worker: one try and, when the sandbox seems to   *)
(* have died, one more.                                                    *)
(***************************************************************************)
Run ==
    /\ pc["tool"] = "idle" /\ ~stopping /\ ops < MaxOps
    /\ ops' = ops + 1 /\ goal' = [goal EXCEPT !["tool"] = "run"] /\ attempt' = 0 /\ Goto("tool", "lock")
    /\ UNCHANGED <<vm, lock, cache, h, env, bridge, policy, stopping, straggler, unstopped, crashes, starts, faults, lostSite>>

\* _exec_once: a result or a timeout ends the call; an error, or a failure
\* with no output, which is taken for a crash, is tried again.
Exec ==
    /\ pc["tool"] = "exec"
    /\ \/ Works /\ Alive(h["tool"]) /\ Goto("tool", "idle")
       \/ bridge /\ Raises /\ Goto("tool", "idle")
       \/ (Works \/ Raises) /\ Goto("tool", "retry")
    /\ lock' = "none"
    /\ UNCHANGED <<vm, cache, h, env, life, work, lostSite>>

\* The cache is dropped without the lock before the second try.
Retry ==
    /\ pc["tool"] = "retry"
    /\ IF attempt = 0
       THEN Clear /\ attempt' = 1 /\ Goto("tool", "lock")
       ELSE Goto("tool", "idle") /\ UNCHANGED <<cache, attempt>>
    /\ UNCHANGED <<vm, lock, h, goal, env, life, faults, lostSite>>

(***************************************************************************)
(* The curated environment.                                                *)
(***************************************************************************)
Other(t) == IF t = "warm" THEN "tool" ELSE "warm"
Installing(t) == goal[t] = "pip" /\ pc[t] \notin {"idle", "done"}

\* what may be written: no required package goes, and something changes
Changed(new) == Required \in new /\ new # reqs

\* sandbox_pip_update writes the new requirements ...
Update ==
    /\ pc["tool"] = "idle" /\ ~stopping /\ ops < MaxOps /\ policy # "none"
    /\ \E new \in SUBSET Pkgs : Changed(new) /\ reqs' = new
    /\ orig' = reqs /\ ops' = ops + 1
    /\ goal' = [goal EXCEPT !["tool"] = "pip"] /\ Goto("tool", "clear")
    /\ crossed' = (crossed \/ Installing("warm"))
    /\ UNCHANGED <<vm, lock, cache, h, marker, digest, attempt, bridge, policy, stopping, straggler, unstopped, crashes, starts, faults, lostSite>>

\* ... and drops the marker.
ClearMarker ==
    /\ pc["tool"] = "clear"
    /\ marker' = NoMarker /\ Goto("tool", "install")
    /\ UNCHANGED <<vm, lock, cache, h, work, reqs, orig, digest, crossed, life, faults, lostSite>>

\* The warm thread goes on to the install unless told to stop.
WarmReady ==
    /\ pc["warm"] = "ensured"
    /\ IF stopping THEN Goto("warm", "done") /\ UNCHANGED goal
       ELSE Goto("warm", "install") /\ goal' = [goal EXCEPT !["warm"] = "pip"]
    /\ UNCHANGED <<vm, lock, cache, h, attempt, env, life, faults, lostSite>>

\* try_install_curated_pyenv: the hash is taken, and the tool's call is forced.
Install(t) ==
    /\ pc[t] = "install"
    /\ digest' = [digest EXCEPT ![t] = reqs]
    /\ Goto(t, CASE t = "warm" /\ PyenvReady -> "done" [] ~IsReady -> "failed" [] OTHER -> "lock")
    /\ crossed' = (crossed \/ Installing(Other(t)))
    /\ UNCHANGED <<vm, lock, cache, h, work, reqs, orig, marker, life, faults, lostSite>>

\* pip install --user -r, under the lock; it reads the file as it is by then
Pip(t) ==
    /\ pc[t] = "pip"
    /\ \/ Works /\ Alive(h[t]) /\ vm.policy # "none" /\ vm' = [vm EXCEPT !.site = @ \cup reqs] /\ Goto(t, "mark")
       \/ (Works \/ Raises) /\ Goto(t, "failed")
          /\ vm' \in {vm} \cup {[vm EXCEPT !.site = @ \cup part] : part \in IF bridge /\ Alive(h[t]) THEN SUBSET reqs ELSE {}}
    /\ lock' = "none"
    /\ UNCHANGED <<cache, h, env, life, work, lostSite>>

\* write_pyenv_marker with the hash taken at the start, and the check that follows
Mark(t) ==
    /\ pc[t] = "mark"
    /\ marker' = digest[t]
    /\ Goto(t, IF digest[t] # reqs THEN "failed" ELSE IF t = "warm" THEN "done" ELSE "idle")
    /\ UNCHANGED <<vm, lock, cache, h, work, reqs, orig, digest, crossed, life, faults, lostSite>>

\* A failed install: the tool puts the requirements back and drops the marker.
Failed(t) ==
    /\ pc[t] = "failed"
    /\ IF t = "warm" THEN UNCHANGED <<reqs, marker, faults>>
       ELSE /\ marker' = NoMarker
            /\ \/ reqs' = orig /\ UNCHANGED faults
               \/ UNCHANGED reqs /\ faults < MaxFaults /\ faults' = faults + 1
    /\ Goto(t, IF t = "warm" THEN "done" ELSE "idle")
    /\ UNCHANGED <<vm, lock, cache, h, work, orig, digest, crossed, life, lostSite>>

(***************************************************************************)
(* Shutdown by the supervisor, and the next process.                       *)
(***************************************************************************)
Stop ==
    /\ pc["main"] = "up"
    /\ stopping' = TRUE /\ Goto("main", "join")
    /\ UNCHANGED <<vm, lock, cache, h, work, env, bridge, policy, straggler, unstopped, crashes, ops, starts, faults, lostSite>>

\* The joins of the worker and of the warm thread, each given up after a while.
Join ==
    /\ pc["main"] = "join"
    /\ straggler' = (pc["tool"] # "idle" \/ pc["warm"] # "done")
    /\ Goto("main", "mlock")
    /\ UNCHANGED <<vm, lock, cache, h, work, env, bridge, policy, stopping, unstopped, crashes, ops, starts, faults, lostSite>>

\* shutdown takes the lock, or goes on without it.
MainLock ==
    /\ pc["main"] = "mlock"
    /\ lock' = IF lock = "none" THEN "main" ELSE lock
    /\ straggler' = (straggler \/ lock # "none")
    /\ Goto("main", "mstop")
    /\ UNCHANGED <<vm, cache, h, work, env, bridge, policy, stopping, unstopped, crashes, ops, starts, faults, lostSite>>

\* _stop_instance: the connection at hand, else whatever runs under the name
MainStop ==
    /\ pc["main"] = "mstop"
    /\ \/ Works /\ vm' = [vm EXCEPT !.st = IF @ \in {"running", "draining"} THEN "stopped" ELSE @] /\ UNCHANGED unstopped
       \/ Raises /\ unstopped' = TRUE /\ vm' \in {vm, [vm EXCEPT !.st = IF @ = "running" THEN "draining" ELSE @]}
    /\ Goto("main", "mclear")
    /\ UNCHANGED <<lock, cache, h, work, env, bridge, policy, stopping, straggler, crashes, ops, starts, lostSite>>

MainClear ==
    /\ pc["main"] = "mclear"
    /\ con' = 0 /\ ready' = FALSE /\ fps' = "none"
    /\ lock' = IF lock = "main" THEN "none" ELSE lock
    /\ Goto("main", "mclose")
    /\ UNCHANGED <<vm, h, work, env, life, faults, lostSite>>

\* AsyncBridge.shutdown
MainClose ==
    /\ pc["main"] = "mclose"
    /\ bridge' = FALSE /\ Goto("main", "down")
    /\ UNCHANGED <<vm, lock, cache, h, work, env, policy, stopping, straggler, unstopped, crashes, ops, starts, faults, lostSite>>

\* The process ends, in good order or not, and another starts; the VM, which is
\* detached, and the files stay.
Restart ==
    /\ starts < MaxStarts
    /\ starts' = starts + 1
    /\ policy' \in Policies
    /\ lock' = "none" /\ con' = 0 /\ ready' = FALSE /\ fps' = "none" /\ bridge' = TRUE
    /\ pc' = [t \in Users \cup {"main"} |-> Fresh(t)] /\ h' = [t \in Users |-> 0]
    /\ goal' = [t \in Users |-> IF t = "warm" THEN "ensure" ELSE "run"] /\ attempt' = 0
    /\ digest' = [t \in Users |-> {}]
    /\ stopping' = FALSE /\ straggler' = FALSE /\ unstopped' = FALSE
    /\ UNCHANGED <<vm, reqs, orig, marker, lostSite, crossed, faults, crashes, ops>>

\* The VM dies by itself.
VmCrashes ==
    /\ vm.st = "running" /\ crashes < MaxCrashes
    /\ crashes' = crashes + 1 /\ vm' = [vm EXCEPT !.st = "crashed"]
    /\ UNCHANGED <<lock, cache, pc, h, work, env, bridge, policy, stopping, straggler, unstopped, ops, starts, faults, lostSite>>

Next ==
    \/ \E t \in Users : EnsureStep(t) \/ Install(t) \/ Pip(t) \/ Mark(t) \/ Failed(t)
    \/ Run \/ Exec \/ Retry \/ Update \/ ClearMarker \/ WarmReady
    \/ Stop \/ Join \/ MainLock \/ MainStop \/ MainClear \/ MainClose \/ Restart \/ VmCrashes

Spec == Init /\ [][Next]_vars

--------------------------------------------------------------------------------
TypeOK ==
    /\ vm \in [st : {"none", "running", "stopped", "crashed", "draining"}, gen : 1..MaxGens,
               policy : Policies, site : SUBSET Pkgs]
    /\ lock \in Users \cup {"main", "none"}
    /\ con \in 0..MaxGens /\ ready \in BOOLEAN /\ fps \in Policies \cup {"none"}
    /\ reqs \in SUBSET Pkgs /\ marker \in (SUBSET Pkgs) \cup {NoMarker}

\* A thread inside a sandbox holds the lock and the VM it was given is the one
\* that exists: nobody removes or recreates a VM in use, and every early return
\* has let go of the lock (with_ready_sandbox).
ExclusiveUse ==
    \A t \in Users :
        /\ pc[t] \in LockedPcs <=> lock = t
        /\ pc[t] \in {"exec", "pip"} => vm.gen = h[t] /\ vm.st # "none"

\* After a shutdown that waited for the other threads and got its stop through,
\* no VM runs and no connection is cached, whatever failed before it: also one
\* created by a call that was taken for failed.
StoppedAtShutdown ==
    pc["main"] = "down" /\ ~straggler /\ ~unstopped => vm.st # "running" /\ con = 0

\* pyenv_ready is not claimed of an environment that was not installed, across
\* failed installs, reverts, process deaths and lock timeouts, as long as no VM
\* with packages was removed and no two installs overlapped.
ReadyMeansInstalled == PyenvReady /\ ~lostSite /\ ~crossed => reqs \subseteq vm.site

\* pyenv_ready is not claimed of a VM that lacks the packages, the removal of the
\* VM included (overlapping installs aside).
ReadySurvivesRecreate == PyenvReady /\ ~crossed => reqs \subseteq vm.site

\* A connected VM has the network policy this process was started with.
PolicyEnforced == IsReady => vm.policy = policy

\* One VM is used by one ensure at a time, it is stopped after a shutdown, and a
\* marker that says ready means that the packages are installed.
SandboxHolds == TypeOK /\ ExclusiveUse /\ StoppedAtShutdown /\ ReadyMeansInstalled
================================================================================
