------------------------------ MODULE MCRuntime ------------------------------
(***************************************************************************)
(* The runtime around the presence worker: the growth of tools and skills, *)
(* which this module extends, and each on its own small instance the usage *)
(* meter, the provider runtime with its OAuth bundle, browser sessions,    *)
(* the sandbox and its staged packages.  The parts share no state here; a  *)
(* behaviour exercises the one that focus names and leaves the others as   *)
(* they start.  The meter, the provider and the sandbox are run without    *)
(* faults, and with a fault and a shorter life.                            *)
(***************************************************************************)
EXTENDS Growth, Integers, Sequences

CONSTANTS StageFiles, MaxVer, StageCalls, StageFaults, StageDeaths, MaxUnseen,  \* GuestStage
          MaxTok, ProviderOps, MaxBusy, ProviderFaults,                          \* Provider
          MeterCallers, MaxCall, WeekLimit, DayLimit, Burst, DayLen, WeekLen,
          BillShift, StaleAfter, MaxTime, MaxLedger, MeterFaults, MeterOps,      \* UsageMeter
           SandboxPkgs, SandboxPolicies, MaxGens, SandboxFaults, MaxCrashes,
           SandboxOps, MaxStarts,                                                 \* Sandbox
           MaxSessions, MaxJobs, MaxTimeouts, BrowserFaults                       \* Browser

\* A package has its runner's module, and there is a first version of it.
ASSUME StageAssumption == "main" \in StageFiles /\ MaxVer \in Nat \ {0}

\* The service has issued a token.
ASSUME ProviderAssumption == MaxTok \in Nat \ {0} /\ ProviderOps \in Nat

\* Windows and limits are not empty; a billing period leads its ISO week by less
\* than a week.
ASSUME MeterAssumption ==
  /\ IsFiniteSet(MeterCallers)
  /\ {MaxCall, WeekLimit, DayLen, WeekLen} \subseteq Nat \ {0}
  /\ {DayLimit, Burst, BillShift, StaleAfter, MaxTime, MeterOps} \subseteq Nat
  /\ BillShift < WeekLen

\* The first process is started with the network open; no package is called "absent",
\* the element that tells a missing marker from any set of packages.
ASSUME SandboxAssumption ==
  /\ "open" \in SandboxPolicies /\ "absent" \notin SandboxPkgs
  /\ MaxGens \in Nat \ {0}

ASSUME BrowserAssumption == MaxSessions \in Nat /\ MaxJobs \in Nat

VARIABLES focus,  \* the component this behaviour is about
          now, umM, file, umPc, answer, ledger, overran, damaged, umFaults,
          umOps, bundle, key, pvSource, model, pvOk, http, flight, th,
          keepStop, keepCur, seen, life, issued, newest, revoked, told, out,
          raced, pvOps, pvFaults, sessions, pending, alive, queue, running,
          outcome, late, call, brStopping, refs, dom, zombies, brCrossed, lag,
          acted, jobs, timeouts, brFaults, vm, lock, con, ready, fps, bridge,
          policy, sbPc, sbH, goal, attempt, reqs, orig, marker, digest,
          sbStopping, straggler, unstopped, lostSite, sbCrossed, sbFaults,
          crashes, sbOps, starts, gsSource, dest, exists, mark, copy, gsPc,
          hash, left, forced, runs, touched, ver, calls, gsFaults, gsDeaths,
          unseen

Um == INSTANCE UsageMeter WITH
  Callers <- MeterCallers, MaxFaults <- MeterFaults, MaxOps <- MeterOps,
  m <- umM, pc <- umPc, faults <- umFaults, ops <- umOps
Pv == INSTANCE Provider WITH
  MaxOps <- ProviderOps, MaxFaults <- ProviderFaults, source <- pvSource, ok <- pvOk,
  ops <- pvOps, faults <- pvFaults
Br == INSTANCE Browser WITH
  MaxFaults <- BrowserFaults, stopping <- brStopping, crossed <- brCrossed, faults <- brFaults
Sb == INSTANCE Sandbox WITH
  Pkgs <- SandboxPkgs, Policies <- SandboxPolicies, MaxFaults <- SandboxFaults,
  MaxOps <- SandboxOps, pc <- sbPc, h <- sbH, stopping <- sbStopping,
  crossed <- sbCrossed, faults <- sbFaults, ops <- sbOps
Gs == INSTANCE GuestStage WITH
  Files <- StageFiles, MaxCalls <- StageCalls, MaxFaults <- StageFaults,
  MaxDeaths <- StageDeaths, source <- gsSource, pc <- gsPc, faults <- gsFaults, deaths <- gsDeaths

umVars ==
  <<now, umM, file, umPc, answer, ledger, overran, damaged, umFaults, umOps>>
pvVars ==
  <<bundle, key, pvSource, model, pvOk, http, flight, th, keepStop, keepCur, seen, life,
    issued, newest, revoked, told, out, raced, pvOps, pvFaults>>
brVars ==
  <<sessions, pending, alive, queue, running, outcome, late, call, brStopping, refs, dom,
    zombies, brCrossed, lag, acted, jobs, timeouts, brFaults>>
sbVars ==
  <<vm, lock, con, ready, fps, bridge, policy, sbPc, sbH, goal, attempt, reqs, orig,
    marker, digest, sbStopping, straggler, unstopped, lostSite, sbCrossed, sbFaults,
    crashes, sbOps, starts>>
gsVars ==
  <<gsSource, dest, exists, mark, copy, gsPc, hash, left, forced, runs, touched, ver,
    calls, gsFaults, gsDeaths, unseen>>

\* At most one thread is in the middle of something with the provider.
OneBusy == \A t, u \in Pv!Threads : {th[t].pc, th[u].pc} \cap {"idle", "wait", "dead"} = {} => t = u

RuntimeInit ==
  /\ focus \in {"meter", "meter faults", "provider", "provider faults", "growth", "browser", "sandbox", "sandbox faults", "stage"}
  /\ Um!Init
  /\ Pv!Init
  /\ (focus \notin {"provider", "provider faults"} => key = 0)
  /\ Init
  /\ (focus # "growth" => kind = "tool")
  /\ Br!Init
  /\ Sb!Init
  /\ (focus \notin {"sandbox", "sandbox faults"} => vm.st = "none")
  /\ Gs!Init

RuntimeNext ==
  /\ UNCHANGED focus
  /\ \/ /\ focus = "meter" /\ Um!Next /\ umFaults' = 0
        /\ UNCHANGED <<vars, pvVars, brVars, sbVars, gsVars>>
     \/ /\ focus = "meter faults" /\ Um!Next /\ now' <= 2
        /\ UNCHANGED <<vars, pvVars, brVars, sbVars, gsVars>>
     \/ /\ focus = "provider" /\ Pv!Next /\ pvFaults' = 0
        /\ UNCHANGED <<vars, umVars, brVars, sbVars, gsVars>>
     \/ /\ focus = "provider faults" /\ Pv!Next /\ OneBusy'
        /\ UNCHANGED <<vars, umVars, brVars, sbVars, gsVars>>
     \/ /\ focus = "growth" /\ Next
        /\ UNCHANGED <<umVars, pvVars, brVars, sbVars, gsVars>>
     \/ /\ focus = "browser" /\ Br!Next
        /\ UNCHANGED <<vars, umVars, pvVars, sbVars, gsVars>>
     \/ /\ focus = "sandbox" /\ Sb!Next /\ sbFaults' = 0
        /\ UNCHANGED <<vars, umVars, pvVars, brVars, gsVars>>
     \/ /\ focus = "sandbox faults" /\ Sb!Next /\ starts' <= 1
        /\ UNCHANGED <<vars, umVars, pvVars, brVars, gsVars>>
     \/ /\ focus = "stage" /\ Gs!Next
        /\ UNCHANGED <<vars, umVars, pvVars, brVars, sbVars>>

RuntimeSpec ==
  /\ RuntimeInit
  /\ [][RuntimeNext]_<<vars, focus, umVars, pvVars, brVars, sbVars, gsVars>>

-----------------------------------------------------------------------------

(* UsageMeter *)

\* The ledger counts what was spent in its window, a restart changes nothing the
\* gate looks at, calls in flight pass the limit by a bounded amount, and waiting
\* makes the pace no worse.
BooksHold == focus \in {"meter", "meter faults"} => Um!BooksHold

(* Provider *)

\* With chat call, keep-alive, poller and operator at the tokens: no refresh token
\* is used twice, a login that is over is marked so on disk, the client is the one
\* of the chosen source, and a logout is not undone.
CredentialHolds == focus \in {"provider", "provider faults"} => Pv!CredentialHolds

(* Browser *)

\* With callers that give up and jobs that end too late: slots are counted exactly,
\* browsers are bounded and none is orphaned, a shutdown closes all, and the
\* references the agent holds are those of the page.
SessionsExact == focus = "browser" => Br!SessionsExact

(* Sandbox *)

\* One VM is used by one ensure at a time, it is stopped after a shutdown, and a
\* marker that says ready means that the packages are installed.
SandboxHolds == focus \in {"sandbox", "sandbox faults"} => Sb!SandboxHolds

(* GuestStage *)

\* A marker vouches only for a tree that was copied whole, a run takes the current
\* package, and no call runs the guest more than twice.
StagedIsCurrent == focus = "stage" => Gs!StagedIsCurrent

=============================================================================
