----------------------------- MODULE MCEncoding -----------------------------
(***************************************************************************)
(* From an atom to its vector: the migration that gives an old table its   *)
(* vector columns, which this module extends, and each on its own small    *)
(* instance the encode queue with the gate of its one embedder, the encode *)
(* worker and its restarts, and the vector index.  A behaviour exercises   *)
(* the component that focus names and leaves the others as they start.     *)
(***************************************************************************)
EXTENDS LanceMigration, Sequences

VARIABLES focus,  \* the component this behaviour is about
          rows, vec, p1, p2, put, over, pc, todo, seen, deferred, cur, res,
          eqN, embOk, holder, waiting, marked, faults, reputs, forwards,
          asked, passed, dropped, thread, bound, stop, ewKept, presence,
          epoch, shutting, state, emb, open, using, window, backoff, ewDeaths,
          loads, orphaned, chans, pushing, buffer, ann, built, encodes,
          optimized, due, seedBad, stage, restarts, failures, lapsed

Eq == INSTANCE EncodeQueue WITH
  Atoms <- {1, 2}, Historic <- {1}, MaxSize <- 1, MaxItems <- 2, MaxAttempts <- 2,
  CatchupMax <- 1, Lookups <- {"l1"}, MaxFaults <- 1, MaxReputs <- 0, n <- eqN
Ew == INSTANCE EncodeWorker WITH
  MaxDeaths <- 2, MaxRestarts <- 1, kept <- ewKept, deaths <- ewDeaths
Vi == INSTANCE VectorIndex WITH
  Atoms <- {1, 2, 3}, Legacy <- [a \in {1, 2, 3} |-> IF a = 1 THEN {"text"} ELSE {}],
  BufferMax <- 2, FullBelow <- 2, IvfMin <- 2, EveryN <- 2, RepairPerTick <- 1,
  MaxRestarts <- 1, MaxFailures <- 1

eqVars ==
  <<rows, vec, p1, p2, put, over, pc, todo, seen, deferred, cur, res, eqN, embOk, holder,
    waiting, marked, faults, reputs, forwards, asked, passed, dropped>>
ewVars ==
  <<thread, bound, stop, ewKept, presence, epoch, shutting, state, emb, open, using, window,
    backoff, ewDeaths, loads, orphaned>>
viVars ==
  <<chans, pushing, buffer, ann, built, encodes, optimized, due, seedBad, stage, restarts,
    failures, lapsed>>

EncodingInit ==
  /\ focus \in {"migration", "encode", "worker", "index"}
  /\ Init
  /\ (focus # "migration" => table.there)
  /\ Eq!Init
  /\ Ew!Init
  /\ Vi!Init

EncodingNext ==
  /\ UNCHANGED focus
  /\ \/ /\ focus = "migration" /\ Next
        /\ UNCHANGED <<eqVars, ewVars, viVars>>
     \/ /\ focus = "encode" /\ Eq!Next
        /\ UNCHANGED <<vars, ewVars, viVars>>
     \/ /\ focus = "worker" /\ Ew!Next
        /\ UNCHANGED <<vars, eqVars, viVars>>
     \/ /\ focus = "index" /\ Vi!Next
        /\ UNCHANGED <<vars, eqVars, ewVars>>

Fairness ==
  /\ WF_eqVars(focus = "encode" /\ Eq!Poll)
  /\ \A p \in {"promoter", "drain"} : WF_eqVars(focus = "encode" /\ (Eq!OverflowRead(p) \/ Eq!OverflowWrite(p)))
  /\ WF_eqVars(focus = "encode" /\ (Eq!OnWritten \/ Eq!UpdateLinks))
  /\ WF_eqVars(focus = "encode" /\ (Eq!LookupGrant("l1") \/ Eq!LookupTimeout("l1")))
  /\ WF_eqVars(focus = "encode" /\ Eq!LookupDone("l1"))
  /\ \A p \in Ew!Pollers : WF_ewVars(focus = "worker" /\ Ew!PollStep(p))
  /\ WF_ewVars(focus = "worker" /\ Ew!Tick)
  /\ WF_ewVars(focus = "worker" /\ Ew!StartWorker)
  /\ SF_ewVars(focus = "worker" /\ Ew!Restart)
  /\ WF_ewVars(focus = "worker" /\ Ew!BackoffEnds)
  /\ WF_ewVars(focus = "worker" /\ Ew!WindowEnds)
  /\ WF_ewVars(focus = "worker" /\ Ew!Join)
  /\ WF_ewVars(focus = "worker" /\ Ew!Close)
  /\ WF_viVars(focus = "index" /\ Vi!PushBuffer)
  /\ WF_viVars(focus = "index" /\ Vi!JointRepair)
  /\ WF_viVars(focus = "index" /\ Vi!SeedAgain)
  /\ WF_viVars(focus = "index" /\ Vi!IntervalPasses)
  /\ WF_viVars(focus = "index" /\ Vi!Optimize("idle"))
  /\ WF_viVars(focus = "index" /\ (stage["rebuild"] # "idle" /\ Vi!Optimize("rebuild")))

EncodingSpec ==
  /\ EncodingInit
  /\ [][EncodingNext]_<<vars, focus, eqVars, ewVars, viVars>>
  /\ Fairness

-----------------------------------------------------------------------------

(* EncodeQueue *)

\* Every text atom that is stored gets its vector or is given up.
Resolved == Eq!Resolved

(* EncodeWorker *)

\* One thread polls at a time, no embedder is left open and no slot stays loading
\* without a loader; and a worker that died is replaced in the end.
WorkerPromise == Ew!WorkerPromise

(* VectorIndex *)

\* A stored vector that a search may miss has lapsed for a known reason and is
\* found again; the channel a search takes is one that covers the atoms.
IndexPromise == Vi!IndexPromise

=============================================================================
