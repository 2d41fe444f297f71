------------------------------ MODULE MCStores ------------------------------
(***************************************************************************)
(* The memory stores: the atom store and its files, which this module      *)
(* extends, and each on its own small instance promotion of beats into the *)
(* weave, durable edges, the encode queue with the gate of its embedder,   *)
(* the ladder of summaries, directed traversal, and the meal that is       *)
(* composed from them all.  A behaviour exercises the component that focus *)
(* names; the components share no variables here.  The edges, the ladder,  *)
(* the traversal and the meal have two instances each: a longer one, and   *)
(* one with more faults, tighter caps or a rebuild.  Promotion has one,    *)
(* for which the theorems are stated, and a bound for either focus.        *)
(***************************************************************************)
EXTENDS AtomStore, TLC

CONSTANTS
  Beats, ToolCap, PrMaxFaults, PrMaxOffers   \* Promote

ASSUME PromoteAssumption ==
  /\ Beats \subseteq [name : STRING, kind : STRING, moment : Nat, text : STRING,
                     says : BOOLEAN, ok : BOOLEAN, chunks : Nat \ {0}]
  /\ \A b, c \in Beats : b.name = c.name => b = c
  /\ PrMaxOffers \in Nat

VARIABLES focus,  \* the component this behaviour is about
          store, work, seenKeys, toolAtoms, recalls, unlinked, unmarked,
          prFaults, offers, edges, disk, job, edDeferred, aged, unkept,
          edLapsed, made, ops, edFaults, eqRows, vec, p1, p2, put, over, eqPc,
          todo, seen, eqDeferred, cur, res, eqN, embOk, holder, waiting,
          marked, eqFaults, reputs, forwards, asked, passed, dropped, hour,
          moment, raw, hourTip, day, json, act, forgotten, rewritten,
          laRaises, laDeaths, rebuilds, session, tray, file, lastKeep, reader,
          merging, confirmed, trLapsed, raced, now, finishes, failures, mlW,
          mlPc, caps, stolen, tail, open, sums, blocks, drop, mlKept, slid,
          mlSem, mlDk, why, hist, shown

(* Promote: the beats of two moments, of every kind, one longer than a chunk *)

Beat(name, kind, mom, text, good, chunks) ==
  [name |-> name, kind |-> kind, moment |-> mom, text |-> text, says |-> TRUE, ok |-> good,
   chunks |-> chunks]

SampleBeats ==
  {Beat("wake", "wake", 1, "hi", TRUE, 1), Beat("interject", "interjection", 1, "hi", TRUE, 1),
   Beat("speak", "speak", 1, "long", TRUE, 4), Beat("note", "model", 1, "n", TRUE, 1),
   Beat("goal", "ledger", 1, "g", TRUE, 1), Beat("run", "tool", 2, "out", TRUE, 1),
   Beat("fail", "tool", 2, "err", FALSE, 2), Beat("look", "view", 2, "pic", TRUE, 1),
   Beat("hint", "control", 2, "x", TRUE, 1)}

(* Edges: two targets with a 1h summary each; the caps of each kind *)

HourTips == ("a" :> "t") @@ ("b" :> "u")
EdgeKinds == {"with", "recalls", "moment", "channel"}
WideCap == [k \in EdgeKinds |-> IF k = "with" THEN 2 ELSE 1]
TightCap == [k \in EdgeKinds |-> 1]

(* Traverse: a chain of neighbours, and one nearest atom each *)

Links == <<{2}, {1, 3}, {2}>>
Similar == <<{3}, {1}, {1}>>

(* Meal: what the stores hold when a meal is composed, around one base case *)

Shares == [sem |-> 20, dk |-> 20, epi |-> 50, epiSem |-> 20, gt |-> 10, floor |-> 30]

Base ==
  [kind |-> <<"tool", "tool", "tool", "speak">>, len |-> <<3, 3, 3, 3>>,
   mom |-> <<1, 1, 2, 2>>, says |-> <<0, 0, 0, 0>>, media |-> {}, parent |-> <<0, 0, 0, 0>>,
   rows |-> <<>>, asks |-> <<TRUE, FALSE, TRUE>>, sums |-> <<>>, hits |-> <<>>, low |-> {}, keep |-> <<>>,
   soft |-> {}, note |-> 99, social |-> FALSE, wake |-> 0, wait |-> TRUE, index |-> "ok",
   sem |-> FALSE, budget |-> 8]

Day == [scale |-> "1d", start |-> 1, len |-> 3, llm |-> TRUE, open |-> FALSE]
Hour(i) == [scale |-> "1h", start |-> i, len |-> 4, llm |-> TRUE, open |-> i = 2]
Quarter == [scale |-> "15m", start |-> 3, len |-> 2, llm |-> TRUE, open |-> FALSE]

\* Atoms over one to three moments, under summaries, with and without a row.
Episodic ==
  {[Base EXCEPT !.kind = k, !.mom = m, !.len = l, !.sums = s, !.budget = b, !.rows = r,
                !.wake = IF r = <<>> THEN 0 ELSE 1] :
     k \in [1..4 -> {"tool", "speak"}],
     m \in {<<1, 1, 2, 2>>, <<1, 2, 3, 3>>, <<1, 1, 1, 1>>, <<1, 1, 1, 2>>},
     l \in {<<3, 3, 3, 3>>, <<2, 3, 5, 3>>}, s \in {<<>>, <<Day, Hour(2), Hour(1)>>, <<Quarter>>},
     b \in {8, 14, 18}, r \in {<<9, 9, 30>>, <<>>}}

\* Rows of the present moment, said aloud, shown or failed, and the wake.
Temporal ==
  {[Base EXCEPT !.kind = k, !.mom = <<0, 0, 0, 0>>, !.says = s, !.media = md, !.rows = r,
                !.social = wk > 0, !.wake = wk, !.budget = b] :
     k \in [1..4 -> {"tool", "speak", "failed"}], s \in {<<0, 0, 0, 0>>, <<1, 0, 3, 0>>},
     md \in {{}, {2}}, r \in {<<2, 2, 2>>, <<2, 2, 9>>}, wk \in {0, 1, 3}, b \in {6, 12}}

\* Kept atoms, search hits, parcels, and an index that is late or not there.
Support ==
  {[Base EXCEPT !.kind = k, !.mom = m, !.parent = <<0, 0, 0, 1>>, !.rows = <<3, 3>>,
                !.asks = <<TRUE, FALSE>>, !.hits = h, !.low = lo, !.keep = kp, !.soft = {1},
                !.note = 1, !.social = so, !.wait = (ix # "slow"),
                !.index = IF ix = "slow" THEN "ok" ELSE ix, !.sem = TRUE, !.budget = b] :
     k \in {<<"speak", "tool", "speak", "parcel">>, <<"tool", "tool", "tool", "parcel">>},
     m \in {<<0, 1, 2, 0>>, <<1, 0, 2, 2>>, <<2, 1, 0, 1>>},
     h \in {<<>>, <<1, 2, 3>>, <<4, 1, 3>>, <<3, 4>>}, lo \in {{}, {1, 2, 3}},
     kp \in {<<>>, <<1, 2>>, <<4, 3, 1>>, <<3, 2, 1>>}, so \in BOOLEAN,
     ix \in {"ok", "slow", "encoder"}, b \in {10, 20}}

\* Raw turns of two moments, and an episodic share that is smaller than they are.
Pressed ==
  {[Base EXCEPT !.kind = k, !.len = <<2, 3, 5, 3>>, !.mom = m, !.budget = b] :
     k \in [1..4 -> {"tool", "speak"}], m \in {<<1, 1, 2, 2>>, <<1, 1, 1, 2>>}, b \in {8, 14}}

Pr == INSTANCE Promote WITH
  MaxFaults <- PrMaxFaults, MaxOffers <- PrMaxOffers, faults <- prFaults
Ed == INSTANCE Edges WITH
  Dsts <- {"a", "b"}, Tips <- HourTips, NoTip <- "none", Channels <- {"c"}, Cap <- WideCap,
  CapTotal <- 3, MaxOps <- 3, MaxFaults <- 0, deferred <- edDeferred, lapsed <- edLapsed,
  faults <- edFaults
EdFaults == INSTANCE Edges WITH
  Dsts <- {"a", "b"}, Tips <- HourTips, NoTip <- "none", Channels <- {"c"},
  Cap <- TightCap, CapTotal <- 2, MaxOps <- 2, MaxFaults <- 1, deferred <- edDeferred,
  lapsed <- edLapsed, faults <- edFaults
Eq == INSTANCE EncodeQueue WITH
  Atoms <- {1, 2}, Historic <- {1}, MaxSize <- 1, MaxItems <- 2, MaxAttempts <- 2,
  CatchupMax <- 1, Lookups <- {"l1"}, MaxFaults <- 1, MaxReputs <- 1, rows <- eqRows,
  pc <- eqPc, deferred <- eqDeferred, n <- eqN, faults <- eqFaults
La == INSTANCE Ladder WITH
  MaxHour <- 3, CatchupMax <- 1, RebuildMax <- 2, NibbleMax <- 2, MaxAtoms <- 1,
  MaxRaises <- 1, MaxDeaths <- 1, MaxRebuilds <- 0, raises <- laRaises, deaths <- laDeaths
LaRebuild == INSTANCE Ladder WITH
  MaxHour <- 2, CatchupMax <- 1, RebuildMax <- 2, NibbleMax <- 2, MaxAtoms <- 1,
  MaxRaises <- 1, MaxDeaths <- 0, MaxRebuilds <- 1, raises <- laRaises, deaths <- laDeaths
Tr == INSTANCE Traverse WITH
  Atoms <- {1, 2, 3}, Links <- Links, Similar <- Similar, MaxSeeds <- 2, DualN <- 1,
  MaxNodes <- 2, MaxDepth <- 2, MaxSteps <- 2, MaxKeep <- 2, EntryCap <- 2, HardTtl <- 0,
  MaxTime <- 1, MaxFinishes <- 2, MaxFailures <- 0, lapsed <- trLapsed
TrFaults == INSTANCE Traverse WITH
  Atoms <- {1, 2, 3}, Links <- Links, Similar <- Similar, MaxSeeds <- 2, DualN <- 1,
  MaxNodes <- 2, MaxDepth <- 2, MaxSteps <- 2, MaxKeep <- 2, EntryCap <- 2, HardTtl <- 0,
  MaxTime <- 1, MaxFinishes <- 1, MaxFailures <- 1, lapsed <- trLapsed
Ml == INSTANCE Meal WITH
  Q <- 2, Label <- 2, CompactMax <- 2, Shares <- Shares, SumShare <- 70, FloorRows <- 2,
  MaxRows <- 3, KeepLast <- 1, TailK <- 1, Worlds <- Episodic \cup Temporal \cup Support,
  w <- mlW, pc <- mlPc, kept <- mlKept, sem <- mlSem, dk <- mlDk
MlPressed == INSTANCE Meal WITH
  Q <- 2, Label <- 2, CompactMax <- 2, Shares <- Shares, SumShare <- 70, FloorRows <- 2,
  MaxRows <- 3, KeepLast <- 1, TailK <- 1, Worlds <- Pressed,
  w <- mlW, pc <- mlPc, kept <- mlKept, sem <- mlSem, dk <- mlDk

prVars ==
  <<store, work, seenKeys, toolAtoms, recalls, unlinked, unmarked, prFaults, offers>>
edVars ==
  <<edges, disk, job, edDeferred, aged, unkept, edLapsed, made, ops, edFaults>>
eqVars ==
  <<eqRows, vec, p1, p2, put, over, eqPc, todo, seen, eqDeferred, cur, res, eqN, embOk,
    holder, waiting, marked, eqFaults, reputs, forwards, asked, passed, dropped>>
laVars ==
  <<hour, moment, raw, hourTip, day, json, act, forgotten, rewritten, laRaises, laDeaths,
    rebuilds>>
trVars ==
  <<session, tray, file, lastKeep, reader, merging, confirmed, trLapsed, raced, now,
    finishes, failures>>
mlVars ==
  <<mlW, mlPc, caps, stolen, tail, open, sums, blocks, drop, mlKept, slid, mlSem, mlDk,
    why, hist, shown>>

OthersInit ==
  /\ Init
  /\ (focus # "atoms" => backend = "jsonl")
  /\ Pr!Init
  /\ IF focus = "edges faults" THEN EdFaults!Init ELSE Ed!Init
  /\ Eq!Init
  /\ IF focus = "ladder rebuild" THEN LaRebuild!Init ELSE La!Init
  /\ Tr!Init

StoresInit ==
  /\ focus \in {"atoms", "promote", "promote faults", "edges", "edges faults", "encode",
                "ladder", "ladder rebuild", "traverse", "traverse faults", "meal"}
  /\ OthersInit
  /\ Ml!Init
  /\ (focus # "meal" => mlW = Base)

StoresNext ==
  /\ UNCHANGED focus
  /\ \/ /\ focus = "atoms" /\ Next
        /\ UNCHANGED <<prVars, edVars, eqVars, laVars, trVars, mlVars>>
     \/ /\ focus = "promote" /\ Pr!Next /\ prFaults' <= 1
        /\ UNCHANGED <<vars, edVars, eqVars, laVars, trVars, mlVars>>
     \/ /\ focus = "promote faults" /\ Pr!Next /\ offers' <= 3
        /\ UNCHANGED <<vars, edVars, eqVars, laVars, trVars, mlVars>>
     \/ /\ focus = "edges" /\ Ed!Next
        /\ UNCHANGED <<vars, prVars, eqVars, laVars, trVars, mlVars>>
     \/ /\ focus = "edges faults" /\ EdFaults!Next
        /\ UNCHANGED <<vars, prVars, eqVars, laVars, trVars, mlVars>>
     \/ /\ focus = "encode" /\ Eq!Next
        /\ UNCHANGED <<vars, prVars, edVars, laVars, trVars, mlVars>>
     \/ /\ focus = "ladder" /\ La!Next
        /\ UNCHANGED <<vars, prVars, edVars, eqVars, trVars, mlVars>>
     \/ /\ focus = "ladder rebuild" /\ LaRebuild!Next
        /\ UNCHANGED <<vars, prVars, edVars, eqVars, trVars, mlVars>>
     \/ /\ focus = "traverse" /\ Tr!Next
        /\ UNCHANGED <<vars, prVars, edVars, eqVars, laVars, mlVars>>
     \/ /\ focus = "traverse faults" /\ TrFaults!Next
        /\ UNCHANGED <<vars, prVars, edVars, eqVars, laVars, mlVars>>
     \/ /\ focus = "meal" /\ Ml!Next
        /\ UNCHANGED <<vars, prVars, edVars, eqVars, laVars, trVars>>

StoresSpec ==
  /\ StoresInit
  /\ [][StoresNext]_<<vars, focus, prVars, edVars, eqVars, laVars, trVars, mlVars>>

(* The run "meal_shrink": nothing but meals under pressure. *)

ShrinkSpec ==
  /\ focus = "meal pressed" /\ OthersInit /\ MlPressed!Init
  /\ [][MlPressed!Next /\ UNCHANGED <<vars, focus, prVars, edVars, eqVars, laVars, trVars>>]_
       <<vars, focus, prVars, edVars, eqVars, laVars, trVars, mlVars>>

-----------------------------------------------------------------------------

(* Promote *)

\* However often a beat is offered, a write fails or the process dies: a beat is
\* one atom at most, the atoms of a moment are one line of links, and a split body
\* is whole or says that it is short.
PromotedOnceAndWhole ==
  focus \in {"promote", "promote faults"} => Pr!PromotedOnceAndWhole

(* Edges *)

\* With three writers on one atom: the caps hold once all of them are done, what
\* aged out can be reached through its hour, and no edge is served that is not
\* stored.
EdgesHold ==
  /\ focus = "edges" => Ed!EdgesHold
  /\ focus = "edges faults" => EdFaults!EdgesHold

(* EncodeQueue *)

\* With promoter, drain and lookups at work: an atom that says ready has its
\* vector, one that was given up had a cause, no atom is encoded twice in a tick,
\* and no waiting lookup is overtaken by bulk work.
EncodedFaithfully == focus = "encode" => Eq!EncodedFaithfully

(* Ladder *)

\* No closed hour is left behind the cursor without a summary or a dirty mark.
LadderSound ==
  /\ focus = "ladder" => La!LadderSound
  /\ focus = "ladder rebuild" => LaRebuild!LadderSound

(* Traverse *)

\* A session stays within its budgets, and what a finish has confirmed stays in
\* the tray until it is too old or too many came after it.
KeepsHold ==
  /\ focus = "traverse" => Tr!KeepsHold
  /\ focus = "traverse faults" => TrFaults!KeepsHold

(* Meal *)

\* A composed meal shows no atom twice, stays within its budget, has no gap in the
\* rows it guarantees, drops nothing unseen, and serves the wake.
MealIsSound == focus = "meal" => Ml!MealIsSound

\* The drop order of a docstring of meal.py: "Drop order 3a -> 3b -> recency-aware
\* summary drops until under cap."
ShrinkFits == MlPressed!ShrinkFits

=============================================================================
