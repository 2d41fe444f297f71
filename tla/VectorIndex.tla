----------------------------- MODULE VectorIndex -----------------------------
(***************************************************************************)
(* The embedding index over the Lance store (elyra/memory/index.py and the *)
(* vector half of memory/lance_store.py): durable vectors, the recent      *)
(* buffer that covers what the approximate index does not, optimize, the   *)
(* joint-copy repair and the choice of a search channel.                   *)
(*                                                                         *)
(* A vector is stored first and pushed to the buffer later; optimize       *)
(* builds outside the index lock and trims under it.  Whether a search in  *)
(* hybrid mode sees a vector that is in neither the built index nor the    *)
(* buffer is up to Lance; the code's contract is that it need not.         *)
(***************************************************************************)
EXTENDS Integers, Sequences, FiniteSets

CONSTANTS
  Atoms,          \* 1 .. N, in the order of encoded_at
  Legacy,         \* vectors stored before the joint column was filled in
  BufferMax,      \* ann_recent_buffer_max
  FullBelow,      \* ann_full_search_below
  IvfMin,         \* ann_ivf_min_vectors
  EveryN,         \* ann_optimize_every_n_encodes
  RepairPerTick,  \* joint_repair_max_per_tick
  MaxRestarts,    \* bound on process restarts
  MaxFailures     \* bound on failing builds and seeds

Media     == {"image"}
Channels  == {"text", "joint"} \cup Media
Optimizer == {"idle", "rebuild"}   \* the idle tick and the operator's button

VARIABLES
  chans,     \* emb columns of each ready row (none: no vector stored)
  pushing,   \* atom stored by upsert_vectors, not pushed to the buffer yet
  buffer,    \* _RecentBuffer: atom ids
  ann,       \* rows the built joint index covers
  built,     \* ann_index_built of this process
  encodes,   \* encodes_since_optimize
  optimized, \* was optimize ever successful in this process?
  due,       \* has ann_optimize_interval_s passed since then?
  seedBad,   \* seed_incomplete
  stage,     \* per optimizer: "idle", "counted" or "built"
  restarts, failures,  \* bounds
  lapsed     \* history: rows that left the buffer although no index covers them

fresh == <<buffer, built, encodes, optimized, due, seedBad>>
vars == <<chans, pushing, fresh, ann, stage, restarts, failures, lapsed>>

-----------------------------------------------------------------------------
(* Counts and modes                                                        *)

Ready == {a \in Atoms : chans[a] # {}}
Count(ch) == Cardinality({a \in Atoms : ch \in chans[a]})

\* sole_non_joint_vector: one modality and no joint vector.
NeedsJoint == {a \in Ready : "joint" \notin chans[a] /\ Cardinality(chans[a]) = 1}

IsStaleUntimed ==   \* mutant: the interval does not make the index stale
  \/ buffer # {} \/ seedBad
  \/ encodes >= EveryN
  \/ ~optimized /\ encodes > 0
  \/ ~built /\ Ready # {}

\* _FreshnessState.is_stale
IsStale ==
  \/ buffer # {} \/ seedBad
  \/ encodes >= EveryN
  \/ optimized /\ due
  \/ ~optimized /\ encodes > 0
  \/ ~built /\ Ready # {}

\* use_full_search: exhaustive until the corpus is large and an index is built.
UseFullSearch ==
  \/ Cardinality(Ready) < FullBelow
  \/ ~built
  \/ seedBad /\ IsStale

\* resolve_search_channel("auto", seed_channels=seed)
ResolveSearchChannel(seed) ==
  LET repair   == NeedsJoint # {}
      sole     == seed \cap Media
      has(ch)  == Count(ch) > 0
      medium   == IF \E m \in Media : has(m) THEN CHOOSE m \in Media : has(m) ELSE "joint"
      fallback == IF has("text") THEN "text" ELSE medium
  IN  IF sole # {} /\ seed = sole /\ Cardinality(sole) = 1 /\ (\A m \in sole : has(m))
      THEN CHOOSE m \in sole : TRUE
      ELSE IF repair THEN fallback
      ELSE IF has("joint") THEN "joint" ELSE fallback

\* search in one channel with k large: the main leg and the union with the buffer.
Found(ch) ==
  LET column == {a \in Atoms : ch \in chans[a]}
      main   == IF UseFullSearch \/ ch # "joint" THEN column ELSE column \cap ann
  IN  main \cup (column \cap buffer)

-----------------------------------------------------------------------------
(* The recent buffer                                                       *)

Oldest(S) == CHOOSE a \in S : \A b \in S : a <= b

\* push and _evict: the oldest entry goes when the buffer is full.
Pushed(B, a) ==
  LET more == B \cup {a}
  IN  IF Cardinality(more) > BufferMax THEN more \ {Oldest(more)} ELSE more

\* The newest ready rows, as many as the buffer takes.
Seeded(S) == {a \in S : Cardinality({b \in S : b > a}) < BufferMax}

Uncovered(S) == {a \in S : "joint" \in chans[a] /\ a \notin ann}

-----------------------------------------------------------------------------
(* upsert: store.upsert_vectors, then the buffer under the index lock      *)

UpsertVectors(a, new) ==
  /\ pushing = 0 /\ \A b \in Ready : b < a
  /\ chans' = [chans EXCEPT ![a] = new]
  /\ pushing' = a
  /\ UNCHANGED <<fresh, ann, stage, restarts, failures, lapsed>>

PushBuffer ==
  /\ pushing # 0
  /\ buffer' = Pushed(buffer, pushing)
  /\ lapsed' = lapsed \cup Uncovered((buffer \cup {pushing}) \ buffer')
  /\ encodes' = IF encodes < EveryN THEN encodes + 1 ELSE encodes
  /\ pushing' = 0
  /\ UNCHANGED <<chans, built, optimized, due, seedBad, ann, stage, restarts, failures>>

-----------------------------------------------------------------------------
(* repair_joint_copies, from the idle tick                                 *)

\* The store fills in joint vectors (its own lock), the index then pushes the
\* newest ready rows and the repaired ones to the buffer.
JointRepair ==
  /\ NeedsJoint # {}
  /\ \E S \in SUBSET NeedsJoint :
       /\ S # {} /\ Cardinality(S) <= RepairPerTick
       /\ Cardinality(S) = RepairPerTick \/ S = NeedsJoint
       /\ chans' = [a \in Atoms |-> IF a \in S THEN chans[a] \cup {"joint"} ELSE chans[a]]
       /\ buffer' = Seeded(buffer \cup S \cup {a \in Ready : "joint" \in chans[a]})
       /\ lapsed' = lapsed \cup {a \in (buffer \cup S) \ buffer' :
                                   "joint" \in chans'[a] /\ a \notin ann}
  /\ UNCHANGED <<pushing, built, encodes, optimized, due, seedBad, ann, stage, restarts,
                 failures>>

-----------------------------------------------------------------------------
(* optimize: _idle_memory_optimize and rebuild_vector_index                *)

\* The counts are taken first; with too few vectors nothing is built and the
\* buffer is left alone.
OptimizeBegin(p) ==
  /\ stage[p] = "idle"
  /\ p = "idle" => IsStale
  /\ Count("joint") > 0 /\ Count("joint") >= IvfMin
  /\ stage' = [stage EXCEPT ![p] = "counted"]
  /\ UNCHANGED <<chans, pushing, fresh, ann, restarts, failures, lapsed>>

\* create_vector_index: one step under the store's lock, without the index's.
Build(p) ==
  /\ stage[p] = "counted"
  /\ ann' = {a \in Atoms : "joint" \in chans[a]}
  /\ stage' = [stage EXCEPT ![p] = "built"]
  /\ UNCHANGED <<chans, pushing, fresh, restarts, failures, lapsed>>

\* The build raises: nothing is claimed and nothing is trimmed.
BuildFails(p) ==
  /\ stage[p] = "counted" /\ failures < MaxFailures
  /\ failures' = failures + 1
  /\ stage' = [stage EXCEPT ![p] = "idle"]
  /\ UNCHANGED <<chans, pushing, fresh, ann, restarts, lapsed>>

\* mark_optimized: every entry of the buffer is trimmed, also one whose vector
\* was stored after the build.
OptimizeEnd(p) ==
  /\ stage[p] = "built"
  /\ lapsed' = (lapsed \cup buffer) \ ann
  /\ buffer' = {} /\ encodes' = 0 /\ built' = TRUE /\ optimized' = TRUE /\ due' = FALSE
  /\ stage' = [stage EXCEPT ![p] = "idle"]
  /\ UNCHANGED <<chans, pushing, seedBad, ann, restarts, failures>>

IntervalPasses ==
  /\ optimized /\ ~due
  /\ due' = TRUE
  /\ UNCHANGED <<chans, pushing, buffer, built, encodes, optimized, seedBad, ann, stage,
                 restarts, failures, lapsed>>

\* seed_buffer, while the seed of the open is incomplete.
SeedAgain ==
  /\ seedBad
  /\ buffer' = Seeded(buffer \cup Ready)
  /\ lapsed' = lapsed \cup Uncovered(buffer \ buffer')
  /\ seedBad' = FALSE
  /\ UNCHANGED <<chans, pushing, built, encodes, optimized, due, ann, stage, restarts,
                 failures>>

\* A new process opens the index: nothing of the freshness state survives.
Reopen ==
  /\ restarts < MaxRestarts /\ restarts' = restarts + 1
  /\ pushing' = 0 /\ built' = FALSE /\ encodes' = 0 /\ optimized' = FALSE /\ due' = FALSE
  /\ stage' = [p \in Optimizer |-> "idle"]
  /\ lapsed' = {}
  /\ IF Cardinality(Ready) < FullBelow
     THEN buffer' = {} /\ seedBad' = FALSE /\ UNCHANGED failures
     ELSE \/ buffer' = Seeded(Ready) /\ seedBad' = FALSE /\ UNCHANGED failures
          \/ /\ buffer' = {} /\ seedBad' = TRUE
             /\ failures < MaxFailures /\ failures' = failures + 1
  /\ UNCHANGED <<chans, ann>>

-----------------------------------------------------------------------------
Init ==
  /\ chans = Legacy /\ pushing = 0 /\ buffer = {} /\ ann = {}
  /\ built = FALSE /\ encodes = 0 /\ optimized = FALSE /\ due = FALSE /\ seedBad = FALSE
  /\ stage = [p \in Optimizer |-> "idle"]
  /\ restarts = 0 /\ failures = 0 /\ lapsed = {}

\* embed_joint_for_single_modality: every set encoded today has a joint vector.
Encoded == {{"text", "joint"}, {"image", "joint"}}

Optimize(p) == OptimizeBegin(p) \/ Build(p) \/ BuildFails(p) \/ OptimizeEnd(p)

Next ==
  \/ \E a \in Atoms, new \in Encoded : UpsertVectors(a, new)
  \/ PushBuffer \/ JointRepair \/ SeedAgain \/ IntervalPasses \/ Reopen
  \/ \E p \in Optimizer : Optimize(p)

\* The idle tick comes again and again; time passes; upsert goes on to its push.
Fairness ==
  /\ WF_vars(PushBuffer) /\ WF_vars(JointRepair) /\ WF_vars(SeedAgain)
  /\ WF_vars(IntervalPasses)
  /\ WF_vars(Optimize("idle")) /\ WF_vars(stage["rebuild"] # "idle" /\ Optimize("rebuild"))

Spec == Init /\ [][Next]_vars /\ Fairness

-----------------------------------------------------------------------------
(* Properties                                                              *)

\* The state is well formed; the buffer keeps within ann_recent_buffer_max.
TypeOK ==
  /\ chans \in [Atoms -> SUBSET Channels] /\ pushing \in Atoms \cup {0}
  /\ buffer \subseteq Ready /\ Cardinality(buffer) <= BufferMax
  /\ ann \subseteq Atoms /\ encodes \in 0 .. EveryN
  /\ stage \in [Optimizer -> {"idle", "counted", "built"}]

\* index.py: "Always union buffer (correctness: never miss unindexed recent)".
\* A joint vector that a search misses was pushed out of a full buffer, or was
\* stored while an index was being built whose end trimmed it.
MissedOnlyWhenLapsed ==
  \A a \in Atoms : "joint" \in chans[a] =>
    a \in Found("joint") \/ a \in lapsed \/ a = pushing

\* The channel chosen for auto is one that has vectors, if any has, and while
\* joint copies are missing it is not the sparse joint channel.
ChannelIsCovered ==
  \A seed \in {{}, {"text"}, {"image"}, {"text", "image"}} :
    LET ch == ResolveSearchChannel(seed)
    IN  /\ Ready # {} => Count(ch) > 0
        /\ NeedsJoint # {} => ch # "joint"

\* What a search misses it misses for a while only: the next interval makes the
\* index stale and the idle tick covers the vector.
FoundAgain ==
  \A a \in Atoms : ("joint" \in chans[a]) ~> (a \in Found("joint"))

\* A stored vector that a search may miss has lapsed for a known reason and is
\* found again; the channel a search takes is one that covers the atoms.
IndexPromise ==
  [](TypeOK /\ MissedOnlyWhenLapsed /\ ChannelIsCovered) /\ FoundAgain
=============================================================================
