-------------------------------- MODULE Meal --------------------------------
(***************************************************************************)
(* The context meal (elyra/memory/meal.py, tokens.py; the fallback of      *)
(* elyra/loop/context.py): one token budget is split among five channels,  *)
(* each packs what it may show, no atom is shown twice, and the message    *)
(* that woke the agent is always there.  An estimate counts Q characters   *)
(* as a token and rounds down, item by item.                               *)
(***************************************************************************)
EXTENDS Integers, SequencesExt

CONSTANTS Q,             \* characters per token
          Label,         \* characters of an item's header
          CompactMax,    \* compact_max_tokens
          Shares,        \* percent of the budget: sem, dk, epi, epiSem, gt, floor
          SumShare,      \* EPISODIC_SUMMARY_SHARE, in percent
          FloorRows,     \* glass_tail_floor_messages
          MaxRows,       \* glass_tail_max_messages
          KeepLast,      \* lines of speech a block keeps under pressure
          TailK,         \* protect_tail_atoms
          Worlds         \* what a meal may be composed from

\* w: the stores as the composition reads them.  Atoms are 1..n in the order
\* of their time; moment 0 is the open one; rows of the glass are 1..r.
VARIABLES w, pc, caps, stolen, tail, open, sums, blocks, drop, kept, slid, sem, dk, why, hist, shown

vars == <<w, pc, caps, stolen, tail, open, sums, blocks, drop, kept, slid, sem, dk, why, hist, shown>>

Atoms == DOMAIN w.kind
Rows == DOMAIN w.rows
Noise == {"tool", "model"}
Talk == {"speak", "observation"}

\* estimate_tokens
Est(chars) == chars \div Q
SumOf(S, f(_)) == FoldSet(LAMBDA x, acc : acc + f(x), 0, S)
SumSeq(s, f(_)) == FoldLeft(LAMBDA acc, x : acc + f(x), 0, s)
AtomLen(a) == w.len[a]
RowEst(r) == Est(Label + w.rows[r])
ItemEst(a) == Est(Label + w.len[a])

\* The estimate of one block of atom lines (_rebuild_prior_moment_item).
BlockEst(S) == IF S = {} THEN 0 ELSE Est(Label + SumOf(S, AtomLen))
SumEst(s) == Est(Label + s.len)

InTime(S) == SetToSortSeq(S, <)

Init ==
    /\ w \in Worlds
    /\ pc = "split" /\ caps = [sem |-> 0, dk |-> 0, epi |-> 0, gt |-> 0, tmp |-> 0] /\ stolen = 0
    /\ tail = <<>> /\ open = {} /\ sums = <<>> /\ blocks = <<>> /\ drop = <<>> /\ kept = {} /\ slid = {}
    /\ sem = <<>> /\ dk = <<>> /\ why = "none" /\ hist = <<>> /\ shown = {}

----------------------------------------------------------------------------
(* The budget. *)

\* Takes need tokens from the channels of order, one after the other.
Take(c, order, need) ==
    FoldLeft(LAMBDA acc, ch : LET t == IF acc.need < acc.c[ch] THEN acc.need ELSE acc.c[ch]
                              IN  [c |-> [acc.c EXCEPT ![ch] = @ - t], need |-> acc.need - t],
             [c |-> c, need |-> need], order)

Part(pct) == (w.budget * pct) \div 100

\* split_memory_budget_v4 and the versions it falls back on: shares, then
\* the temporal floor at the expense of sem, dk, epi and gt in that order.
Split ==
    /\ pc = "split"
    /\ LET soft == [sem |-> IF w.sem THEN Part(Shares.sem) ELSE 0, dk |-> IF w.keep # <<>> THEN Part(Shares.dk) ELSE 0,
                    epi |-> IF w.sem THEN Part(Shares.epiSem) ELSE Part(Shares.epi),
                    gt |-> IF w.rows # <<>> THEN Part(Shares.gt) ELSE 0, tmp |-> 0]
           rest(c) == w.budget - c.sem - c.dk - c.epi - c.gt
           short == Part(Shares.floor) - rest(soft)
           cut == IF short > 0 /\ (w.sem \/ w.keep # <<>> \/ w.rows # <<>>)
                  THEN Take(soft, <<"sem", "dk", "epi", "gt">>, short).c ELSE soft
       IN  caps' = [cut EXCEPT !.tmp = rest(cut)]
    /\ pc' = "floor"
    /\ UNCHANGED <<w, stolen, tail, open, sums, blocks, drop, kept, slid, sem, dk, why, hist, shown>>

\* The last MaxRows rows of the glass.
Window == {r \in Rows : r > Len(w.rows) - MaxRows}
FloorN == IF ~w.social THEN 0 ELSE IF FloorRows < Cardinality(Window) THEN FloorRows ELSE Cardinality(Window)

\* _raise_glass_tail_cap_for_floor, for a social wake.
RaiseFloor ==
    /\ pc = "floor"
    /\ LET cost == SumOf({r \in Rows : r > Len(w.rows) - FloorN}, RowEst)
           need == IF cost > caps.gt THEN cost - caps.gt ELSE 0
           got == Take(caps, <<"sem", "dk", "epi">>, need)
       IN  IF w.social
           THEN /\ stolen' = need - got.need
                /\ caps' = [got.c EXCEPT !.gt = @ + stolen']
           ELSE UNCHANGED <<stolen, caps>>
    /\ pc' = "tail"
    /\ UNCHANGED <<w, tail, open, sums, blocks, drop, kept, slid, sem, dk, why, hist, shown>>

----------------------------------------------------------------------------
(* The glass tail and the open moment. *)

\* The open moment's own atoms, before the rows of the tail are suppressed.
OpenIds == {a \in Atoms : w.mom[a] = 0 /\ w.kind[a] # "parcel"}

\* MUTANT: a row that does not fit is passed over below the floor too.
SelectTailSkips ==
    /\ pc = "tail"
    /\ LET pack == FoldRight(LAMBDA r, acc :
                     IF acc.used + RowEst(r) > caps.gt THEN acc
                     ELSE [acc EXCEPT !.got = <<r>> \o @, !.used = @ + RowEst(r)],
                     InTime(Window), [got |-> <<>>, used |-> 0, stop |-> FALSE])
       IN  tail' = pack.got
    /\ open' = OpenIds
    /\ pc' = "summaries"
    /\ UNCHANGED <<w, caps, stolen, sums, blocks, drop, kept, slid, sem, dk, why, hist, shown>>

\* select_glass_tail: newest first; a row of the floor that does not fit
\* ends the packing, an older one is passed over.
SelectTail ==
    /\ pc = "tail"
    /\ LET pack == FoldRight(LAMBDA r, acc :
                     IF acc.stop THEN acc
                     ELSE IF acc.used + RowEst(r) > caps.gt THEN [acc EXCEPT !.stop = Len(acc.got) < FloorN]
                     ELSE [acc EXCEPT !.got = <<r>> \o @, !.used = @ + RowEst(r)],
                     InTime(Window), [got |-> <<>>, used |-> 0, stop |-> FALSE])
       IN  tail' = pack.got
    /\ open' = OpenIds
    /\ pc' = "summaries"
    /\ UNCHANGED <<w, caps, stolen, sums, blocks, drop, kept, slid, sem, dk, why, hist, shown>>

\* _suppress_temporal_by_tail_ids
Spine == {a \in open : w.says[a] \notin ToSet(tail)}

----------------------------------------------------------------------------
(* The episodic channel. *)

\* _load_1h_recent_band, by its existence and not by what was packed of it.
HourTips == {i \in DOMAIN w.sums : w.sums[i].scale = "1h"}

\* _try_pack_summary: text of a template is passed over; only the first
\* summary may exceed a cap.
FitsSummary(acc, s) ==
    s.llm /\ (acc.got = <<>> \/ acc.used + SumEst(s) <= (caps.epi * SumShare) \div 100)

\* select_episodic, the summaries; legacy scales when no hour has a tip.
PackSummaries ==
    /\ pc = "summaries"
    /\ LET pack == FoldLeft(LAMBDA acc, s :
                     IF (s.scale \in {"6h", "15m"} => HourTips = {}) /\ FitsSummary(acc, s)
                     THEN [got |-> Append(acc.got, s), used |-> acc.used + SumEst(s)] ELSE acc,
                     [got |-> <<>>, used |-> 0], w.sums)
       IN  sums' = IF caps.epi <= 0 THEN <<>> ELSE pack.got
    /\ pc' = "raw"
    /\ UNCHANGED <<w, caps, stolen, tail, open, blocks, drop, kept, slid, sem, dk, why, hist, shown>>

\* _raw_prefer_key: speech, observations, ledger, failed tools, tools, model.
Tier(a) == CASE w.kind[a] = "speak" -> 0 [] w.kind[a] = "observation" -> 1 [] w.kind[a] = "ledger" -> 2
             [] w.kind[a] = "failed" -> 3 [] w.kind[a] = "tool" -> 4 [] OTHER -> 5
Preferred(S) == SetToSortSeq(S, LAMBDA a, b : Tier(a) < Tier(b) \/ (Tier(a) = Tier(b) /\ a < b))

\* Lines are charged one by one, the header with the first.
LineCost(got, a) == IF got = {} THEN ItemEst(a) ELSE Est(w.len[a])

\* The atoms of one prior moment that go in after used tokens: the preferred
\* ones that fit; and if the block as a whole is too long, its first lines.
Block(S, used) ==
    LET greedy == FoldLeft(LAMBDA acc, a :
                    IF acc.used + LineCost(acc.got, a) > caps.epi THEN acc
                    ELSE [got |-> acc.got \cup {a}, used |-> acc.used + LineCost(acc.got, a)],
                    [got |-> {}, used |-> used], Preferred(S)).got
        first == FoldLeft(LAMBDA acc, a :
                    IF acc.stop \/ acc.used + LineCost(acc.got, a) > caps.epi THEN [acc EXCEPT !.stop = TRUE]
                    ELSE [got |-> acc.got \cup {a}, used |-> acc.used + LineCost(acc.got, a), stop |-> FALSE],
                    [got |-> {}, used |-> used, stop |-> FALSE], InTime(greedy)).got
    IN  IF used > 0 /\ used + BlockEst(greedy) > caps.epi THEN first ELSE greedy

\* select_episodic, the raw fill: prior moments, the latest first.
RawFill ==
    /\ pc = "raw"
    /\ LET prior(m) == {a \in Atoms : w.mom[a] = m /\ w.kind[a] # "parcel"}
           moms == {w.mom[a] : a \in {b \in Atoms : w.mom[b] # 0 /\ w.kind[b] # "parcel"}}
           latest(m) == CHOOSE a \in prior(m) : \A b \in prior(m) : b <= a
           fill == FoldLeft(LAMBDA acc, m :
                     LET b == Block(prior(m), acc.used)
                     IN  IF b = {} THEN acc ELSE [got |-> Append(acc.got, b), used |-> acc.used + BlockEst(b)],
                     [got |-> <<>>, used |-> SumSeq(sums, SumEst)], SetToSortSeq(moms, LAMBDA m, n : latest(m) > latest(n)))
       IN  blocks' = IF caps.epi <= 0 THEN <<>> ELSE fill.got
    /\ pc' = "pressure"
    /\ UNCHANGED <<w, caps, stolen, tail, open, sums, drop, kept, slid, sem, dk, why, hist, shown>>

EpiTokens == SumSeq(sums, SumEst) + SumSeq(blocks, BlockEst)

\* The shrink is entered only over the cap; _drop_raw_kinds lists the noise
\* of every block, block by block.
Pressure ==
    /\ pc = "pressure"
    /\ IF EpiTokens > caps.epi
       THEN /\ pc' = "3a"
            /\ drop' = FlattenSeq([i \in DOMAIN blocks |-> InTime({a \in blocks[i] : w.kind[a] \in Noise \cup {"failed"}})])
       ELSE pc' = "slide" /\ UNCHANGED drop
    /\ kept' = Spine
    /\ UNCHANGED <<w, caps, stolen, tail, open, sums, blocks, slid, sem, dk, why, hist, shown>>

\* _drop_raw_kinds, one turn: the sum is taken first, and a block that an
\* earlier turn emptied has no estimate: AttributeError, and the worker falls
\* back on the meal of the glass.
DropNoise ==
    /\ pc = "3a"
    /\ IF drop # <<>> /\ {} \in ToSet(blocks)
       THEN pc' = "legacy" /\ UNCHANGED <<blocks, drop>>
       ELSE IF drop # <<>> /\ EpiTokens > caps.epi
       THEN /\ blocks' = [i \in DOMAIN blocks |-> blocks[i] \ {Head(drop)}]
            /\ drop' = Tail(drop) /\ UNCHANGED pc
       ELSE pc' = "3b" /\ blocks' = SelectSeq(blocks, LAMBDA b : b # {}) /\ UNCHANGED drop
    /\ UNCHANGED <<w, caps, stolen, tail, open, sums, kept, slid, sem, dk, why, hist, shown>>

\* _trim_speak_obs_per_moment: speech beyond the last KeepLast of a moment,
\* the oldest first, until under the cap.
TrimTalk ==
    /\ pc = "3b"
    /\ LET talk(b) == InTime({a \in b : w.kind[a] \in Talk})
           excess(b) == SubSeq(talk(b), 1, Len(talk(b)) - KeepLast)
           over == {i \in DOMAIN blocks : Len(talk(blocks[i])) > KeepLast}
           i == CHOOSE j \in over : \A k \in over : j <= k
       IN  IF EpiTokens > caps.epi /\ over # {}
           THEN blocks' = [blocks EXCEPT ![i] = @ \ {Head(excess(@))}] /\ UNCHANGED pc
           ELSE pc' = "3c" /\ UNCHANGED blocks
    /\ UNCHANGED <<w, caps, stolen, tail, open, sums, drop, kept, slid, sem, dk, why, hist, shown>>

\* Which summary goes first: closed hours from the oldest, the open hour,
\* legacy scales, week, month, year, and the day last.
Rank(s) == CASE s.scale = "1h" -> (IF s.open THEN 100 ELSE s.start) [] s.scale = "15m" -> 101 [] s.scale = "6h" -> 102
             [] s.scale = "1w" -> 103 [] s.scale = "1m" -> 104 [] s.scale = "1y" -> 105 [] OTHER -> 106

\* _shrink_episodic, from 3c on: one summary at a time, then whole blocks.
DropSummary ==
    /\ pc = "3c"
    /\ LET i == CHOOSE j \in DOMAIN sums : \A k \in DOMAIN sums : Rank(sums[j]) <= Rank(sums[k])
           first(b) == CHOOSE a \in b : \A c \in b : a <= c
           o == CHOOSE j \in DOMAIN blocks : \A k \in DOMAIN blocks : first(blocks[j]) <= first(blocks[k])
       IN  CASE EpiTokens > caps.epi /\ sums # <<>> -> sums' = RemoveAt(sums, i) /\ UNCHANGED <<pc, blocks>>
             [] EpiTokens > caps.epi /\ sums = <<>> /\ blocks # <<>> -> blocks' = RemoveAt(blocks, o) /\ UNCHANGED <<pc, sums>>
             [] OTHER -> pc' = "slide" /\ UNCHANGED <<sums, blocks>>
    /\ UNCHANGED <<w, caps, stolen, tail, open, drop, kept, slid, sem, dk, why, hist, shown>>

----------------------------------------------------------------------------
(* The temporal channel. *)

\* _is_protected_temporal, against the whole open moment of the meal.
Newest(S) == {a \in S : \A b \in S : b <= a}
Protected ==
    {a \in Spine : a \in w.media \/ w.says[a] # 0 \/ Cardinality({b \in Spine : b > a}) < TailK}
    \cup Newest({a \in Spine : w.kind[a] = "speak"}) \cup Newest({a \in Spine : w.kind[a] = "failed"})

\* build_compact_text: a header and a line per atom slid off, cut to size.
CompactEst(S) == LET n == Est(Label + Cardinality(S) * Q) IN IF S = {} THEN 0 ELSE IF n > CompactMax THEN CompactMax ELSE n
TmpTokens(k, s) == CompactEst(s) + BlockEst(k)

\* slide_off_temporal, one turn: tool noise first, then the oldest.
SlideOne ==
    /\ pc = "slide"
    /\ LET loose == kept \ Protected
           noise == {a \in loose : w.kind[a] \in Noise \cup {"failed"}}
           pool == IF noise # {} THEN noise ELSE loose
           v == CHOOSE a \in pool : \A b \in pool : a <= b
       IN  IF TmpTokens(kept, slid) > caps.tmp /\ loose # {}
           THEN kept' = kept \ {v} /\ slid' = slid \cup {v} /\ UNCHANGED pc
           ELSE pc' = "semantic" /\ UNCHANGED <<kept, slid>>
    /\ UNCHANGED <<w, caps, stolen, tail, open, sums, blocks, drop, sem, dk, why, hist, shown>>

----------------------------------------------------------------------------
(* The channels the other three have precedence over. *)

\* _atom_ids_in_meal_items
EpiIds == UNION ToSet(blocks)
Parent(a) == IF w.kind[a] = "parcel" THEN w.parent[a] ELSE a

\* The hits that are packed, one parent once, each only if it fits.
Pack(ids, excluded, cap, used) ==
    FoldLeft(LAMBDA acc, a :
        IF Parent(a) \in excluded \cup ToSet(acc.got) \/ acc.used + ItemEst(Parent(a)) > cap THEN acc
        ELSE [got |-> Append(acc.got, Parent(a)), used |-> acc.used + ItemEst(Parent(a))],
        [got |-> <<>>, used |-> used], ids)

Seeded == (w.social /\ w.rows # <<>>) \/ \E a \in Spine : w.kind[a] \in Talk \cup {"model"}

\* Why the channel is empty after n of the hits were looked at; the probe
\* without exclusions tells "nothing there" from "all shown already".
WhyEmpty(n, hits, loud, excluded) ==
    CASE n < Len(hits) -> "timeout"
      [] n = Len(hits) /\ n > 0 /\ loud = <<>> -> "min_score"
      [] n = Len(hits) /\ loud # <<>> /\ (\E i \in DOMAIN loud : Parent(loud[i]) \in excluded) -> "deduped"
      [] n = Len(hits) /\ n = 0 /\ (\E i \in DOMAIN w.hits : Parent(w.hits[i]) \in excluded) -> "deduped"
      [] OTHER -> "no_hits"

\* select_semantic: a call that may not wait gives up at its deadline, after
\* n of the hits or before them (external: index, embedder, clock).
SelectSemantic ==
    /\ pc = "semantic" /\ pc' = "keep"
    /\ LET excluded == open \cup EpiIds \cup kept
           hits == SelectSeq(w.hits, LAMBDA a : a \notin excluded /\ w.mom[a] # 0)
       IN  IF ~w.sem \/ caps.sem <= 0 \/ w.index # "ok" \/ ~Seeded
           THEN /\ sem' = <<>>
                /\ why' = IF ~w.sem \/ caps.sem <= 0 THEN "none" ELSE IF w.index # "ok" THEN w.index ELSE "empty_seed"
           ELSE \E n \in IF w.wait THEN {Len(hits)} ELSE -1..Len(hits) :
                  LET loud == SelectSeq(SubSeq(hits, 1, n), LAMBDA a : a \notin w.low)
                  IN  /\ sem' = Pack(loud, excluded, caps.sem, 0).got
                      /\ why' = IF sem' # <<>> THEN "none" ELSE WhyEmpty(n, hits, loud, excluded)
    /\ UNCHANGED <<w, caps, stolen, tail, open, sums, blocks, drop, kept, slid, dk, hist, shown>>

\* select_directed_keep: the walk's summary is charged first when it fits,
\* soft-aged ids come last, a lone summary is not a channel.
SelectKeep ==
    /\ pc = "keep" /\ pc' = "compose"
    /\ LET order == SelectSeq(w.keep, LAMBDA a : a \notin w.soft) \o SelectSeq(w.keep, LAMBDA a : a \in w.soft)
           note == IF Est(Label + w.note) <= caps.dk THEN Est(Label + w.note) ELSE 0
           excluded == open \cup EpiIds \cup kept \cup ToSet(sem)
       IN  dk' = IF caps.dk <= 0 THEN <<>>
                 ELSE Pack(SelectSeq(order, LAMBDA a : a \notin excluded), excluded, caps.dk, note).got
    /\ UNCHANGED <<w, caps, stolen, tail, open, sums, blocks, drop, kept, slid, sem, why, hist, shown>>

----------------------------------------------------------------------------
(* The messages. *)

\* The id the temporal block's message carries: its first wake message.
BlockWake == {w.says[a] : a \in {b \in kept : w.says[b] # 0 /\ \A c \in kept : w.says[c] # 0 => b <= c}}

\* _inject_hybrid_wake_row: the wake's row when no message carries its id.
Hybrid == IF w.wake \notin ToSet(tail) \cup BlockWake THEN {w.wake} \cap Rows ELSE {}

\* compose_outer_messages and expand_memory_meal_for_provider.
Compose ==
    /\ pc = "compose" /\ pc' = "done"
    /\ shown' = ToSet(tail) \cup ({w.says[a] : a \in kept} \ {0}) \cup Hybrid
    /\ UNCHANGED <<w, caps, stolen, tail, open, sums, blocks, drop, kept, slid, sem, dk, why, hist>>

\* assemble_outer_meal, once the composition has failed: all of the glass ...
Legacy ==
    /\ pc = "legacy" /\ pc' = "drop"
    /\ hist' = InTime(Rows)
    /\ UNCHANGED <<w, caps, stolen, tail, open, sums, blocks, drop, kept, slid, sem, dk, why, shown>>

\* ... and _drop_oldest_history, a question with its answer, never the wake.
DropOldest ==
    /\ pc = "drop"
    /\ LET loose == {i \in DOMAIN hist : hist[i] # w.wake}
           i == CHOOSE j \in loose : \A k \in loose : j <= k
           pair == /\ w.asks[hist[i]] /\ i + 1 \in loose /\ ~w.asks[hist[i + 1]]
       IN  IF SumSeq(hist, LAMBDA r : Est(w.rows[r])) > w.budget /\ loose # {}
           THEN hist' = (IF pair THEN RemoveAt(RemoveAt(hist, i), i) ELSE RemoveAt(hist, i)) /\ UNCHANGED <<pc, shown>>
           ELSE pc' = "done" /\ shown' = ToSet(hist) /\ UNCHANGED hist
    /\ UNCHANGED <<w, caps, stolen, tail, open, sums, blocks, drop, kept, slid, sem, dk, why>>

Next ==
    \/ Split \/ RaiseFloor \/ SelectTail \/ PackSummaries \/ RawFill \/ Pressure \/ DropNoise \/ TrimTalk \/ DropSummary
    \/ SlideOne \/ SelectSemantic \/ SelectKeep \/ Compose \/ Legacy \/ DropOldest

Spec == Init /\ [][Next]_vars

----------------------------------------------------------------------------
(* Properties. *)

\* Every variable stays in its domain (compose_meal's locals).
TypeOK ==
    /\ w.budget \in Nat /\ w.wake \in {0} \cup Rows
    /\ pc \in {"split", "floor", "tail", "summaries", "raw", "pressure", "3a", "3b", "3c", "slide", "semantic", "keep",
               "compose", "legacy", "drop", "done"}
    /\ \A c \in DOMAIN caps : caps[c] \in 0..w.budget
    /\ ToSet(tail) \subseteq Rows /\ ToSet(hist) \subseteq Rows /\ shown \subseteq Rows
    /\ open \subseteq Atoms /\ kept \subseteq open /\ slid \subseteq open /\ EpiIds \subseteq Atoms
    /\ ToSet(sem) \cup ToSet(dk) \subseteq Atoms

\* No atom is shown by two channels, and no message both as a row of the
\* tail and in the open moment's block (the exclusions of compose_meal).
ShownOnce ==
    pc = "compose" =>
        /\ EpiIds \cap (open \cup ToSet(sem) \cup ToSet(dk)) = {}
        /\ ToSet(sem) \cap (open \cup ToSet(dk)) = {} /\ ToSet(dk) \cap open = {}
        /\ Cardinality(ToSet(sem)) = Len(sem) /\ Cardinality(ToSet(dk)) = Len(dk)
        /\ \A a \in kept : w.says[a] \notin ToSet(tail)

\* The channels' shares make up the budget whatever the floors took, and a
\* channel stays within its own; temporal exceeds it only by what may not
\* be slid off.
WithinBudget ==
    pc = "compose" =>
        /\ caps.sem + caps.dk + caps.epi + caps.gt + caps.tmp = w.budget
        /\ EpiTokens <= caps.epi /\ SumSeq(tail, RowEst) <= caps.gt
        /\ SumSeq(sem, LAMBDA a : ItemEst(a)) <= caps.sem /\ SumSeq(dk, LAMBDA a : ItemEst(a)) <= caps.dk
        /\ TmpTokens(kept, slid) > caps.tmp => kept \subseteq Protected

\* Nothing older is shown while a row of a social wake's floor is missing,
\* and none is missing when the supports could pay (select_glass_tail).
FloorHasNoGap ==
    pc = "compose" =>
        LET floor == {r \in Rows : r > Len(w.rows) - FloorN}
        IN  /\ \A r \in ToSet(tail) : \A q \in floor : q > r => q \in ToSet(tail)
            /\ SumOf(floor, RowEst) <= caps.gt => floor \subseteq ToSet(tail)

\* What the open moment holds is shown, or told of in the compact text, or
\* shown as a row of the tail; never just gone.
NothingVanishes ==
    pc = "compose" => \A a \in open : a \in kept \cup slid \/ w.says[a] \in ToSet(tail)

\* The message the agent was woken by reaches the model, from whichever
\* channel, and when the composition fails too (wake protection).
WakeIsServed == pc = "done" /\ w.wake \in Rows => w.wake \in shown

\* Under pressure the episodic channel is shrunk until it fits.  It is not:
\* _drop_raw_kinds raises when a block empties before the last turn.
ShrinkFits == pc # "legacy"

\* A composed meal shows no atom twice, stays within its budget, has no gap in the
\* rows it guarantees, drops nothing unseen, and serves the wake.
MealIsSound ==
  TypeOK /\ ShownOnce /\ WithinBudget /\ FloorHasNoGap /\ NothingVanishes /\ WakeIsServed
=============================================================================
