------------------------------ MODULE Identity ------------------------------
(***************************************************************************)
(* An identity card (the instance's own, or a user's) and its promotion:   *)
(* src/elyra/identity/{store,layout,grants,gates}.py, users/store.py, the  *)
(* tools of tools/builtin/identity.py and the panel of runtime/api.py.     *)
(*                                                                         *)
(* A card is a directory: current.md (the live body), draft.md, meta.json  *)
(* and versions/<id>.md (bodies that were live).  Every file is replaced   *)
(* atomically, but a promotion writes several, and the process may die or  *)
(* a write may fail between two of them.  The model's tools and the HTTP   *)
(* panel hold stores of their own, each with a lock of its own, so that    *)
(* their operations on one card interleave.                                *)
(*                                                                         *)
(* A body is a number, 0 for a missing file, and is its own hash; version  *)
(* ids are minted in increasing order.  A patch of the meta data is one    *)
(* flag: it stands for a new name.                                         *)
(***************************************************************************)
EXTENDS Integers, Sequences, FiniteSets, SequencesExt

CONSTANTS Limit,      \* VERSION_GC_LIMIT: archived bodies that are kept
          MaxBodies,  \* bound: bodies, the seed's and its upgrade's included
          MaxGrants,  \* bound: grants the operator mints
          MaxPromotes,\* bound: promotions asked for
          MaxFaults,  \* bound: writes that fail
          MaxDeaths   \* bound: deaths of the process

VARIABLES actor,     \* whose card: "self" or "user"
          boot,      \* step of ensure_layout at start-up, "up" when done
          cur,       \* current.md
          draft,     \* draft.md
          meta,      \* meta.json
          files,     \* versions/: a function from version ids to bodies
          pc,        \* where each store's operation is
          loc,       \* its local variables
          uses,      \* uses left on the operator's grants
          granted,   \* history: grants minted
          promoted,  \* history: promotions committed
          lives,     \* history: the bodies that were live, in order
          asked,     \* history: the draft acknowledged last and not yet live
          strayed,   \* history: a body went live that its caller had not seen
          torn,      \* history: a promotion stopped between body and meta data
          raced,     \* history: two operations on the card overlapped
          calls,     \* promotions asked for so far
          bodies,    \* bodies written so far
          minted,    \* version ids minted so far
          faults,
          deaths

cardVars == <<cur, draft, meta, files>>
pastVars == <<granted, promoted, lives, asked, strayed, torn>>
vars == <<actor, boot, cardVars, pc, loc, uses, pastVars, raced, calls, bodies,
          minted, faults, deaths>>

Stores == {"tool", "glass"}
Other(s) == CHOOSE o \in Stores : o # s

NoMeta == [vid |-> 0, sha |-> 0, named |-> FALSE, idx |-> <<>>, nudges |-> 0]
DefaultMeta(vid, body) == [NoMeta EXCEPT !.vid = vid, !.sha = body]
NoLocal == [body |-> 0, old |-> 0, expected |-> 0, patch |-> FALSE,
            meta |-> NoMeta, drop |-> <<>>]

InStore(s) == pc[s] \notin {"idle", "take", "enter"}
AtRest == \A s \in Stores : ~InStore(s)
Goto(s, l) == pc' = [pc EXCEPT ![s] = l]

-----------------------------------------------------------------------------
(***************************************************************************)
(* The index of versions.  A non-empty index is authoritative and files it *)
(* does not cite are deleted; an empty one is rebuilt from the directory.  *)
(***************************************************************************)
rebuild_versions_index == SetToSortSeq(DOMAIN files, <)

Cleaned(idx) == SelectSeq(idx, LAMBDA v : v \in DOMAIN files)

Keeping(vids) == [v \in DOMAIN files \cap vids |-> files[v]]

heal_versions_index ==
    LET idx == Cleaned(meta.idx) IN
    IF idx # <<>>
      THEN /\ files' = Keeping(Range(idx))
           /\ meta' = [meta EXCEPT !.idx = idx]
      ELSE /\ meta' = [meta EXCEPT !.idx = rebuild_versions_index]
           /\ UNCHANGED files

trim_versions_index(idx) ==
    IF Len(idx) <= Limit THEN idx
    ELSE SubSeq(idx, Len(idx) - Limit + 1, Len(idx))

(***************************************************************************)
(* Start-up, ensure_layout: the legacy file (or the seed) becomes          *)
(* current.md, the meta data get their default, the instance's own first   *)
(* seed is upgraded in place and its hash recorded, the index is healed.   *)
(***************************************************************************)
BootStays == UNCHANGED <<actor, calls, draft, pc, loc, uses, granted, promoted, asked,
                         strayed, torn, raced, faults, deaths>>

SeedCurrent ==
    /\ boot = "seed"
    /\ boot' = "meta"
    /\ cur' = IF cur = 0 THEN 1 ELSE cur
    /\ lives' = IF lives = <<>> THEN <<1>> ELSE lives
    /\ UNCHANGED <<meta, files, bodies, minted>>
    /\ BootStays

SeedMeta ==
    /\ boot = "meta"
    /\ boot' = "upgrade"
    /\ IF meta = NoMeta
         THEN meta' = DefaultMeta(minted + 1, cur) /\ minted' = minted + 1
         ELSE UNCHANGED <<meta, minted>>
    /\ UNCHANGED <<cur, files, lives, bodies>>
    /\ BootStays

maybe_migrate_self_v2 ==
    /\ boot = "upgrade"
    /\ IF actor = "self" /\ cur = 1
         THEN /\ boot' = "hash"
              /\ cur' = 2
              /\ lives' = [lives EXCEPT ![Len(lives)] = 2]
         ELSE boot' = "heal" /\ UNCHANGED <<cur, lives>>
    /\ UNCHANGED <<meta, files, bodies, minted>>
    /\ BootStays

RecordHash ==
    /\ boot = "hash"
    /\ boot' = "heal"
    /\ meta' = [meta EXCEPT !.sha = cur]
    /\ UNCHANGED <<cur, files, lives, bodies, minted>>
    /\ BootStays

HealAtStart ==
    /\ boot = "heal"
    /\ boot' = "up"
    /\ heal_versions_index
    /\ UNCHANGED <<cur, lives, bodies, minted>>
    /\ BootStays

-----------------------------------------------------------------------------
(***************************************************************************)
(* Entering a store: its own lock is taken, and the layout is ensured.     *)
(***************************************************************************)
EnterStore(s) ==
    /\ boot = "up"
    /\ raced' = (raced \/ InStore(Other(s)))
    /\ heal_versions_index

StoreStays == UNCHANGED <<actor, boot, calls, faults, deaths>>

(* write_draft: the body, if there is one, then the meta data.             *)
BeginDraft(body, patch) ==
    /\ pc["tool"] = "idle"
    /\ body # 0 \/ patch
    /\ EnterStore("tool")
    /\ Goto("tool", "draft")
    /\ loc' = [loc EXCEPT !["tool"] = [NoLocal EXCEPT !.body = body, !.patch = patch]]
    /\ bodies' = IF body = 0 THEN bodies ELSE body
    /\ UNCHANGED <<cur, draft, uses, pastVars, minted>>
    /\ StoreStays

write_draft_body ==
    /\ pc["tool"] = "draft"
    /\ IF loc["tool"].body = 0 THEN UNCHANGED <<draft, asked>>
       ELSE draft' = loc["tool"].body /\ asked' = loc["tool"].body
    /\ Goto("tool", "loadMeta")
    /\ UNCHANGED <<cur, meta, files, loc, uses, granted, promoted, lives, strayed,
                   torn, raced, bodies, minted>>
    /\ StoreStays

write_draft_load ==
    /\ pc["tool"] = "loadMeta"
    /\ loc' = [loc EXCEPT !["tool"].meta = meta]
    /\ Goto("tool", "saveMeta")
    /\ UNCHANGED <<cardVars, uses, pastVars, raced, bodies, minted>>
    /\ StoreStays

write_draft_save ==
    /\ pc["tool"] = "saveMeta"
    /\ meta' = [loc["tool"].meta EXCEPT !.named = @ \/ loc["tool"].patch]
    /\ loc' = [loc EXCEPT !["tool"] = NoLocal]
    /\ Goto("tool", "idle")
    /\ UNCHANGED <<cur, draft, files, uses, pastVars, raced, bodies, minted>>
    /\ StoreStays

(* A nudge for a user's name is recorded in the live meta data.            *)
record_name_nudge ==
    /\ actor = "user"
    /\ boot = "up"
    /\ pc["tool"] = "idle"
    /\ meta.nudges < 1
    /\ meta' = [meta EXCEPT !.nudges = @ + 1]
    /\ raced' = (raced \/ InStore("glass"))
    /\ UNCHANGED <<cur, draft, files, pc, loc, uses, pastVars, bodies, minted>>
    /\ StoreStays

-----------------------------------------------------------------------------
(***************************************************************************)
(* promote_identity and the panel's promote: the gate (a draft, the hash   *)
(* the caller saw, and for the instance's own card a grant), the grant is  *)
(* consumed, and the store promotes.                                       *)
(***************************************************************************)
mint_grant ==
    /\ actor = "self"
    /\ granted < MaxGrants
    /\ granted' = granted + 1
    /\ uses' = uses + 1
    /\ UNCHANGED <<cardVars, pc, loc, promoted, lives, asked, strayed, torn, raced,
                   bodies, minted>>
    /\ StoreStays

evaluate_promote_gate(s, expected) ==
    /\ boot = "up"
    /\ pc[s] = "idle"
    /\ draft # 0
    /\ expected \in {0, draft}
    /\ actor = "self" => uses > 0
    /\ calls < MaxPromotes
    /\ calls' = calls + 1
    /\ Goto(s, IF actor = "self" THEN "take" ELSE "enter")
    /\ loc' = [loc EXCEPT ![s] = [NoLocal EXCEPT !.expected = expected]]
    /\ UNCHANGED <<cardVars, uses, pastVars, raced, bodies, minted>>
    /\ UNCHANGED <<actor, boot, faults, deaths>>

consume_grant(s) ==
    /\ pc[s] = "take"
    /\ IF uses > 0 THEN uses' = uses - 1 /\ Goto(s, "enter")
       ELSE Goto(s, "idle") /\ UNCHANGED uses
    /\ UNCHANGED <<cardVars, loc, pastVars, raced, bodies, minted>>
    /\ StoreStays

promote_enter(s) ==
    /\ pc[s] = "enter"
    /\ EnterStore(s)
    /\ Goto(s, "load")
    /\ UNCHANGED <<cur, draft, loc, uses, pastVars, bodies, minted>>
    /\ StoreStays

Refused(s) == draft = 0 \/ loc[s].expected \notin {0, draft}

AlreadyDone == ~meta.named /\ draft = cur /\ meta.sha = draft

promote_refuse(s) ==
    /\ pc[s] = "load"
    /\ Refused(s)
    /\ Goto(s, "idle")
    /\ UNCHANGED <<cardVars, loc, uses, pastVars, raced, bodies, minted>>
    /\ StoreStays

(* The draft was left behind by a promotion that committed.                *)
promote_complete(s) ==
    /\ pc[s] = "load"
    /\ ~Refused(s) /\ AlreadyDone
    /\ files' = Keeping(Range(meta.idx))
    /\ draft' = 0
    /\ asked' = IF asked = draft THEN 0 ELSE asked
    /\ Goto(s, "idle")
    /\ UNCHANGED <<cur, meta, loc, uses, granted, promoted, lives, strayed, torn,
                   raced, bodies, minted>>
    /\ StoreStays

\* MUTANT: the draft is taken away when it is read.
promote_load_takes(s) ==
    /\ pc[s] = "load"
    /\ ~Refused(s) /\ ~AlreadyDone
    /\ loc' = [loc EXCEPT ![s].body = draft, ![s].old = cur, ![s].meta = meta]
    /\ draft' = 0
    /\ Goto(s, "archive")
    /\ UNCHANGED <<cur, meta, files, uses, pastVars, raced, bodies, minted>>
    /\ StoreStays

promote_load(s) ==
    /\ pc[s] = "load"
    /\ ~Refused(s) /\ ~AlreadyDone
    /\ loc' = [loc EXCEPT ![s].body = draft, ![s].old = cur, ![s].meta = meta]
    /\ Goto(s, "archive")
    /\ UNCHANGED <<cardVars, uses, pastVars, raced, bodies, minted>>
    /\ StoreStays

(* The outgoing body is filed under its version id unless that file        *)
(* exists, and the index to be committed is extended and trimmed.          *)
Extended(idx, vid) == IF vid \in Range(idx) THEN idx ELSE Append(idx, vid)

Filed(s) == [v \in DOMAIN files \cup {loc[s].meta.vid} |->
                IF v \in DOMAIN files THEN files[v] ELSE loc[s].old]

Dropped(s) == LET all == Extended(loc[s].meta.idx, loc[s].meta.vid) IN
              Range(all) \ Range(trim_versions_index(all))

promote_archive(s) ==
    /\ pc[s] = "archive"
    /\ files' = Filed(s)
    /\ loc' = [loc EXCEPT
         ![s].meta.idx = trim_versions_index(Extended(@, loc[s].meta.vid)),
         ![s].drop = SetToSortSeq(Dropped(s), <)]
    /\ Goto(s, "swap")
    /\ UNCHANGED <<cur, draft, meta, uses, pastVars, raced, bodies, minted>>
    /\ StoreStays

promote_swap(s) ==
    /\ pc[s] = "swap"
    /\ cur' = loc[s].body
    /\ lives' = Append(lives, cur')
    /\ asked' = IF asked = cur' THEN 0 ELSE asked
    /\ strayed' = (strayed \/ loc[s].expected \notin {0, cur'})
    /\ Goto(s, "commit")
    /\ UNCHANGED <<draft, meta, files, loc, uses, granted, promoted, torn, raced,
                   bodies, minted>>
    /\ StoreStays

promote_commit(s) ==
    /\ pc[s] = "commit"
    /\ minted' = minted + 1
    /\ meta' = [loc[s].meta EXCEPT !.vid = minted', !.sha = loc[s].body,
                  !.named = FALSE, !.nudges = IF loc[s].meta.named THEN 0 ELSE @]
    /\ promoted' = promoted + 1
    /\ Goto(s, "collect")
    /\ UNCHANGED <<cur, draft, files, loc, uses, granted, lives, asked, strayed, torn,
                   raced, bodies>>
    /\ StoreStays

(* Deletions are tolerant, but a draft that cannot be removed is reported. *)
promote_collect(s) ==
    /\ pc[s] = "collect"
    /\ files' = Keeping(DOMAIN files \ Range(loc[s].drop))
    /\ \/ draft' = 0 /\ UNCHANGED faults
       \/ faults < MaxFaults /\ faults' = faults + 1 /\ UNCHANGED draft
    /\ loc' = [loc EXCEPT ![s] = NoLocal]
    /\ Goto(s, "idle")
    /\ UNCHANGED <<actor, boot, cur, meta, uses, pastVars, raced, calls, bodies, minted,
                   deaths>>

-----------------------------------------------------------------------------
(* A write raises: the operation ends where it stands.                     *)
WriteFails(s) ==
    /\ pc[s] \in {"draft", "saveMeta", "take", "archive", "swap", "commit"}
    /\ faults < MaxFaults
    /\ faults' = faults + 1
    /\ torn' = (torn \/ pc[s] = "commit")
    /\ loc' = [loc EXCEPT ![s] = NoLocal]
    /\ Goto(s, "idle")
    /\ UNCHANGED <<actor, boot, cardVars, uses, granted, promoted, lives, asked, strayed,
                   raced, calls, bodies, minted, deaths>>

Die ==
    /\ deaths < MaxDeaths
    /\ deaths' = deaths + 1
    /\ boot' = "seed"
    /\ torn' = (torn \/ \E s \in Stores : pc[s] = "commit")
    /\ pc' = [s \in Stores |-> "idle"]
    /\ loc' = [s \in Stores |-> NoLocal]
    /\ UNCHANGED <<actor, cardVars, uses, granted, promoted, lives, asked, strayed,
                   raced, calls, bodies, minted, faults>>

Init ==
    /\ actor \in {"self", "user"}
    /\ boot = "seed"
    /\ cur = 0 /\ draft = 0 /\ meta = NoMeta /\ files = <<>>
    /\ pc = [s \in Stores |-> "idle"]
    /\ loc = [s \in Stores |-> NoLocal]
    /\ uses = 0 /\ granted = 0 /\ promoted = 0
    /\ lives = <<>> /\ asked = 0
    /\ strayed = FALSE /\ torn = FALSE /\ raced = FALSE
    /\ calls = 0 /\ bodies = 2
    /\ minted = 0 /\ faults = 0 /\ deaths = 0

Boot == SeedCurrent \/ SeedMeta \/ maybe_migrate_self_v2 \/ RecordHash \/ HealAtStart

Drafting ==
    \/ \E b \in {0} \cup {n \in {bodies + 1} : n <= MaxBodies}, p \in BOOLEAN : BeginDraft(b, p)
    \/ write_draft_body \/ write_draft_load \/ write_draft_save \/ record_name_nudge

Promoting(s) ==
    \/ \E e \in {0, draft} : evaluate_promote_gate(s, e)
    \/ consume_grant(s) \/ promote_enter(s) \/ promote_refuse(s)
    \/ promote_complete(s) \/ promote_load(s) \/ promote_archive(s)
    \/ promote_swap(s) \/ promote_commit(s) \/ promote_collect(s) \/ WriteFails(s)

ToolPromotes == Promoting("tool")

GlassPromotes == Promoting("glass")

Next ==
    \/ Boot \/ Drafting \/ mint_grant \/ Die
    \/ ToolPromotes \/ GlassPromotes

Spec == Init /\ [][Next]_vars

-----------------------------------------------------------------------------
TypeOK ==
    /\ actor \in {"self", "user"}
    /\ boot \in {"seed", "meta", "upgrade", "hash", "heal", "up"}
    /\ cur \in 0 .. MaxBodies /\ draft \in 0 .. MaxBodies /\ asked \in 0 .. MaxBodies
    /\ DOMAIN files \subseteq 1 .. minted
    /\ \A v \in DOMAIN files : files[v] \in 1 .. MaxBodies
    /\ meta.vid \in 0 .. minted /\ meta.sha \in 0 .. MaxBodies
    /\ Range(meta.idx) \subseteq 1 .. minted
    /\ uses \in 0 .. MaxGrants

\* The last Limit bodies that went out of use are in `found'.
HistoryIn(found) ==
    boot = "up" /\ AtRest =>
        \A i \in 1 .. Len(lives) - 1 : i >= Len(lives) - Limit => lives[i] \in found

\* A body that was live stays listed and on disk until the limit pushes it out,
\* whatever promotions fail or die around it (store.py promote,
\* heal_versions_index).  Excepted are overlapping operations of the two stores
\* and a promotion that stopped after current.md and before meta.json.
HistoryKept ==
    torn \/ raced \/ HistoryIn({files[v] : v \in DOMAIN files \cap Range(meta.idx)})

\* No promotion that stops half-way costs a body: the design has the index
\* rebuilt from the directory when the two diverge, so that a body that was
\* archived is found again.
ArchiveSurvivesDeath ==
    raced \/ HistoryIn({cur} \cup {files[v] : v \in DOMAIN files})

\* Every row of the index has its file, also after a promotion that failed
\* after trimming the index (files are deleted only after the commit).
IndexIsBacked ==
    raced \/ (boot = "up" /\ AtRest => Range(meta.idx) \subseteq DOMAIN files)

\* A draft that was written is there until it is live or replaced by the next.
DraftKept == raced \/ (asked # 0 => draft = asked)

\* A body approved by its hash is the body that goes live, whatever is drafted
\* between the gate and the promotion.
ApprovedGoesLive == ~strayed

\* The instance's own card changes no more often than the operator granted,
\* also when the tool and the panel spend the last grant at the same time.
GrantsSuffice == actor = "self" => promoted + uses <= granted

\* Promotions from two stores with deaths in between keep the history of a card and
\* the files its index names, lose no draft, put live only what was approved, and
\* use no grant twice.
CardsKept ==
  TypeOK /\ HistoryKept /\ IndexIsBacked /\ DraftKept /\ ApprovedGoesLive /\ GrantsSuffice
=============================================================================
