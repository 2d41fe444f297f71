-------------------------------- MODULE Growth --------------------------------
(***************************************************************************)
(* How the agent grows a tool or a skill of its own                        *)
(* (elyra/tools/{verify,promote,registry}.py, builtin/growth.py,           *)
(* builtin/package_vcs.py, skills/catalog.py): a draft is written file by  *)
(* file, a tool's draft is tested on a staged copy, and the draft is then  *)
(* staged with the history of the package it replaces and swapped with it  *)
(* by two renames.  Only the agent's own thread runs these handlers, so    *)
(* what interferes is a failing call, the death of the process between two *)
(* steps, tests that write where they should not, and an operator who      *)
(* removes a package by hand.  A payload is the pair of versions of its    *)
(* two files; 0 is a file that is not there.                               *)
(***************************************************************************)
EXTENDS Naturals, FiniteSets

CONSTANTS Limit,       \* VERSION_GC_LIMIT
          MaxEdits,    \* drafts written
          MaxArchives, \* versions archived
          MaxFaults,   \* calls that fail
          MaxDeaths    \* deaths of the process

ASSUME GrowthOK == {Limit, MaxEdits, MaxArchives, MaxFaults, MaxDeaths} \subseteq Nat

VARIABLES kind,    \* the package is a "tool" or a "skill"
          draft,   \* the payload under drafts/, or None
          record,  \* .verify.json: the payload whose hash it names, or None
          live,    \* local/<name>: payload, versions and the index of them
          stage,   \* the tree being built under a hidden name
          aside,   \* the replaced tree, under a hidden name
          planted, \* a package that tests left under local/
          cat,     \* the registry's or the catalogue's entry: a payload
          op,      \* the handler that is running
          tested,  \* payloads whose tests passed
          served,  \* calls: the payload loaded and the payload run
          verdict, \* how the last verification of this draft ended
          minted,  \* version identifiers used so far
          was,     \* what each version of the live tree must hold
          stray,   \* a planted package escaped its removal
          stale,   \* a reload failed, so the entry may lag behind
          edits, faults, deaths

vars == <<kind, draft, record, live, stage, aside, planted, cat, op, tested,
          served, verdict, minted, was, stray, stale, edits, faults, deaths>>

None == <<>>
Files == {1, 2}
Payload == [Files -> 0 .. MaxEdits]
NoFiles == [f \in Files |-> 0]
Idle == [pc |-> "idle"]

Init == /\ kind \in {"tool", "skill"}
        /\ draft = None /\ record = None /\ live = None /\ stage = None
        /\ aside = None /\ planted = FALSE /\ cat = None /\ op = Idle
        /\ tested = {} /\ served = {} /\ verdict = "none" /\ minted = 0
        /\ was = None /\ stray = FALSE /\ stale = FALSE
        /\ edits = 0 /\ faults = 0 /\ deaths = 0

Fault == /\ faults < MaxFaults /\ faults' = faults + 1
Book == <<tested, served, minted, was, stray, stale, deaths>>
Shop == <<live, stage, aside, planted, cat>>

(* validate_draft_package, and validate_skill_package for a skill. *)
Whole(p) == p # None /\ \A f \in Files : p[f] # 0
SkillWhole(p) == p # None /\ p[1] # 0
Sound(p) == IF kind = "tool" THEN Whole(p) ELSE SkillWhole(p)

(* install_tool_draft: the keys are judged before anything is written, then *)
(* one file after the other.                                                *)
InstallToolDraft ==
    /\ op = Idle /\ kind = "tool" /\ edits < MaxEdits
    /\ edits' = edits + 1
    /\ draft' = IF draft = None THEN NoFiles ELSE draft
    /\ \E fs \in (SUBSET Files) \ {{}} : op' = [pc |-> "write", left |-> fs]
    /\ UNCHANGED <<kind, record, verdict, faults, Book, Shop>>

(* delete_verify_record: its own failure is swallowed. *)
DeleteRecord == \/ record' = None /\ UNCHANGED faults
                \/ record # None /\ Fault /\ UNCHANGED record

(* _safe_write_under, and what the loop does with its answer. *)
WriteFile ==
    /\ op.pc = "write" /\ op.left # {}
    /\ \/ \E f \in op.left :
             /\ draft' = [draft EXCEPT ![f] = edits]
             /\ op' = [op EXCEPT !.left = @ \ {f}]
             /\ UNCHANGED <<record, faults>>
       \/ /\ Fault /\ op' = Idle /\ UNCHANGED draft
          /\ record' = None
    /\ verdict' = "none"
    /\ UNCHANGED <<kind, edits, Book, Shop>>

ForgetRecord ==
    /\ op.pc = "write" /\ op.left = {}
    /\ DeleteRecord /\ op' = Idle
    /\ UNCHANGED <<kind, draft, verdict, edits, Book, Shop>>

(* write_skill_draft: one file, SKILL.md. *)
WriteSkill(next) ==
    /\ op = Idle /\ kind = "skill" /\ edits < MaxEdits
    /\ edits' = edits + 1
    /\ \/ /\ draft' = [f \in Files |-> IF f = 1 THEN edits' ELSE 0]
          /\ op' = next /\ UNCHANGED faults
       \/ Fault /\ draft' = NoFiles /\ op' = Idle
    /\ UNCHANGED <<kind, record, verdict, Book, Shop>>

InstallSkillDraft == WriteSkill(Idle)

(* install_skill promotes what it has written in the same call. *)
InstallSkill == WriteSkill([pc |-> "promote"])

(* verify_draft_tool up to the staged copy of the draft. *)
VerifyTool ==
    /\ op = Idle /\ kind = "tool" /\ Whole(draft)
    /\ op' = [pc |-> "testing", copy |-> draft]
    /\ UNCHANGED <<kind, draft, record, verdict, edits, faults, Book, Shop>>

(* run_guest_module_smoke: the module is imported in the guest first. *)
Smoke ==
    /\ op.pc = "testing"
    /\ \/ op' = [op EXCEPT !.pc = "smoked"] /\ UNCHANGED verdict
       \/ op' = Idle /\ verdict' = "failed"
    /\ UNCHANGED <<kind, draft, record, edits, faults, Book, Shop>>

(* The runs of pytest.  An unusable sandbox returns at once; tests may      *)
(* leave a package under local/.                                            *)
RunTests ==
    /\ op.pc = "smoked"
    /\ \/ op' = Idle /\ verdict' = "failed" /\ UNCHANGED planted
       \/ \E ok \in BOOLEAN, plant \in BOOLEAN :
             /\ op' = [pc |-> "judging", copy |-> op.copy, ok |-> ok, before |-> planted]
             /\ planted' = (planted \/ plant) /\ UNCHANGED verdict
    /\ UNCHANGED <<kind, draft, record, live, stage, aside, cat, edits, faults, Book>>

(* remove_planted_local_packages: a failure leaves the package there. *)
TakeAway(fresh) ==
    \/ fresh /\ planted' = FALSE /\ UNCHANGED <<stray, faults>>
    \/ fresh /\ Fault /\ stray' = TRUE /\ UNCHANGED planted
    \/ ~fresh /\ UNCHANGED <<planted, stray, faults>>

(* The end of verify_draft_tool: packages that were not there before are    *)
(* taken away and the verification refused; a pass is recorded with the     *)
(* hash of the draft as it now is; a failure writes nothing.                *)
Judge ==
    /\ op.pc = "judging" /\ op' = Idle
    /\ LET fresh == planted /\ ~op.before IN
       /\ TakeAway(fresh)
       /\ LET pass == op.ok /\ ~fresh IN
          /\ record' = IF pass THEN draft ELSE record
          /\ tested' = tested \cup (IF pass THEN {op.copy} ELSE {})
          /\ verdict' = IF pass THEN "passed" ELSE "failed"
    /\ UNCHANGED <<kind, draft, live, stage, aside, cat, served, minted,
                   was, stale, edits, deaths>>

ToolGateNoHash == Whole(draft) /\ record # None                  \* MUTANT

(* The gates of promote_draft_tool and of promote_draft_skill. *)
ToolGate == Whole(draft) /\ record # None /\ record = draft
SkillGate == SkillWhole(draft)

(* gc_package_versions: rows without a directory go, directories without a  *)
(* row come back, the oldest beyond the limit go.  A directory that cannot  *)
(* be removed stays without a row.                                          *)
Oldest(s, n) == {i \in s : Cardinality({j \in s : j <= i}) <= n}
Collect(dirs, keepAll) ==
    LET over == IF Cardinality(dirs) > Limit THEN Cardinality(dirs) - Limit ELSE 0
        drop == Oldest(dirs, over)
    IN [index |-> dirs \ drop, dirs |-> IF keepAll THEN dirs ELSE dirs \ drop]

(* archive_local_payload: one more version. *)
With(versions, id, p) ==
    [i \in DOMAIN versions \cup {id} |-> IF i = id THEN p ELSE versions[i]]

(* _copy_history_onto_stage, archive_local_payload of the live tree into    *)
(* the stage, and the collection there.                                     *)
WithHistory(p, keepAll) ==
    IF live = None THEN [p |-> p, v |-> None, index |-> {}]
    ELSE LET v == With(live.v, minted + 1, live.p)
             g == Collect(DOMAIN v, keepAll)
         IN [p |-> p, v |-> [i \in g.dirs |-> v[i]], index |-> g.index]

(* The staging of promote_draft_tool, promote_draft_skill and the two       *)
(* reverts: what fails here removes the stage and returns.                  *)
Stage(p, next) ==
    /\ live = None \/ minted < MaxArchives
    /\ \/ /\ \/ stage' = WithHistory(p, FALSE) /\ UNCHANGED faults
             \/ live # None /\ Fault /\ stage' = WithHistory(p, TRUE)
          /\ minted' = IF live = None THEN minted ELSE minted + 1
          /\ op' = [pc |-> "swap", then |-> next]
       \/ Fault /\ op' = Idle /\ UNCHANGED <<stage, minted>>
    /\ UNCHANGED <<kind, draft, record, live, aside, planted, cat, tested,
                   served, verdict, was, stray, stale, edits, deaths>>

PromoteTool == op = Idle /\ kind = "tool" /\ ToolGate /\ Stage(draft, "cleanup")
PromoteSkill == /\ op.pc \in {"idle", "promote"} /\ kind = "skill"
                /\ SkillGate /\ Stage(draft, "cleanup")
RevertTool == /\ op = Idle /\ kind = "tool" /\ live # None
              /\ \E i \in DOMAIN live.v : Stage(live.v[i], "reload")
RevertSkill == /\ op = Idle /\ kind = "skill" /\ live # None
               /\ \E i \in DOMAIN live.v : Stage(live.v[i], "reload")

Rest == <<kind, draft, record, planted, cat, tested, served, verdict, minted,
          stray, stale, edits, deaths>>

(* whole_tree_rename_swap: with nothing live the stage takes the name.      *)
(* Otherwise the live tree goes aside first, and comes back when the stage  *)
(* cannot take its place; the caller tries that once more.                  *)
SwapFresh ==
    /\ op.pc = "swap" /\ live = None
    /\ \/ live' = stage /\ was' = None /\ op' = [pc |-> op.then] /\ UNCHANGED faults
       \/ Fault /\ op' = Idle /\ UNCHANGED <<live, was>>
    /\ stage' = None /\ UNCHANGED <<aside, Rest>>

MoveAside ==
    /\ op.pc = "swap" /\ live # None
    /\ \/ /\ aside' = live /\ live' = None
          /\ op' = [op EXCEPT !.pc = "swap2"] /\ UNCHANGED <<stage, faults>>
       \/ Fault /\ op' = Idle /\ stage' = None /\ UNCHANGED <<live, aside>>
    /\ UNCHANGED <<was, Rest>>

MoveIn ==
    /\ op.pc = "swap2" /\ stage' = None
    /\ \/ /\ live' = stage /\ aside' = None
          /\ was' = With(was, minted, aside.p)
          /\ op' = [pc |-> op.then] /\ UNCHANGED faults
       \/ /\ Fault /\ op' = Idle
          /\ \/ live' = aside /\ aside' = None /\ UNCHANGED was
             \/ UNCHANGED <<live, aside>> /\ was' = None
    /\ UNCHANGED Rest

(* The draft is removed only now; what of it cannot be removed stays. *)
CleanUp ==
    /\ op.pc = "cleanup" /\ op' = [pc |-> "reload"]
    /\ \/ draft' = None /\ record' = None /\ verdict' = "none" /\ UNCHANGED faults
       \/ /\ Fault
          /\ \E fs \in SUBSET Files : draft' = [f \in Files |-> IF f \in fs THEN draft[f] ELSE 0]
          /\ record' \in {None, record} /\ UNCHANGED verdict
    /\ UNCHANGED <<kind, edits, Book, Shop>>

(* ToolRegistry.reload and SkillCatalog.reload: complete packages of the    *)
(* local root, hidden names left out; the new table replaces the old one    *)
(* at the end.                                                              *)
Scan == IF live = None \/ ~SkillWhole(live.p) THEN None ELSE live.p

Reload ==
    /\ op.pc = "reload" /\ op' = Idle
    /\ \/ cat' = Scan /\ stale' = FALSE /\ UNCHANGED faults
       \/ Fault /\ stale' = TRUE /\ UNCHANGED cat
    /\ UNCHANGED <<kind, draft, record, live, stage, aside, planted, tested,
                   served, verdict, minted, was, stray, edits, deaths>>

(* ToolRegistry.execute (and SkillCatalog.load): a local package whose      *)
(* directory is gone is looked for once more, then refused.                 *)
Execute ==
    /\ op = Idle /\ cat # None
    /\ IF live # None
       THEN served' = served \cup {<<cat, live.p>>} /\ UNCHANGED <<cat, stale>>
       ELSE cat' = Scan /\ stale' = FALSE /\ UNCHANGED served
    /\ UNCHANGED <<kind, draft, record, live, stage, aside, planted, op, tested,
                   verdict, minted, was, stray, edits, faults, deaths>>

(* A package the tests left behind is callable once it is scanned. *)
ExecutePlanted ==
    /\ op = Idle /\ planted /\ deaths > 0
    /\ served' = served \cup {<<NoFiles, NoFiles>>}
    /\ UNCHANGED <<kind, draft, record, verdict, op, edits, faults, tested,
                   minted, was, stray, stale, deaths, Shop>>

(* The operator removes the package by hand (the comment in execute). *)
OperatorRemoves ==
    /\ op = Idle /\ live # None /\ faults < MaxFaults
    /\ Fault /\ live' = None /\ was' = None
    /\ UNCHANGED <<kind, draft, record, stage, aside, planted, cat, op, tested,
                   served, verdict, minted, stray, stale, edits, deaths>>

(* The process dies: a removal of the draft may be half done, the hidden    *)
(* trees stay where they are and nobody looks at them again.                *)
Die ==
    /\ deaths < MaxDeaths /\ deaths' = deaths + 1 /\ op' = Idle
    /\ IF op.pc = "cleanup"
       THEN \E fs \in SUBSET Files :
               draft' = [f \in Files |-> IF f \in fs THEN draft[f] ELSE 0]
       ELSE UNCHANGED draft
    /\ cat' = Scan /\ stale' = FALSE /\ stage' = None /\ aside' = None
    /\ was' = IF live = None THEN None ELSE was
    /\ stray' = (stray \/ planted)
    /\ UNCHANGED <<kind, record, live, planted, tested, served, verdict,
                   minted, edits, faults>>

Next == \/ InstallToolDraft \/ WriteFile \/ ForgetRecord \/ InstallSkillDraft
        \/ InstallSkill \/ VerifyTool \/ Smoke \/ RunTests \/ Judge
        \/ PromoteTool \/ PromoteSkill \/ RevertTool \/ RevertSkill
        \/ SwapFresh \/ MoveAside \/ MoveIn \/ CleanUp \/ Reload
        \/ Execute \/ ExecutePlanted \/ OperatorRemoves \/ Die

Spec == Init /\ [][Next]_vars

-----------------------------------------------------------------------------
Holds(t) == t = None \/ (t.p \in Payload /\ t.index \subseteq DOMAIN t.v)

(* The kinds of value the fields hold. *)
TypeOK == /\ kind \in {"tool", "skill"} /\ {draft, record} \subseteq Payload \cup {None}
          /\ Holds(live) /\ Holds(stage) /\ Holds(aside)
          /\ verdict \in {"none", "passed", "failed"}
          /\ planted \in BOOLEAN /\ minted \in 0 .. MaxArchives
          /\ faults \in 0 .. MaxFaults /\ deaths \in 0 .. MaxDeaths

(* A tool of the agent's own runs only with files whose tests passed: no    *)
(* half-written draft, record left by a death or half-removed draft gets    *)
(* through the gates of verify_draft_tool and promote_draft_tool.           *)
OnlyTestedRuns ==
    kind = "tool" => \A c \in served : c[2] \in tested \/ (c[2] = NoFiles /\ stray)

(* The live name is absent or holds a complete package, whatever step the   *)
(* process died in (the rule of whole_tree_rename_swap).                    *)
NeverHollow == live # None => Sound(live.p)

(* Every version that was live can be reverted to, and holds what was live  *)
(* then, until VERSION_GC_LIMIT later ones were archived.                   *)
HistoryKept ==
    live # None => \A i \in DOMAIN was :
        \/ i \in live.index /\ live.v[i] = was[i]
        \/ Cardinality({j \in DOMAIN was : j > i}) >= Limit

(* What the docstring of verify_draft_tool says of a verification that      *)
(* fails: no record of a pass is left behind.                               *)
NoPassAfterFailure == verdict = "failed" => record = None

\* What the registry serves passed its tests as it is, a package is never missing
\* half, and what was live can be reverted to, whatever fails or dies between.
OnlyTestedAndWhole == TypeOK /\ OnlyTestedRuns /\ NeverHollow /\ HistoryKept
=============================================================================
