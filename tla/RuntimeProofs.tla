---------------------------- MODULE RuntimeProofs -----------------------------
(***************************************************************************)
(* Theorems about the components of the runtime. Each is the property a    *)
(* run checks, for every value of the constants of its component.  They    *)
(* share a composition whose behaviours exercise one component each, so an *)
(* invariant of a component is one of the whole.                           *)
(***************************************************************************)
EXTENDS MCRuntime, FiniteSetTheorems, SequenceTheorems, TLAPS

-------------------------------------------------------------------------------
(***************************************************************************)
(* OnlyTestedAndWhole for any number of edits, versions, faults and        *)
(* deaths. A record names a payload whose tests passed, whatever happened  *)
(* to the draft since; so what a gate lets through, and with it every tree *)
(* and every version a tree carries, is sound and, for a tool, tested. The *)
(* history of the live tree is kept by the tree that will replace it       *)
(* before the two are swapped, and by whichever of them ends up live.      *)
(***************************************************************************)

\* Payloads that may go live: sound and, for a tool, tested.
Good == {p \in Payload : Sound(p) /\ (kind = "tool" => p \in tested)}

\* A tree is absent, or good with all the versions it carries.
GoodTree(t) ==
  t = None \/ /\ t.p \in Good /\ t.index \subseteq DOMAIN t.v
              /\ \A i \in DOMAIN t.v : t.v[i] \in Good

TypeInv ==
  /\ kind \in {"tool", "skill"}
  /\ draft \in Payload \cup {None} /\ record \in Payload \cup {None}
  /\ verdict \in {"none", "passed", "failed"} /\ planted \in BOOLEAN /\ stray \in BOOLEAN
  /\ minted \in 0 .. MaxArchives /\ edits \in 0 .. MaxEdits
  /\ faults \in 0 .. MaxFaults /\ deaths \in 0 .. MaxDeaths

\* What is known at each step of a handler.
OpInv ==
  /\ op.pc = "write" =>
       /\ kind = "tool" /\ draft \in Payload
       /\ op = [pc |-> "write", left |-> op.left] /\ op.left \subseteq Files
  /\ op.pc \in {"testing", "smoked"} => op = [pc |-> op.pc, copy |-> draft]
  /\ op.pc \in {"testing", "smoked", "judging"} =>
       kind = "tool" /\ draft \in Payload /\ op.copy = draft
  /\ op.pc \in {"swap", "swap2"} =>
       /\ op = [pc |-> op.pc, then |-> op.then] /\ op.then \in {"cleanup", "reload"}
       /\ op.then = "cleanup" => draft \in Payload
  /\ op.pc = "cleanup" => draft \in Payload

RecordInv == kind = "tool" => record \in tested \cup {None}

TreesInv == GoodTree(live) /\ GoodTree(stage) /\ GoodTree(aside)

\* A package that tests planted is known to have escaped once no verification
\* is left that could take it away.
PlantInv ==
  /\ planted /\ op.pc # "judging" => stray
  /\ op.pc = "judging" /\ op.before => stray

\* What the tree keeps of a history h: a version it carries is the one of h, and
\* one it does not list has Limit later ones.
Later(h, i) == {j \in DOMAIN h : j > i}
Keeps(t, h) ==
  /\ \A i \in DOMAIN t.v : i \in DOMAIN h /\ t.v[i] = h[i]
  /\ \A i \in DOMAIN h : i \in t.index \/ Cardinality(Later(h, i)) >= Limit

\* The history once t has been replaced.
Longer(t) == With(was, minted, t.p)

HistInv ==
  /\ DOMAIN was \subseteq 1 .. minted
  /\ live # None => Keeps(live, was)
  /\ op.pc = "swap" /\ live = None => DOMAIN stage.v = {}
  /\ op.pc = "swap" /\ live # None =>
       minted > 0 /\ Keeps(stage, Longer(live))
  /\ op.pc = "swap2" =>
       /\ live = None /\ aside # None /\ minted > 0 /\ Keeps(aside, was)
       /\ Keeps(stage, Longer(aside))

Inv ==
  TypeInv /\ OpInv /\ RecordInv /\ TreesInv /\ PlantInv /\ HistInv /\ OnlyTestedRuns

-----------------------------------------------------------------------------
(* What the operators build *)

\* A payload has files, which nothing has none of.
LEMMA NothingThere == DOMAIN None = {} /\ \A p \in Payload : p # None
<1>1. DOMAIN None = {}
  BY DEF None
<1>2. \A p \in Payload : DOMAIN p = Files
  BY DEF Payload
<1>3. QED
  BY <1>1, <1>2 DEF Files

\* Two halves of a finite set.
LEMMA Halves ==
  ASSUME NEW S, IsFiniteSet(S), NEW A, NEW B, A \cup B = S, A \cap B = {}
  PROVE  /\ IsFiniteSet(A) /\ Cardinality(A) \in Nat /\ Cardinality(B) \in Nat
         /\ Cardinality(S) = Cardinality(A) + Cardinality(B)
<1>1. A \in SUBSET S /\ B \in SUBSET S
  OBVIOUS
<1>2. IsFiniteSet(A)
  BY <1>1, FS_Subset
<1>3. IsFiniteSet(B)
  BY <1>1, FS_Subset
<1>4. Cardinality({}) = 0
  BY FS_EmptySet
<1>5. Cardinality(A) \in Nat /\ Cardinality(B) \in Nat
  BY <1>2, <1>3, FS_CardinalityType
<1>6. Cardinality(A \cup B) = Cardinality(A) + Cardinality(B) - Cardinality(A \cap B)
  BY <1>2, <1>3, FS_Union
<1>7. Cardinality(A \cup B) = Cardinality(S) /\ Cardinality(A \cap B) = 0
  BY <1>4, Zenon
<1>8. QED
  BY <1>2, <1>5, <1>6, <1>7

\* gc_package_versions keeps the Limit newest, and lists only what is there.
LEMMA Collected ==
  ASSUME GrowthOK, NEW dirs \in SUBSET Nat, IsFiniteSet(dirs), NEW keepAll \in BOOLEAN
  PROVE  LET g == Collect(dirs, keepAll)
         IN  /\ g.index \subseteq g.dirs /\ g.dirs \subseteq dirs
             /\ \A i \in dirs \ g.index : Cardinality({j \in dirs : j > i}) >= Limit
<1> DEFINE over == IF Cardinality(dirs) > Limit THEN Cardinality(dirs) - Limit ELSE 0
           drop == Oldest(dirs, over)
<1>1. /\ Collect(dirs, keepAll).index = dirs \ drop
      /\ Collect(dirs, keepAll).dirs = IF keepAll THEN dirs ELSE dirs \ drop
  BY DEF Collect
<1>2. ASSUME NEW i \in drop PROVE Cardinality({j \in dirs : j > i}) >= Limit
  <2> DEFINE old == {j \in dirs : j <= i}
             new == {j \in dirs : j > i}
  <2>1. i \in dirs /\ i \in Nat /\ Cardinality(old) <= over
    BY <1>2 DEF Oldest
  <2>2. old \cup new = dirs /\ old \cap new = {} /\ i \in old
    <3>1. \A j \in dirs : j \in Nat /\ (j <= i <=> ~(j > i))
      BY <2>1
    <3>2. i \in old
      BY <2>1
    <3>3. QED
      BY <3>1, <3>2
  <2> HIDE DEF old, new
  <2>3. /\ IsFiniteSet(old) /\ Cardinality(old) \in Nat /\ Cardinality(new) \in Nat
        /\ Cardinality(dirs) = Cardinality(old) + Cardinality(new)
    BY <2>2, Halves
  <2>4. Cardinality(old) # 0
    BY <2>2, <2>3, FS_EmptySet
  <2>5. Cardinality(new) >= Limit
    BY <2>1, <2>3, <2>4, GrowthOK DEF GrowthOK, over
  <2>6. QED
    BY <2>5 DEF new
<1> HIDE DEF over, drop
<1>3. QED
  BY <1>1, <1>2

\* More of the later versions.
LEMMA LaterGrows ==
  ASSUME GrowthOK, NEW A, NEW B, IsFiniteSet(B), A \subseteq B, Cardinality(A) >= Limit
  PROVE  Cardinality(B) >= Limit
<1>1. A \in SUBSET B
  OBVIOUS
<1>2. IsFiniteSet(A) /\ Cardinality(A) <= Cardinality(B)
  BY <1>1, FS_Subset
<1>3. Cardinality(A) \in Nat /\ Cardinality(B) \in Nat
  BY <1>2, FS_CardinalityType
<1>4. QED
  BY <1>2, <1>3, GrowthOK DEF GrowthOK

\* The tree that is staged keeps the history with the live tree added to it.
LEMMA ArchiveKeeps ==
  ASSUME GrowthOK, minted \in Nat, DOMAIN was \subseteq 1 .. minted, live # None,
         Keeps(live, was), live.index \subseteq DOMAIN live.v,
         NEW p, NEW keepAll \in BOOLEAN
  PROVE  LET s == WithHistory(p, keepAll)
         IN  /\ s.p = p /\ s.index \subseteq DOMAIN s.v
             /\ Keeps(s, With(was, minted + 1, live.p))
             /\ \A i \in DOMAIN s.v :
                  s.v[i] = live.p \/ \E j \in DOMAIN live.v : s.v[i] = live.v[j]
<1> DEFINE s == WithHistory(p, keepAll)
           m == minted + 1
           v == With(live.v, m, live.p)
           h == With(was, m, live.p)
           g == Collect(DOMAIN v, keepAll)
<1>1. /\ s.p = p /\ DOMAIN s.v = g.dirs /\ s.index = g.index
      /\ \A i \in g.dirs : s.v[i] = v[i]
  BY DEF WithHistory
<1>2. DOMAIN live.v \subseteq DOMAIN was /\ \A i \in DOMAIN live.v : live.v[i] = was[i]
  BY DEF Keeps
<1>3. m \in Nat /\ m \notin DOMAIN was
  OBVIOUS
<1>4. /\ DOMAIN v = DOMAIN live.v \cup {m} /\ v[m] = live.p
      /\ \A i \in DOMAIN live.v : v[i] = live.v[i]
  BY <1>2, <1>3 DEF With
<1>5. /\ DOMAIN h = DOMAIN was \cup {m} /\ h[m] = live.p
      /\ \A i \in DOMAIN was : h[i] = was[i]
  BY <1>3 DEF With
<1>6. \A i \in DOMAIN v : i \in DOMAIN h /\ v[i] = h[i]
  BY <1>2, <1>4, <1>5
<1>7. DOMAIN h \subseteq 1 .. m /\ DOMAIN v \subseteq DOMAIN h
  BY <1>3, <1>5, <1>6
<1>8. IsFiniteSet(DOMAIN h) /\ IsFiniteSet(DOMAIN v) /\ DOMAIN v \in SUBSET Nat
  <2>1. IsFiniteSet(1 .. m)
    BY <1>3, FS_Interval
  <2>2. DOMAIN h \in SUBSET (1 .. m)
    BY <1>7
  <2>3. IsFiniteSet(DOMAIN h)
    BY <2>1, <2>2, FS_Subset
  <2>4. DOMAIN v \in SUBSET DOMAIN h
    BY <1>7
  <2>5. IsFiniteSet(DOMAIN v)
    BY <2>3, <2>4, FS_Subset
  <2>6. QED
    BY <1>7, <2>3, <2>5
<1> HIDE DEF s, v, h, m
<1>9. /\ g.index \subseteq g.dirs /\ g.dirs \subseteq DOMAIN v
      /\ \A i \in DOMAIN v \ g.index : Cardinality({j \in DOMAIN v : j > i}) >= Limit
  BY <1>8, Collected
<1>10. ASSUME NEW i \in DOMAIN h PROVE i \in g.index \/ Cardinality(Later(h, i)) >= Limit
  <2>1. Later(h, i) \in SUBSET DOMAIN h
    BY DEF Later
  <2>2. IsFiniteSet(Later(h, i))
    BY <1>8, <2>1, FS_Subset
  <2>3. CASE i \in DOMAIN v
    <3>1. {j \in DOMAIN v : j > i} \subseteq Later(h, i)
      BY <1>7 DEF Later
    <3>2. QED
      BY <1>9, <2>2, <2>3, <3>1, LaterGrows
  <2>4. CASE i \notin DOMAIN v
    <3>1. i \in DOMAIN was /\ i \notin live.index
      BY <1>4, <1>5, <2>4
    <3>2. Cardinality(Later(was, i)) >= Limit
      BY <3>1 DEF Keeps
    <3>3. Later(was, i) \subseteq Later(h, i)
      BY <1>5 DEF Later
    <3>4. QED
      BY <2>2, <3>2, <3>3, LaterGrows
  <2>5. QED
    BY <2>3, <2>4
<1>11. Keeps(s, h)
  BY <1>1, <1>6, <1>9, <1>10 DEF Keeps
<1>12. \A i \in DOMAIN s.v : s.v[i] = live.p \/ \E j \in DOMAIN live.v : s.v[i] = live.v[j]
  BY <1>1, <1>4, <1>9
<1>13. QED
  BY <1>1, <1>9, <1>11, <1>12 DEF s, h, m

-----------------------------------------------------------------------------
(* What most steps leave alone *)

\* What may go live may still go live when more has been tested.
LEMMA GoodStays ==
  ASSUME kind' = kind, tested \subseteq tested'
  PROVE  Good \subseteq Good'
BY DEF Good, Sound, Whole, SkillWhole

\* The trees change places, or go.
LEMMA TreesMove ==
  ASSUME TreesInv, kind' = kind, tested \subseteq tested',
         {live', stage', aside'} \subseteq {live, stage, aside, None}
  PROVE  TreesInv'
<1>1. \A t \in {live, stage, aside, None} : GoodTree(t)
  BY DEF TreesInv, GoodTree
<1>2. GoodTree(live') /\ GoodTree(stage') /\ GoodTree(aside')
  BY <1>1
<1>3. Good \subseteq Good'
  BY GoodStays
<1>4. QED
  BY <1>2, <1>3 DEF TreesInv, GoodTree

\* A step that is no part of a swap and leaves the trees alone.
LEMMA QuietTrees ==
  ASSUME TreesInv, HistInv, kind' = kind, tested \subseteq tested',
         UNCHANGED <<live, stage, aside, was, minted>>, op'.pc \notin {"swap", "swap2"}
  PROVE  TreesInv' /\ HistInv'
<1>1. TreesInv'
  BY TreesMove
<1>2. HistInv'
  BY DEF HistInv, Keeps, Later
<1>3. QED
  BY <1>1, <1>2

\* A step that runs nothing.
LEMMA QuietServed ==
  ASSUME OnlyTestedRuns, UNCHANGED <<kind, served>>, tested \subseteq tested',
         stray => stray'
  PROVE  OnlyTestedRuns'
BY DEF OnlyTestedRuns

\* A call that fails is counted.
LEMMA FaultsBounded ==
  ASSUME TypeInv, GrowthOK, Fault \/ faults' = faults
  PROVE  faults' \in 0 .. MaxFaults
BY DEF TypeInv, GrowthOK, Fault

\* The beginning: nothing is there.
LEMMA InitInv == GrowthOK /\ Init => Inv
<1> SUFFICES ASSUME GrowthOK, Init PROVE Inv
  OBVIOUS
<1>1. TypeInv
  <2>1. /\ 0 \in 0 .. MaxArchives /\ 0 \in 0 .. MaxEdits
        /\ 0 \in 0 .. MaxFaults /\ 0 \in 0 .. MaxDeaths
    BY DEF GrowthOK
  <2>2. QED
    BY <2>1 DEF Init, TypeInv
<1>2. OpInv /\ RecordInv /\ TreesInv /\ PlantInv /\ OnlyTestedRuns
  BY DEF Init, OpInv, RecordInv, TreesInv, GoodTree, PlantInv, OnlyTestedRuns, Idle
<1>3. HistInv
  BY NothingThere DEF Init, HistInv, Idle
<1>4. QED
  BY <1>1, <1>2, <1>3 DEF Inv

-----------------------------------------------------------------------------
(* The steps of a draft *)

\* A payload with one file written anew.
LEMMA Payloads ==
  /\ NoFiles \in Payload
  /\ \A p \in Payload, f \in Files, n \in 0 .. MaxEdits : [p EXCEPT ![f] = n] \in Payload
  /\ \A p \in Payload : \A fs : [f \in Files |-> IF f \in fs THEN p[f] ELSE 0] \in Payload
  /\ \A n \in 0 .. MaxEdits : [f \in Files |-> IF f = 1 THEN n ELSE 0] \in Payload
<1>1. 0 \in 0 .. MaxEdits
  BY GrowthOK DEF GrowthOK
<1>2. QED
  BY <1>1 DEF NoFiles, Payload

\* install_tool_draft, write_skill_draft and the removal of a draft's record.
LEMMA DraftSteps ==
  ASSUME Inv, InstallToolDraft \/ WriteFile \/ ForgetRecord \/ InstallSkillDraft \/ InstallSkill
  PROVE  Inv'
<1> USE DEF Inv
<1>1. /\ kind' = kind /\ tested' = tested /\ stray' = stray /\ served' = served
      /\ planted' = planted /\ UNCHANGED <<live, stage, aside, was, minted, deaths>>
  BY DEF InstallToolDraft, WriteFile, ForgetRecord, InstallSkillDraft, InstallSkill,
         WriteSkill, Book, Shop
<1>2. op'.pc \notin {"swap", "swap2", "judging"} /\ op.pc # "judging"
  <2>1. CASE InstallToolDraft
    BY <2>1 DEF InstallToolDraft, Idle
  <2>2. CASE WriteFile
    BY <2>2 DEF WriteFile, OpInv, Idle
  <2>3. CASE ForgetRecord
    BY <2>3 DEF ForgetRecord, Idle
  <2>4. CASE InstallSkillDraft \/ InstallSkill
    BY <2>4 DEF InstallSkillDraft, InstallSkill, WriteSkill, Idle
  <2>5. QED
    BY <2>1, <2>2, <2>3, <2>4
<1>3. record' \in {record, None}
  BY DEF InstallToolDraft, WriteFile, ForgetRecord, DeleteRecord, InstallSkillDraft,
         InstallSkill, WriteSkill
<1>4. TypeInv'
  <2>1. draft' \in Payload \cup {None} /\ edits' \in 0 .. MaxEdits
    <3>1. CASE InstallToolDraft
      BY <3>1, Payloads, GrowthOK DEF InstallToolDraft, TypeInv, GrowthOK
    <3>2. CASE WriteFile
      BY <3>2, Payloads DEF WriteFile, TypeInv, OpInv
    <3>3. CASE ForgetRecord
      BY <3>3 DEF ForgetRecord, TypeInv
    <3>4. CASE InstallSkillDraft \/ InstallSkill
      <4>1. edits' \in 0 .. MaxEdits
        BY <3>4, GrowthOK
        DEF InstallSkillDraft, InstallSkill, WriteSkill, TypeInv, GrowthOK
      <4>2. QED
        BY <3>4, <4>1, Payloads
        DEF InstallSkillDraft, InstallSkill, WriteSkill
    <3>5. QED
      BY <3>1, <3>2, <3>3, <3>4
  <2>2. verdict' \in {"none", "passed", "failed"} /\ faults' \in 0 .. MaxFaults
    BY GrowthOK
    DEF InstallToolDraft, WriteFile, ForgetRecord, DeleteRecord, InstallSkillDraft,
        InstallSkill, WriteSkill, Fault, TypeInv, GrowthOK
  <2>3. QED
    BY <1>1, <1>3, <2>1, <2>2 DEF TypeInv
<1>5. OpInv'
  <2>1. CASE InstallToolDraft
    BY <2>1, Payloads DEF InstallToolDraft, OpInv, TypeInv
  <2>2. CASE WriteFile
    <3>1. CASE op' = Idle
      BY <3>1 DEF Idle, OpInv
    <3>2. CASE op' # Idle
      BY <2>2, <3>2, Payloads DEF WriteFile, OpInv, TypeInv
    <3>3. QED
      BY <3>1, <3>2
  <2>3. CASE ForgetRecord
    BY <2>3 DEF ForgetRecord, OpInv, Idle
  <2>4. CASE InstallSkillDraft \/ InstallSkill
    BY <2>4 DEF InstallSkillDraft, InstallSkill, WriteSkill, OpInv, Idle
  <2>5. QED
    BY <2>1, <2>2, <2>3, <2>4
<1>6. RecordInv' /\ PlantInv' /\ OnlyTestedRuns'
  BY <1>1, <1>2, <1>3 DEF RecordInv, PlantInv, OnlyTestedRuns
<1>7. TreesInv' /\ HistInv'
  BY <1>1, <1>2, QuietTrees
<1>8. QED
  BY <1>4, <1>5, <1>6, <1>7

-----------------------------------------------------------------------------
(* The steps of a verification *)

\* verify_draft_tool up to the end of the tests.
LEMMA TestSteps ==
  ASSUME Inv, VerifyTool \/ Smoke \/ RunTests
  PROVE  Inv'
<1> USE DEF Inv
<1>1. UNCHANGED <<kind, draft, record, edits, faults, Book, live, stage, aside, cat>>
  BY DEF VerifyTool, Smoke, RunTests, Shop
<1>2. op'.pc \in {"idle", "testing", "smoked", "judging"} /\ op.pc # "judging"
  BY DEF VerifyTool, Smoke, RunTests, OpInv, Idle
<1>3. TypeInv'
  BY <1>1 DEF VerifyTool, Smoke, RunTests, Shop, TypeInv, Book
<1>4. OpInv'
  <2>1. CASE VerifyTool
    BY <2>1 DEF VerifyTool, Whole, OpInv, TypeInv
  <2>2. CASE Smoke
    BY <2>2 DEF Smoke, OpInv, Idle
  <2>3. CASE RunTests
    BY <2>3 DEF RunTests, OpInv, Idle
  <2>4. QED
    BY <2>1, <2>2, <2>3
<1>5. PlantInv'
  <2>1. CASE VerifyTool \/ Smoke
    BY <1>1, <1>2, <2>1 DEF VerifyTool, Smoke, PlantInv, Book, Shop, OpInv, Idle
  <2>2. CASE RunTests
    <3>1. planted => stray
      BY <1>2 DEF PlantInv
    <3>2. \/ op'.pc = "judging" /\ op'.before = planted
          \/ op'.pc # "judging" /\ planted' = planted
      BY <2>2 DEF RunTests, Idle
    <3>3. QED
      BY <1>1, <3>1, <3>2 DEF PlantInv, Book
  <2>3. QED
    BY <2>1, <2>2
<1>6. RecordInv' /\ OnlyTestedRuns'
  BY <1>1 DEF RecordInv, OnlyTestedRuns, Book
<1>7. TreesInv' /\ HistInv'
  BY <1>1, <1>2, QuietTrees DEF Book
<1>8. QED
  BY <1>3, <1>4, <1>5, <1>6, <1>7

\* The end of verify_draft_tool: what is recorded is the draft that was tested,
\* and a planted package is taken away or known to have escaped.
LEMMA JudgeStep ==
  ASSUME Inv, Judge
  PROVE  Inv'
<1> USE DEF Inv
<1>1. /\ op.pc = "judging" /\ op' = Idle
      /\ UNCHANGED <<kind, draft, live, stage, aside, cat, served, minted, was, stale,
                     edits, deaths>>
  BY DEF Judge
<1>2. draft \in Payload /\ op.copy = draft /\ kind = "tool"
  BY <1>1 DEF OpInv
<1>3. /\ tested \subseteq tested' /\ tested' \subseteq tested \cup {draft}
      /\ record' \in tested' \cup {None}
      /\ record' \in {record, draft}
  BY <1>1, <1>2 DEF Judge, RecordInv
<1>4. /\ planted' => stray'
      /\ stray => stray'
      /\ planted' \in BOOLEAN /\ stray' \in BOOLEAN /\ faults' \in 0 .. MaxFaults
  <2>1. TakeAway(planted /\ ~op.before)
    BY DEF Judge
  <2>2. planted' \in BOOLEAN /\ stray' \in BOOLEAN /\ (stray => stray')
    BY <2>1 DEF TakeAway, TypeInv
  <2>3. planted' => stray'
    BY <1>1, <2>1 DEF TakeAway, PlantInv, TypeInv
  <2>4. faults' \in 0 .. MaxFaults
    BY <2>1, GrowthOK DEF TakeAway, Fault, TypeInv, GrowthOK
  <2>5. QED
    BY <2>2, <2>3, <2>4
<1>5. TypeInv'
  BY <1>1, <1>2, <1>3, <1>4 DEF Judge, TypeInv
<1>6. OpInv'
  BY <1>1 DEF OpInv, Idle
<1>7. RecordInv' /\ PlantInv'
  BY <1>1, <1>3, <1>4 DEF RecordInv, PlantInv, Idle
<1>8. OnlyTestedRuns'
  BY <1>1, <1>3, <1>4, QuietServed
<1>9. TreesInv' /\ HistInv'
  BY <1>1, <1>3, QuietTrees DEF Idle
<1>10. QED
  BY <1>5, <1>6, <1>7, <1>8, <1>9

-----------------------------------------------------------------------------
(* After the swap, and the calls *)

\* The draft is removed, wholly or in part; the table is read anew.
LEMMA EndSteps ==
  ASSUME Inv, CleanUp \/ Reload
  PROVE  Inv'
<1> USE DEF Inv
<1>1. UNCHANGED <<kind, tested, served, stray, planted, live, stage, aside, was, minted,
                  edits, deaths>>
  BY DEF CleanUp, Reload, Book, Shop
<1>2. op'.pc \in {"reload", "idle"} /\ op.pc # "judging"
  BY DEF CleanUp, Reload, Idle
<1>3. TypeInv'
  <2>1. draft' \in Payload \cup {None} /\ record' \in {record, None}
    <3>1. CASE CleanUp
      BY <3>1, Payloads DEF CleanUp, OpInv
    <3>2. CASE Reload
      BY <3>2 DEF Reload, TypeInv
    <3>3. QED
      BY <3>1, <3>2
  <2>2. faults' \in 0 .. MaxFaults /\ verdict' \in {"none", "passed", "failed"}
    BY GrowthOK DEF CleanUp, Reload, Fault, TypeInv, GrowthOK
  <2>3. QED
    BY <1>1, <2>1, <2>2 DEF TypeInv
<1>4. RecordInv'
  BY <1>1 DEF CleanUp, Reload, RecordInv
<1>5. OpInv' /\ PlantInv' /\ OnlyTestedRuns'
  BY <1>1, <1>2 DEF OpInv, PlantInv, OnlyTestedRuns
<1>6. TreesInv' /\ HistInv'
  BY <1>1, <1>2, QuietTrees
<1>7. QED
  BY <1>3, <1>4, <1>5, <1>6

\* A call runs the files of the live tree, which are good ones.
LEMMA ExecuteStep ==
  ASSUME Inv, Execute
  PROVE  Inv'
<1> USE DEF Inv
<1>1. /\ op = Idle
      /\ UNCHANGED <<kind, draft, record, live, stage, aside, planted, op, tested, verdict,
                     minted, was, stray, edits, faults, deaths>>
  BY DEF Execute
<1>2. OnlyTestedRuns'
  <2>1. CASE live # None
    <3>1. live.p \in Good
      BY <2>1 DEF TreesInv, GoodTree
    <3>2. served' = served \cup {<<cat, live.p>>}
      BY <2>1 DEF Execute
    <3>3. QED
      BY <1>1, <3>1, <3>2 DEF OnlyTestedRuns, Good
  <2>2. CASE live = None
    BY <1>1, <2>2 DEF Execute, OnlyTestedRuns
  <2>3. QED
    BY <2>1, <2>2
<1>3. TypeInv' /\ OpInv' /\ RecordInv' /\ PlantInv'
  BY <1>1 DEF TypeInv, OpInv, RecordInv, PlantInv
<1>4. TreesInv' /\ HistInv'
  BY <1>1, QuietTrees DEF Idle
<1>5. QED
  BY <1>2, <1>3, <1>4

\* A planted package that is called is one that escaped.
LEMMA PlantedStep ==
  ASSUME Inv, ExecutePlanted
  PROVE  Inv'
<1> USE DEF Inv
<1>1. /\ op = Idle /\ planted /\ served' = served \cup {<<NoFiles, NoFiles>>}
      /\ UNCHANGED <<kind, draft, record, live, stage, aside, planted, op, tested, verdict,
                     minted, was, stray, edits, faults, deaths>>
  BY DEF ExecutePlanted, Shop
<1>2. stray
  BY <1>1 DEF PlantInv, Idle
<1>3. OnlyTestedRuns'
  BY <1>1, <1>2 DEF OnlyTestedRuns
<1>4. TypeInv' /\ OpInv' /\ RecordInv' /\ PlantInv'
  BY <1>1 DEF TypeInv, OpInv, RecordInv, PlantInv
<1>5. TreesInv' /\ HistInv'
  BY <1>1, QuietTrees DEF Idle
<1>6. QED
  BY <1>3, <1>4, <1>5

\* The operator removes the live tree, and its history with it.
LEMMA RemoveStep ==
  ASSUME Inv, OperatorRemoves
  PROVE  Inv'
<1> USE DEF Inv
<1>1. /\ op = Idle /\ live' = None /\ was' = None
      /\ UNCHANGED <<kind, draft, record, stage, aside, planted, op, tested, served,
                     verdict, minted, stray, edits, deaths>>
  BY DEF OperatorRemoves
<1>2. TypeInv'
  BY <1>1, GrowthOK DEF OperatorRemoves, Fault, TypeInv, GrowthOK
<1>3. OpInv' /\ RecordInv' /\ PlantInv' /\ OnlyTestedRuns'
  BY <1>1 DEF OpInv, RecordInv, PlantInv, OnlyTestedRuns
<1>4. TreesInv'
  BY <1>1, TreesMove
<1>5. HistInv'
  BY <1>1, NothingThere DEF HistInv, Idle
<1>6. QED
  BY <1>2, <1>3, <1>4, <1>5

-----------------------------------------------------------------------------
(* The stage and the swap *)

\* promote_draft_tool, promote_draft_skill and the reverts up to the swap: what is
\* staged is good, and carries the history of the live tree and that tree itself.
LEMMA StageStep ==
  ASSUME Inv, GrowthOK, NEW p \in Good, NEW next \in {"cleanup", "reload"}, Stage(p, next),
         op.pc \in {"idle", "promote"}, next = "cleanup" => draft \in Payload
  PROVE  Inv'
<1> USE DEF Inv
<1>1. UNCHANGED <<kind, draft, record, live, aside, planted, cat, tested, served, verdict,
                  was, stray, stale, edits, deaths>>
  BY DEF Stage
<1>2. minted \in Nat
  BY DEF TypeInv
<1>3. \/ op' = Idle /\ UNCHANGED <<stage, minted>>
      \/ /\ op' = [pc |-> "swap", then |-> next]
         /\ minted' = IF live = None THEN minted ELSE minted + 1
         /\ live = None => stage' = [p |-> p, v |-> None, index |-> {}]
         /\ live # None => \E keepAll \in BOOLEAN : stage' = WithHistory(p, keepAll)
  BY DEF Stage, WithHistory
<1>4. TypeInv'
  <2>1. Fault \/ faults' = faults
    BY DEF Stage
  <2>2. minted' = minted \/ (minted < MaxArchives /\ minted' = minted + 1)
    BY DEF Stage
  <2>3. minted' \in 0 .. MaxArchives /\ faults' \in 0 .. MaxFaults
    BY <2>1, <2>2, FaultsBounded DEF TypeInv, GrowthOK
  <2>4. QED
    BY <1>1, <2>3 DEF TypeInv
<1>5. OpInv'
  BY <1>1, <1>3 DEF OpInv, Idle
<1>6. RecordInv' /\ OnlyTestedRuns'
  BY <1>1 DEF RecordInv, OnlyTestedRuns
<1>7. PlantInv'
  BY <1>1, <1>3 DEF PlantInv, Idle
<1>8. TreesInv' /\ HistInv'
  <2>1. CASE op' = Idle /\ UNCHANGED <<stage, minted>>
    BY <1>1, <2>1, QuietTrees DEF Idle
  <2>2. CASE /\ op' = [pc |-> "swap", then |-> next]
             /\ live = None /\ stage' = [p |-> p, v |-> None, index |-> {}]
             /\ minted' = minted
    <3>1. GoodTree(stage')
      BY <2>2, NothingThere DEF GoodTree
    <3>2. TreesInv'
      BY <1>1, <3>1 DEF TreesInv, GoodTree, Good, Sound, Whole, SkillWhole
    <3>3. HistInv'
      BY <1>1, <2>2, NothingThere DEF HistInv
    <3>4. QED
      BY <3>2, <3>3
  <2>3. ASSUME op' = [pc |-> "swap", then |-> next], live # None, minted' = minted + 1,
               NEW keepAll \in BOOLEAN, stage' = WithHistory(p, keepAll)
        PROVE  TreesInv' /\ HistInv'
    <3>1. /\ live.p \in Good /\ live.index \subseteq DOMAIN live.v
          /\ \A i \in DOMAIN live.v : live.v[i] \in Good
      BY <2>3 DEF TreesInv, GoodTree
    <3>2. DOMAIN was \subseteq 1 .. minted /\ Keeps(live, was)
      BY <2>3 DEF HistInv
    <3>3. /\ stage'.p = p /\ stage'.index \subseteq DOMAIN stage'.v
          /\ Keeps(stage', With(was, minted + 1, live.p))
          /\ \A i \in DOMAIN stage'.v :
               stage'.v[i] = live.p \/ \E j \in DOMAIN live.v : stage'.v[i] = live.v[j]
      BY <1>2, <2>3, <3>1, <3>2, ArchiveKeeps
    <3>4. GoodTree(stage')
      BY <3>1, <3>3 DEF GoodTree
    <3>5. TreesInv'
      BY <1>1, <3>4 DEF TreesInv, GoodTree, Good, Sound, Whole, SkillWhole
    <3>6. Keeps(stage', Longer(live)')
      BY <1>1, <2>3, <3>3 DEF Longer
    <3>7. Keeps(live, was)' /\ Keeps(stage, Longer(live))'
      BY <1>1, <3>2, <3>6 DEF Keeps, Later
    <3>8. DOMAIN was \subseteq 1 .. minted' /\ minted' > 0
      BY <1>2, <2>3, <3>2
    <3>9. HistInv'
      BY <1>1, <2>3, <3>7, <3>8 DEF HistInv
    <3>10. QED
      BY <3>5, <3>9
  <2>4. QED
    BY <1>3, <2>1, <2>2, <2>3
<1>9. QED
  BY <1>4, <1>5, <1>6, <1>7, <1>8

\* What the gates of the promotions let through, and what can be reverted to.
LEMMA StageSteps ==
  ASSUME Inv, GrowthOK, PromoteTool \/ PromoteSkill \/ RevertTool \/ RevertSkill
  PROVE  Inv'
<1> USE DEF Inv
<1>1. CASE PromoteTool
  <2>1. draft \in Good /\ draft \in Payload
    BY <1>1 DEF PromoteTool, ToolGate, Whole, RecordInv, TypeInv, Good, Sound
  <2>2. Stage(draft, "cleanup") /\ op.pc \in {"idle", "promote"}
    BY <1>1 DEF PromoteTool, Idle
  <2>3. QED
    BY <2>1, <2>2, StageStep
<1>2. CASE PromoteSkill
  <2>1. draft \in Good /\ draft \in Payload
    BY <1>2 DEF PromoteSkill, SkillGate, SkillWhole, TypeInv, Good, Sound
  <2>2. Stage(draft, "cleanup") /\ op.pc \in {"idle", "promote"}
    BY <1>2 DEF PromoteSkill
  <2>3. QED
    BY <2>1, <2>2, StageStep
<1>3. CASE RevertTool \/ RevertSkill
  <2>1. PICK i \in DOMAIN live.v : Stage(live.v[i], "reload")
    BY <1>3 DEF RevertTool, RevertSkill
  <2>2. live # None /\ op.pc \in {"idle", "promote"}
    BY <1>3 DEF RevertTool, RevertSkill, Idle
  <2>3. live.v[i] \in Good
    BY <2>2 DEF TreesInv, GoodTree
  <2>4. QED
    BY <2>1, <2>2, <2>3, StageStep
<1>4. QED
  BY <1>1, <1>2, <1>3

\* whole_tree_rename_swap, step by step: whichever tree ends up live keeps the
\* history that goes with it.
LEMMA SwapSteps ==
  ASSUME Inv, GrowthOK, SwapFresh \/ MoveAside \/ MoveIn
  PROVE  Inv'
<1> USE DEF Inv
<1>1. UNCHANGED <<kind, draft, record, planted, tested, served, verdict, minted, stray,
                  edits, deaths>>
  BY DEF SwapFresh, MoveAside, MoveIn, Rest
<1>2. op.pc \in {"swap", "swap2"}
  BY DEF SwapFresh, MoveAside, MoveIn
<1>3. /\ op = [pc |-> op.pc, then |-> op.then] /\ op.then \in {"cleanup", "reload"}
      /\ op.then = "cleanup" => draft \in Payload
  BY <1>2 DEF OpInv
<1>4. \/ op' = Idle \/ op' = [pc |-> op.then]
      \/ MoveAside /\ op' = [pc |-> "swap2", then |-> op.then]
  BY <1>3 DEF SwapFresh, MoveAside, MoveIn
<1>5. TypeInv'
  <2>1. faults' \in 0 .. MaxFaults
    BY GrowthOK DEF SwapFresh, MoveAside, MoveIn, Fault, TypeInv, GrowthOK
  <2>2. QED
    BY <1>1, <2>1 DEF TypeInv
<1>6. OpInv'
  BY <1>1, <1>3, <1>4 DEF OpInv, Idle
<1>7. RecordInv' /\ PlantInv' /\ OnlyTestedRuns'
  BY <1>1, <1>2, <1>3, <1>4 DEF RecordInv, PlantInv, OnlyTestedRuns, Idle
<1>8. TreesInv'
  <2>1. {live', stage', aside'} \subseteq {live, stage, aside, None}
    BY DEF SwapFresh, MoveAside, MoveIn
  <2>2. QED
    BY <1>1, <2>1, TreesMove
<1>9. HistInv'
  <2>1. CASE SwapFresh
    <3>1. op'.pc \notin {"swap", "swap2"}
      BY <1>3, <2>1 DEF SwapFresh, Idle
    <3>2. CASE live' = stage /\ was' = None
      BY <1>1, <2>1, <3>1, <3>2, NothingThere DEF SwapFresh, HistInv, Keeps
    <3>3. CASE UNCHANGED <<live, was>>
      BY <1>1, <2>1, <3>1, <3>3 DEF SwapFresh, HistInv
    <3>4. QED
      BY <2>1, <3>2, <3>3 DEF SwapFresh
  <2>2. CASE MoveAside
    <3>1. CASE op' = Idle
      BY <1>1, <2>2, <3>1 DEF MoveAside, HistInv, Keeps, Later, Idle
    <3>2. CASE aside' = live /\ live' = None /\ op' = [op EXCEPT !.pc = "swap2"]
      <4>1. op'.pc = "swap2" /\ stage' = stage /\ was' = was /\ live # None
        BY <1>3, <2>2, <3>2 DEF MoveAside
      <4>2. Keeps(live, was) /\ Keeps(stage, Longer(live))
        BY <2>2 DEF MoveAside, HistInv
      <4>3. Longer(aside)' = Longer(live)
        BY <1>1, <3>2, <4>1 DEF Longer
      <4>4. Keeps(stage, Longer(aside))'
        BY <4>1, <4>2, <4>3 DEF Keeps, Later
      <4>5. Keeps(aside, was)'
        BY <3>2, <4>1, <4>2 DEF Keeps, Later
      <4>6. QED
        BY <1>1, <2>2, <3>2, <4>1, <4>4, <4>5 DEF HistInv, MoveAside
    <3>3. QED
      BY <2>2, <3>1, <3>2 DEF MoveAside
  <2>3. CASE MoveIn
    <3>1. /\ op'.pc \notin {"swap", "swap2"} /\ aside # None
          /\ Keeps(aside, was) /\ Keeps(stage, Longer(aside))
          /\ DOMAIN was \subseteq 1 .. minted /\ minted > 0 /\ minted \in Nat
      BY <1>3, <2>3 DEF MoveIn, HistInv, TypeInv, Idle
    <3>2. CASE live' = stage /\ was' = With(was, minted, aside.p)
      <4>1. Keeps(live', was')
        BY <3>1, <3>2 DEF Longer
      <4>2. DOMAIN was' \subseteq 1 .. minted
        BY <3>1, <3>2 DEF With
      <4>3. QED
        BY <1>1, <3>1, <4>1, <4>2 DEF HistInv, Keeps, Later
    <3>3. CASE live' = aside /\ was' = was
      BY <1>1, <3>1, <3>3 DEF HistInv, Keeps, Later
    <3>4. CASE live' = live /\ was' = None
      BY <1>1, <2>3, <3>1, <3>4, NothingThere DEF HistInv, MoveIn
    <3>5. QED
      BY <2>3, <3>2, <3>3, <3>4 DEF MoveIn
  <2>4. QED
    BY <2>1, <2>2, <2>3
<1>10. QED
  BY <1>5, <1>6, <1>7, <1>8, <1>9

\* A death at any step.
LEMMA DieStep ==
  ASSUME Inv, GrowthOK, Die
  PROVE  Inv'
<1> USE DEF Inv
<1>1. /\ op' = Idle /\ stage' = None /\ aside' = None /\ stray' = (stray \/ planted)
      /\ was' = (IF live = None THEN None ELSE was)
      /\ UNCHANGED <<kind, record, live, planted, tested, served, verdict, minted, edits,
                     faults>>
  BY DEF Die
<1>2. draft' \in Payload \cup {None}
  <2>1. CASE op.pc = "cleanup"
    BY <2>1, Payloads DEF Die, OpInv
  <2>2. CASE op.pc # "cleanup"
    BY <2>2 DEF Die, TypeInv
  <2>3. QED
    BY <2>1, <2>2
<1>3. TypeInv'
  BY <1>1, <1>2, GrowthOK DEF Die, TypeInv, GrowthOK
<1>4. OpInv' /\ RecordInv' /\ PlantInv' /\ OnlyTestedRuns'
  BY <1>1 DEF OpInv, RecordInv, PlantInv, OnlyTestedRuns, Idle, TypeInv
<1>5. TreesInv'
  BY <1>1, TreesMove
<1>6. HistInv'
  BY <1>1, NothingThere DEF HistInv, Keeps, Later, Idle
<1>7. QED
  BY <1>3, <1>4, <1>5, <1>6

-----------------------------------------------------------------------------
(* The theorem *)

LEMMA NextInv == GrowthOK /\ Inv /\ [Next]_vars => Inv'
<1> SUFFICES ASSUME GrowthOK, Inv, [Next]_vars PROVE Inv'
  OBVIOUS
<1>1. CASE UNCHANGED vars
  <2>1. TypeInv' /\ OpInv' /\ RecordInv' /\ PlantInv' /\ OnlyTestedRuns'
    BY <1>1 DEF vars, Inv, TypeInv, OpInv, RecordInv, PlantInv, OnlyTestedRuns
  <2>2. TreesInv'
    BY <1>1, TreesMove DEF vars, Inv
  <2>3. HistInv'
    BY <1>1 DEF vars, Inv, HistInv, Keeps, Later, Longer
  <2>4. QED
    BY <2>1, <2>2, <2>3 DEF Inv
<1>2. CASE Next
  BY <1>2, DraftSteps, TestSteps, JudgeStep, EndSteps, ExecuteStep, PlantedStep,
     RemoveStep, StageSteps, SwapSteps, DieStep
  DEF Next
<1>3. QED
  BY <1>1, <1>2

\* The agent's own tools run only with files whose tests passed, a package is never
\* missing half, and what was live can be reverted to until Limit later versions
\* were archived: whatever fails, dies, is planted by tests or removed by hand
\* (verify_draft_tool, promote_draft_tool, whole_tree_rename_swap,
\* gc_package_versions).
THEOREM GrowthHolds == Spec => []OnlyTestedAndWhole
<1>1. Inv => OnlyTestedAndWhole
  <2> SUFFICES ASSUME Inv PROVE OnlyTestedAndWhole
    OBVIOUS
  <2>1. TypeOK
    BY DEF Inv, TypeInv, TreesInv, GoodTree, Good, TypeOK, Holds
  <2>2. NeverHollow
    BY DEF Inv, TreesInv, GoodTree, Good, NeverHollow
  <2>3. HistoryKept
    <3> SUFFICES ASSUME live # None, NEW i \in DOMAIN was
                 PROVE  \/ i \in live.index /\ live.v[i] = was[i]
                        \/ Cardinality({j \in DOMAIN was : j > i}) >= Limit
      BY DEF HistoryKept
    <3>1. Keeps(live, was)
      BY DEF Inv, HistInv
    <3>2. live.index \subseteq DOMAIN live.v
      BY DEF Inv, TreesInv, GoodTree
    <3>3. QED
      BY <3>1, <3>2 DEF Keeps, Later
  <2>4. QED
    BY <2>1, <2>2, <2>3 DEF Inv, OnlyTestedAndWhole
<1>2. QED
  BY <1>1, InitInv, NextInv, GrowthOK, PTL DEF Spec

(***************************************************************************)
(* StagedIsCurrent for any files, versions, calls, failures and deaths.    *)
(* While a stage is under way the package is the one it was started for,   *)
(* what has been copied so far is that package's, and no marker stands:    *)
(* the one before was removed first, the next is written last.  So a       *)
(* marker is right wherever the stage ends, and the second run of a call   *)
(* is its last, as it is forced.                                           *)
(***************************************************************************)

GuestTypes ==
  /\ gsSource \in [StageFiles -> 0 .. MaxVer] /\ ver \in 1 .. MaxVer
  /\ dest \in [StageFiles -> -1 .. MaxVer] /\ copy \in [StageFiles -> 0 .. MaxVer]
  /\ gsPc \in {"idle", "unmark", "refresh", "first", "mark", "exec"}
  /\ left \subseteq StageFiles /\ exists \in BOOLEAN /\ touched \in BOOLEAN /\ forced \in BOOLEAN
  /\ runs \in Nat

\* The package has its module and is not changed while it is staged.
SourceInv ==
  /\ gsSource["main"] # 0
  /\ gsPc \in {"unmark", "refresh", "first", "mark"} =>
       hash = gsSource /\ left \subseteq Gs!Payload(gsSource)
  /\ gsPc = "unmark" => left = Gs!Payload(gsSource)

\* What has been copied so far is the source, and nothing vouches for it yet.
CopyInv ==
  /\ gsPc = "refresh" =>
       exists /\ mark = Gs!NoMark /\ \A f \in Gs!Payload(gsSource) \ left : dest[f] = gsSource[f]
  /\ gsPc = "first" =>
       ~exists /\ \A f \in StageFiles : copy[f] = IF f \in left THEN 0 ELSE gsSource[f]
  /\ gsPc = "mark" => exists /\ mark = Gs!NoMark /\ dest = gsSource
  /\ gsPc # "first" => copy = Gs!None
  /\ gsPc = "unmark" => exists
  /\ ~exists => mark = Gs!NoMark

\* A call forces one stage, after its first run.
RunsInv ==
  /\ runs <= 2
  /\ gsPc # "idle" => runs = IF forced THEN 1 ELSE 0

GuestInv == GuestTypes /\ SourceInv /\ CopyInv /\ Gs!MarkIsTrue /\ Gs!RunsCurrent /\ RunsInv

LEMMA GuestNone == /\ Gs!None \in [StageFiles -> 0 .. MaxVer] /\ Gs!None \in [StageFiles -> -1 .. MaxVer]
                   /\ "main" \in StageFiles /\ MaxVer \in Nat /\ 1 \in 0 .. MaxVer /\ 1 \in 1 .. MaxVer
<1>1. "main" \in StageFiles /\ MaxVer \in Nat /\ MaxVer # 0
  BY StageAssumption
<1>2. 0 \in 0 .. MaxVer /\ 0 \in -1 .. MaxVer
  BY <1>1
<1>3. QED
  BY <1>1, <1>2 DEF Gs!None

LEMMA GuestInit == Gs!Init => GuestInv
<1> SUFFICES ASSUME Gs!Init PROVE GuestInv
  OBVIOUS
<1> gsSource = [Gs!None EXCEPT !["main"] = 1]
  BY DEF Gs!Init
<1>1. gsSource \in [StageFiles -> 0 .. MaxVer] /\ gsSource["main"] = 1
  BY GuestNone
<1>2. /\ ver = 1 /\ dest = Gs!None /\ exists = FALSE /\ mark = Gs!NoMark /\ copy = Gs!None
      /\ gsPc = "idle" /\ left = {} /\ forced = FALSE /\ runs = 0 /\ touched = FALSE
  BY DEF Gs!Init
<1>3. GuestTypes
  BY <1>1, <1>2, GuestNone DEF GuestTypes
<1>4. QED
  BY <1>1, <1>2, <1>3 DEF GuestInv, SourceInv, CopyInv, RunsInv, Gs!MarkIsTrue, Gs!RunsCurrent

\* A stage starts as the tree it finds demands; the tree is not touched yet.
LEMMA GuestBegin ==
  ASSUME GuestTypes, Gs!MarkIsTrue, gsSource["main"] # 0, copy = Gs!None, ~exists => mark = Gs!NoMark,
         NEW fo \in BOOLEAN, Gs!Begin(fo), UNCHANGED <<gsSource, dest, exists, mark, copy, touched, ver>>,
         runs' = (IF forced' THEN 1 ELSE 0), forced' \in BOOLEAN
  PROVE  GuestInv'
<1>1. "main" \in StageFiles
  BY StageAssumption
<1>2. GuestTypes'
  BY DEF GuestTypes, Gs!Begin, Gs!Payload
<1>3. SourceInv'
  BY DEF SourceInv, Gs!Begin, Gs!Payload
<1>4. CASE gsPc' = "first"
  <2>1. \A f \in StageFiles : copy[f] = IF f \in left' THEN 0 ELSE gsSource[f]
    BY DEF Gs!Begin, Gs!Payload, Gs!None
  <2>2. CopyInv' /\ Gs!RunsCurrent'
    BY <1>4, <2>1 DEF CopyInv, Gs!Begin, Gs!RunsCurrent
  <2>3. QED
    BY <1>2, <1>3, <2>2 DEF GuestInv, RunsInv, Gs!MarkIsTrue
<1>5. CASE gsPc' # "first"
  <2>1. gsPc' \in {"exec", "unmark"} /\ exists
    BY <1>5 DEF Gs!Begin, Gs!Skips
  <2>2. CopyInv'
    BY <2>1 DEF CopyInv
  <2>3. gsPc' = "exec" => Gs!HasModule /\ mark = gsSource
    BY <2>1 DEF Gs!Begin, Gs!Skips
  <2>4. gsSource # Gs!NoMark /\ gsSource # Gs!TornMark
    BY <1>1 DEF GuestTypes, Gs!NoMark, Gs!TornMark
  <2>5. Gs!RunsCurrent'
    BY <2>3, <2>4 DEF Gs!RunsCurrent, Gs!HasModule, Gs!MarkIsTrue
  <2>6. QED
    BY <1>2, <1>3, <2>2, <2>5 DEF GuestInv, RunsInv, Gs!MarkIsTrue
<1>6. QED
  BY <1>4, <1>5

LEMMA GuestDispatch == GuestInv /\ Gs!Dispatch => GuestInv'
<1> SUFFICES ASSUME GuestInv, Gs!Dispatch PROVE GuestInv'
  OBVIOUS
<1>1. copy = Gs!None
  BY DEF GuestInv, CopyInv, Gs!Dispatch
<1>2. QED
  BY <1>1, GuestBegin DEF GuestInv, SourceInv, CopyInv, Gs!Dispatch

LEMMA GuestPromote == GuestInv /\ Gs!Promote => GuestInv'
<1> SUFFICES ASSUME GuestInv, Gs!Promote PROVE GuestInv'
  OBVIOUS
<1>1. ver + 1 \in 0 .. MaxVer /\ 0 \in 0 .. MaxVer /\ ver' \in 1 .. MaxVer /\ ver + 1 # 0
  BY GuestNone DEF Gs!Promote, GuestInv, GuestTypes
<1>2. PICK fs \in SUBSET StageFiles :
        "main" \in fs /\ gsSource' = [f \in StageFiles |-> IF f \in fs THEN ver + 1 ELSE 0]
  BY DEF Gs!Promote
<1> gsSource' \in [StageFiles -> 0 .. MaxVer] /\ gsSource'["main"] # 0
  BY <1>1, <1>2
<1>3. gsPc = "idle" /\ UNCHANGED <<dest, exists, mark, copy, gsPc, hash, left, forced, runs, touched>>
  BY DEF Gs!Promote
<1>4. QED
  BY <1>1, <1>3 DEF GuestInv, GuestTypes, SourceInv, CopyInv, RunsInv, Gs!MarkIsTrue, Gs!RunsCurrent

LEMMA GuestUnmark == GuestInv /\ Gs!Unmark => GuestInv'
BY DEF GuestInv, GuestTypes, SourceInv, CopyInv, RunsInv, Gs!MarkIsTrue, Gs!RunsCurrent, Gs!Unmark

LEMMA GuestRefresh == GuestInv /\ Gs!Refresh => GuestInv'
<1> SUFFICES ASSUME GuestInv, Gs!Refresh PROVE GuestInv'
  OBVIOUS
<1>1. PICK f \in left : /\ left' = left \ {f}
                        /\ \/ dest' = [dest EXCEPT ![f] = gsSource[f]] /\ UNCHANGED <<gsPc, gsFaults>>
                           \/ gsPc' = "idle" /\ UNCHANGED dest
  BY DEF Gs!Refresh
<1>2. GuestTypes'
  BY <1>1 DEF GuestInv, GuestTypes, Gs!Refresh
<1>3. SourceInv' /\ RunsInv' /\ Gs!MarkIsTrue' /\ Gs!RunsCurrent'
  BY <1>1 DEF GuestInv, SourceInv, RunsInv, Gs!MarkIsTrue, Gs!RunsCurrent, CopyInv, Gs!Refresh
<1>4. CopyInv'
  BY <1>1 DEF GuestInv, GuestTypes, CopyInv, Gs!Refresh, Gs!Payload
<1>5. QED
  BY <1>2, <1>3, <1>4 DEF GuestInv

LEMMA GuestPrune == GuestInv /\ Gs!Prune => GuestInv'
<1> SUFFICES ASSUME GuestInv, Gs!Prune PROVE GuestInv'
  OBVIOUS
<1>1. dest' = gsSource
  BY DEF GuestInv, GuestTypes, CopyInv, Gs!Prune, Gs!Payload
<1>2. QED
  BY <1>1 DEF GuestInv, GuestTypes, SourceInv, CopyInv, RunsInv, Gs!MarkIsTrue, Gs!RunsCurrent, Gs!Prune,
     Gs!count

LEMMA GuestFirstCopy == GuestInv /\ Gs!FirstCopy => GuestInv'
<1> SUFFICES ASSUME GuestInv, Gs!FirstCopy PROVE GuestInv'
  OBVIOUS
<1>1. PICK f \in left : /\ left' = left \ {f}
                        /\ \/ copy' = [copy EXCEPT ![f] = gsSource[f]] /\ UNCHANGED <<gsPc, gsFaults>>
                           \/ gsPc' = "idle" /\ copy' = Gs!None
  BY DEF Gs!FirstCopy
<1>2. GuestTypes'
  BY <1>1, GuestNone DEF GuestInv, GuestTypes, Gs!FirstCopy
<1>3. SourceInv' /\ RunsInv' /\ Gs!MarkIsTrue' /\ Gs!RunsCurrent'
  BY <1>1 DEF GuestInv, SourceInv, RunsInv, Gs!MarkIsTrue, Gs!RunsCurrent, CopyInv, Gs!FirstCopy
<1>4. CopyInv'
  BY <1>1 DEF GuestInv, GuestTypes, CopyInv, Gs!FirstCopy
<1>5. QED
  BY <1>2, <1>3, <1>4 DEF GuestInv

LEMMA GuestFirstRename == GuestInv /\ Gs!FirstRename => GuestInv'
<1> SUFFICES ASSUME GuestInv, Gs!FirstRename PROVE GuestInv'
  OBVIOUS
<1>1. dest' = gsSource
  BY DEF GuestInv, GuestTypes, CopyInv, Gs!FirstRename
<1>2. GuestTypes'
  BY <1>1, GuestNone DEF GuestInv, GuestTypes, Gs!FirstRename, Gs!count
<1>3. QED
  BY <1>1, <1>2 DEF GuestInv, SourceInv, CopyInv, RunsInv, Gs!MarkIsTrue, Gs!RunsCurrent, Gs!FirstRename,
     Gs!count

LEMMA GuestWriteMarker == GuestInv /\ Gs!WriteMarker => GuestInv'
<1> SUFFICES ASSUME GuestInv, Gs!WriteMarker PROVE GuestInv'
  OBVIOUS
<1>1. Gs!HasModule'
  BY DEF GuestInv, SourceInv, CopyInv, Gs!WriteMarker, Gs!HasModule
<1>2. QED
  BY <1>1 DEF GuestInv, GuestTypes, SourceInv, CopyInv, RunsInv, Gs!MarkIsTrue, Gs!RunsCurrent,
     Gs!WriteMarker, Gs!count

LEMMA GuestExec == GuestInv /\ Gs!Exec => GuestInv'
<1> SUFFICES ASSUME GuestInv, Gs!Exec PROVE GuestInv'
  OBVIOUS
<1>1. dest' \in [StageFiles -> -1 .. MaxVer]
  <2>1. 0 \in -1 .. MaxVer /\ -1 \in -1 .. MaxVer
    BY GuestNone
  <2>2. PICK f \in StageFiles, v \in {0, -1} : dest' = dest \/ dest' = [dest EXCEPT ![f] = v]
    BY GuestNone DEF Gs!Exec
  <2>3. QED
    BY <2>1, <2>2 DEF GuestInv, GuestTypes
<1>2. /\ gsPc = "exec" /\ gsPc' = "idle" /\ runs' = runs + 1 /\ touched' \in BOOLEAN
      /\ UNCHANGED <<gsSource, ver, exists, copy, left, forced>>
  BY DEF Gs!Exec, Gs!count, GuestInv, GuestTypes
<1>3. GuestTypes'
  BY <1>1, <1>2 DEF GuestInv, GuestTypes
<1>4. runs = (IF forced THEN 1 ELSE 0) /\ mark' = mark /\ (~touched' => ~touched /\ dest' = dest)
  BY DEF GuestInv, RunsInv, Gs!Exec
<1> Gs!MarkIsTrue'
  <2>1. ASSUME mark \notin {Gs!NoMark, Gs!TornMark}, ~touched' PROVE exists' /\ dest' = mark
    BY <2>1, <1>2, <1>4 DEF GuestInv, Gs!MarkIsTrue
  <2>2. QED
    BY <2>1, <1>4 DEF Gs!MarkIsTrue
<1>5. QED
  BY <1>2, <1>3, <1>4 DEF GuestInv, SourceInv, CopyInv, RunsInv, Gs!RunsCurrent

LEMMA GuestPathMissing == GuestInv /\ Gs!PathMissing => GuestInv'
<1> SUFFICES ASSUME GuestInv, Gs!PathMissing PROVE GuestInv'
  OBVIOUS
<1>1. copy = Gs!None /\ runs' = runs + 1 /\ runs = IF forced THEN 1 ELSE 0
  BY DEF GuestInv, CopyInv, RunsInv, Gs!PathMissing
<1>2. CASE forced
  BY <1>1, <1>2 DEF GuestInv, GuestTypes, SourceInv, CopyInv, RunsInv, Gs!MarkIsTrue, Gs!RunsCurrent,
     Gs!PathMissing
<1>3. CASE ~forced
  <2>1. forced' = TRUE /\ Gs!Begin(TRUE) /\ UNCHANGED <<gsSource, dest, exists, mark, copy, touched, ver>>
    BY <1>3 DEF Gs!PathMissing
  <2>2. runs' = 1
    BY <1>1, <1>3
  <2>3. QED
    BY <1>1, <2>1, <2>2, GuestBegin DEF GuestInv, SourceInv, CopyInv
<1>4. QED
  BY <1>2, <1>3

LEMMA GuestDie == GuestInv /\ Gs!Die => GuestInv'
<1> SUFFICES ASSUME GuestInv, Gs!Die PROVE GuestInv'
  OBVIOUS
<1>1. GuestTypes'
  BY GuestNone DEF GuestInv, GuestTypes, Gs!Die
<1>2. QED
  BY <1>1 DEF GuestInv, SourceInv, CopyInv, RunsInv, Gs!MarkIsTrue, Gs!RunsCurrent, Gs!Die

LEMMA GuestStep == GuestInv /\ [Gs!Next]_gsVars => GuestInv'
<1> SUFFICES ASSUME GuestInv, [Gs!Next]_gsVars PROVE GuestInv'
  OBVIOUS
<1>1. CASE UNCHANGED gsVars
  BY <1>1 DEF gsVars, GuestInv, GuestTypes, SourceInv, CopyInv, RunsInv, Gs!MarkIsTrue, Gs!RunsCurrent,
     Gs!HasModule, Gs!Payload
<1>2. CASE Gs!Next
  BY <1>2, GuestPromote, GuestDispatch, GuestUnmark, GuestRefresh, GuestPrune, GuestFirstCopy,
     GuestFirstRename, GuestWriteMarker, GuestExec, GuestPathMissing, GuestDie DEF Gs!Next
<1>3. QED
  BY <1>1, <1>2

\* Whatever died or failed while a package was staged, a marker vouches only for a
\* tree that was copied whole, and a guest command runs the current package.
THEOREM StagedHolds == RuntimeSpec => []StagedIsCurrent
<1>1. RuntimeInit => GuestInv
  BY GuestInit DEF RuntimeInit
<1>2. GuestInv /\ [RuntimeNext]_<<vars, focus, umVars, pvVars, brVars, sbVars, gsVars>> => GuestInv'
  <2> SUFFICES ASSUME GuestInv, [RuntimeNext]_<<vars, focus, umVars, pvVars, brVars, sbVars, gsVars>>
               PROVE GuestInv'
    OBVIOUS
  <2>1. [Gs!Next]_gsVars
    BY DEF RuntimeNext
  <2>2. QED
    BY <2>1, GuestStep
<1>3. GuestInv => StagedIsCurrent
  BY DEF GuestInv, GuestTypes, RunsInv, StagedIsCurrent, Gs!StagedIsCurrent, Gs!TypeOK, Gs!TwoRunsAtMost
<1>4. QED
  BY <1>1, <1>2, <1>3, PTL DEF RuntimeSpec

(***************************************************************************)
(* CredentialHolds for any tokens, requests, threads at work, lost answers *)
(* and failed writes.  Whoever is at the network holds the refresh lock,   *)
(* for a login nobody was told is over (FlightInv), with the last token of *)
(* it while nothing was lost (NewestInv).  While no two operations have    *)
(* overlapped one thread at most is in the middle of something (AloneInv), *)
(* so what it read is still so when it binds (BuildInv), and the client    *)
(* matches whenever nobody is about to change it (MatchInv).               *)
(***************************************************************************)

Operators == {"api", "login"}
Others == {"chat", "poll", "keep"}
Resolving == {"enter", "http", "have"}
Sources == {"oauth", "key"}

Bundles == [login : Nat, tok : 0 .. MaxTok, reauth : BOOLEAN]
Answers == [ok : BOOLEAN, tok : Pv!Tokens, rotated : BOOLEAN, raised : BOOLEAN]
ThreadStates ==
  [pc : {"idle", "snap", "startk", "stopk", "joink", "setmodel", "source", "wait", "dead"} \cup Resolving,
   do : {"none", "build", "switch", "models", "chat", "poll", "keep"}, src : Sources \cup {"none"},
   mod : 0 .. 2, was : BOOLEAN, mine : BOOLEAN, b : Bundles, res : Answers]

LiveTypes ==
  /\ key \in 0 .. 1 /\ pvSource \in Sources /\ model \in 1 .. 2 /\ pvOk \in BOOLEAN
  /\ http \in [src : Sources \cup {"none"}, tok : Pv!Tokens, model : 0 .. 2]
  /\ flight \in Pv!Threads \cup {"none"} /\ seen \in Pv!Tokens
  /\ keepStop \in BOOLEAN /\ keepCur \in BOOLEAN /\ out \in BOOLEAN /\ raced \in BOOLEAN
  /\ pvOps \in 0 .. ProviderOps /\ pvFaults \in Nat

ServiceTypes ==
  /\ newest \in Seq(1 .. MaxTok) /\ Len(newest) \in 1 .. pvOps + 1
  /\ life \in {"fresh", "near", "dead"} /\ issued \in 1 .. MaxTok
  /\ revoked \subseteq 1 .. Len(newest) /\ told \subseteq 1 .. Len(newest)
  /\ bundle \in Bundles /\ bundle.login \in 0 .. Len(newest)

ThreadTypes == th \in [Pv!Threads -> ThreadStates]

\* What a thread can be in the middle of, and that a bearer is one of its source.
Shape(t, r) ==
  /\ r.pc \in Resolving => r.src \in Sources
  /\ r.pc = "http" => r.src = "oauth"
  /\ r.pc = "have" /\ r.res.ok => r.res.tok[1] = r.src
  /\ t \in Others => r.pc \in {"idle", "wait", "dead"} \cup Resolving
  /\ t \in Operators => r.pc \notin {"wait", "dead"}
  /\ t \in Operators /\ r.pc \in Resolving => r.do \in {"build", "models"} \cup (IF t = "api" THEN {"switch"} ELSE {})
  /\ t = "chat" /\ r.pc \in Resolving => r.src = "oauth"
  /\ t = "login" => r.pc # "setmodel"
ShapeInv == \A t \in Pv!Threads : Shape(t, th[t])

\* One refresh at a time, of a login nobody was told is over.
FlightInv ==
  \A t \in Pv!Threads :
    Pv!At(t, "http") => /\ flight = t
                        /\ th[t].b.login \in 1 .. Len(newest) /\ th[t].b.login \notin told

\* While nothing was lost, the bundles hold the last token of their login.
NewestInv ==
  pvFaults = 0 =>
    /\ bundle.login # 0 => bundle.tok = newest[bundle.login]
    /\ \A t \in Pv!Threads : Pv!At(t, "http") => th[t].b.tok = newest[th[t].b.login]

OutInv ==
  out /\ ~raced => bundle = Pv!NoBundle /\ \A t \in Pv!Threads : ~Pv!At(t, "http")

\* An operation that has changed source or model, or is about to bind a client.
Settled(t) == /\ th[t].pc \notin {"snap", "setmodel"}
              /\ ~(th[t].pc \in Resolving /\ th[t].do = "build")
Matched(h) == h # Pv!NoHttp => h.src = pvSource /\ h.tok[1] = pvSource /\ h.model = model

\* While nothing has overlapped: one operation at a time, and nobody else resolves.
AloneInv ==
  ~raced =>
    /\ th["api"].pc = "idle" \/ th["login"].pc = "idle"
    /\ \A t \in Operators, u \in Others : th[t].pc # "idle" => th[u].pc \notin Resolving
    /\ \A u \in Others : th[u].pc \in Resolving => th[u].src = pvSource

\* ... and what an operation has read is still so.
BuildInv ==
  ~raced =>
    /\ \A t \in Operators : th[t].pc \in Resolving /\ th[t].do = "build" =>
         th[t].src = pvSource /\ th[t].mod = model
    /\ th["api"].pc = "setmodel" =>
         /\ th["api"].mine /\ th["api"].mod = model
         /\ http # Pv!NoHttp /\ http.src = pvSource /\ http.tok[1] = pvSource

MatchInv ==
  ~raced /\ Settled("api") /\ Settled("login") => Matched(http)

PvTypes == LiveTypes /\ ServiceTypes /\ ThreadTypes
PvInv == /\ PvTypes /\ ShapeInv /\ FlightInv /\ NewestInv /\ Pv!ReauthIsDurable
         /\ OutInv /\ AloneInv /\ BuildInv /\ MatchInv

LEMMA Domains ==
  /\ MaxTok \in Nat /\ ProviderOps \in Nat /\ 1 \in 1 .. MaxTok /\ 0 \in 0 .. MaxTok /\ 1 \in 0 .. MaxTok
  /\ "none" \notin Sources /\ "none" \notin Pv!Threads
  /\ Operators \cup Others = Pv!Threads /\ Operators \cap Others = {} /\ "api" \in Operators /\ "login" \in Operators
BY ProviderAssumption DEF Sources, Operators, Others, Pv!Threads

LEMMA TokenTypes ==
  /\ <<"none", 0>> \in Pv!Tokens /\ <<"key", 1>> \in Pv!Tokens
  /\ \A n \in 1 .. MaxTok : <<"oauth", n>> \in Pv!Tokens
BY DEF Pv!Tokens

LEMMA RecordTypes ==
  /\ Pv!NoBundle \in Bundles /\ Pv!Failed \in Answers /\ Pv!Raised \in Answers
  /\ \A tok \in Pv!Tokens, r \in BOOLEAN : Pv!Got(tok, r) \in Answers
  /\ Pv!Idle \in ThreadStates /\ Pv!Dead \in ThreadStates
  /\ Pv!Idle.pc = "idle" /\ Pv!Dead.pc = "dead"
<1>1. Pv!NoBundle \in Bundles
  BY Domains DEF Pv!NoBundle, Bundles
<1>2. Pv!Failed \in Answers /\ Pv!Raised \in Answers /\ \A tok \in Pv!Tokens, r \in BOOLEAN : Pv!Got(tok, r) \in Answers
  BY TokenTypes DEF Pv!Failed, Pv!Raised, Pv!Got, Answers
<1>3. Pv!Idle \in ThreadStates /\ Pv!Idle.pc = "idle"
  BY <1>1, <1>2 DEF Pv!Idle, ThreadStates, Resolving
<1>4. Pv!Dead \in ThreadStates /\ Pv!Dead.pc = "dead"
  BY <1>3 DEF Pv!Dead, ThreadStates
<1>5. QED
  BY <1>1, <1>2, <1>3, <1>4

\* A step of one thread.
LEMMA OneThread ==
  ASSUME ThreadTypes, NEW t \in Pv!Threads, NEW r \in ThreadStates, th' = [th EXCEPT ![t] = r]
  PROVE  ThreadTypes' /\ th'[t] = r /\ \A u \in Pv!Threads : u # t => th'[u] = th[u]
BY DEF ThreadTypes

LEMMA PvInit == Pv!Init => PvInv
<1> SUFFICES ASSUME Pv!Init PROVE PvInv
  OBVIOUS
<1>1. /\ key \in 0 .. 1 /\ pvSource \in Sources /\ model = 1 /\ pvOk = TRUE
      /\ http = [src |-> pvSource, tok |-> <<pvSource, 1>>, model |-> 1]
      /\ flight = "none" /\ keepStop = FALSE /\ keepCur \in BOOLEAN /\ seen = <<"none", 0>>
      /\ life = "fresh" /\ issued = 1 /\ newest = <<1>> /\ revoked = {} /\ told = {} /\ out = FALSE
      /\ raced = FALSE /\ pvOps = 0 /\ pvFaults = 0 /\ bundle = [login |-> 1, tok |-> 1, reauth |-> FALSE]
  BY DEF Pv!Init, Sources
<1>2. \A t \in Pv!Threads : \/ th[t] = Pv!Idle /\ t # "keep"
                            \/ t = "keep" /\ th[t] = [Pv!Idle EXCEPT !.pc = "wait"]
                            \/ t = "keep" /\ th[t] = [Pv!Idle EXCEPT !.pc = "dead"]
  BY DEF Pv!Init
<1>3. [Pv!Idle EXCEPT !.pc = "wait"] \in ThreadStates /\ [Pv!Idle EXCEPT !.pc = "dead"] \in ThreadStates
  BY RecordTypes DEF ThreadStates
<1>4. th = [t \in Pv!Threads |-> th[t]]
  BY DEF Pv!Init
<1>5. ThreadTypes
  BY <1>2, <1>3, <1>4, RecordTypes DEF ThreadTypes
<1>6. \A t \in Pv!Threads : th[t].pc = IF t = "keep" THEN th[t].pc ELSE "idle"
  BY <1>2, RecordTypes
<1>7. \A t \in Pv!Threads : th[t].pc \in {"idle", "wait", "dead"} /\ (t # "keep" => th[t].pc = "idle")
  BY <1>2, <1>3, RecordTypes DEF ThreadStates
<1>8. <<pvSource, 1>> \in Pv!Tokens
  BY <1>1, TokenTypes, Domains DEF Sources
<1> http \in [src : Sources \cup {"none"}, tok : Pv!Tokens, model : 0 .. 2]
  BY <1>1, <1>8
<1> pvOps \in 0 .. ProviderOps /\ pvFaults \in Nat /\ model \in 1 .. 2
  BY <1>1, Domains
<1>9. LiveTypes
  BY <1>1, TokenTypes DEF LiveTypes
<1>10. ServiceTypes
  BY <1>1, Domains DEF ServiceTypes, Bundles
<1>11. ShapeInv /\ FlightInv /\ AloneInv /\ BuildInv
  BY <1>7 DEF ShapeInv, Shape, FlightInv, AloneInv, BuildInv, Pv!At, Resolving, Operators, Others, Pv!Threads
<1>12. NewestInv /\ Pv!ReauthIsDurable /\ OutInv /\ MatchInv
  BY <1>1, <1>7 DEF NewestInv, Pv!ReauthIsDurable, OutInv, MatchInv, Matched, Pv!At
<1>13. QED
  BY <1>5, <1>9, <1>10, <1>11, <1>12 DEF PvInv, PvTypes

\* What a thread does away from the network leaves the tokens as they are.
LEMMA Quiet ==
  ASSUME PvInv, UNCHANGED <<bundle, newest, told, flight, out, pvFaults>>, ~raced' => ~raced,
         \A u \in Pv!Threads : th'[u].pc = "http" => th[u].pc = "http" /\ th'[u].b = th[u].b
  PROVE  FlightInv' /\ NewestInv' /\ Pv!ReauthIsDurable' /\ OutInv'
<1>1. FlightInv'
  BY DEF PvInv, FlightInv, Pv!At
<1>2. NewestInv'
  BY DEF PvInv, NewestInv, Pv!At
<1>3. Pv!ReauthIsDurable' /\ OutInv'
  BY DEF PvInv, Pv!ReauthIsDurable, OutInv, Pv!At
<1>4. QED
  BY <1>1, <1>2, <1>3

\* A thread that goes on resolving changes nothing an operation has read.
LEMMA Resolved ==
  ASSUME PvInv, UNCHANGED <<pvSource, model, http, raced>>,
         \A u \in Pv!Threads :
           /\ th'[u].do = th[u].do /\ th'[u].src = th[u].src /\ th'[u].mod = th[u].mod
           /\ th'[u].mine = th[u].mine
           /\ th'[u].pc = th[u].pc \/ (th[u].pc \in Resolving /\ th'[u].pc \in Resolving)
  PROVE  AloneInv' /\ BuildInv' /\ MatchInv'
<1> USE Domains
<1>1. "idle" \notin Resolving /\ "snap" \notin Resolving /\ "setmodel" \notin Resolving
  BY DEF Resolving
<1>2. "api" \in Operators /\ "login" \in Operators
  BY DEF Operators
<1>3. AloneInv'
  BY <1>1, <1>2 DEF PvInv, AloneInv
<1>4. BuildInv'
  BY <1>1, <1>2 DEF PvInv, BuildInv
<1>5. \A t \in Operators : Settled(t)' <=> Settled(t)
  BY <1>1 DEF Settled
<1>6. MatchInv'
  BY <1>2, <1>5 DEF PvInv, MatchInv, Matched
<1>7. QED
  BY <1>3, <1>4, <1>6

LEMMA PvResolveKey == ASSUME PvInv, NEW t \in Pv!Threads, Pv!ResolveKey(t) PROVE PvInv'
<1> DEFINE r == [th[t] EXCEPT !.pc = "have",
                              !.res = IF key = 0 THEN Pv!Failed ELSE Pv!Got(<<"key", key>>, FALSE)]
<1>1. /\ th[t].pc = "enter" /\ th[t].src = "key" /\ th' = [th EXCEPT ![t] = r]
      /\ UNCHANGED <<bundle, key, pvSource, model, pvOk, http, flight, keepStop, keepCur, seen,
                     life, issued, newest, revoked, told, out, raced, pvOps, pvFaults>>
  BY DEF Pv!ResolveKey, Pv!At, Pv!live, Pv!service, Pv!bounds
<1>2. th[t] \in ThreadStates /\ key \in 0 .. 1 /\ ThreadTypes
  BY DEF PvInv, PvTypes, ThreadTypes, LiveTypes
<1>3. (IF key = 0 THEN Pv!Failed ELSE Pv!Got(<<"key", key>>, FALSE)) \in Answers
  <2>1. key = 0 \/ key = 1
    BY <1>2
  <2>2. QED
    BY <2>1, RecordTypes, TokenTypes
<1>4. r \in ThreadStates
  BY <1>2, <1>3 DEF ThreadStates, Resolving
<1>5. /\ r.pc = "have" /\ r.do = th[t].do /\ r.src = th[t].src /\ r.mod = th[t].mod /\ r.mine = th[t].mine
      /\ r.res.ok => r.res.tok[1] = "key"
  BY <1>2 DEF ThreadStates, Pv!Failed, Pv!Got
<1> HIDE DEF r
<1>6. ThreadTypes' /\ th'[t] = r /\ \A u \in Pv!Threads : u # t => th'[u] = th[u]
  BY <1>1, <1>2, <1>4, OneThread
<1>7. PvTypes'
  BY <1>1, <1>6 DEF PvInv, PvTypes, LiveTypes, ServiceTypes
<1>8. ShapeInv'
  BY <1>1, <1>5, <1>6 DEF PvInv, ShapeInv, Shape, Resolving
<1>9. FlightInv' /\ NewestInv' /\ Pv!ReauthIsDurable' /\ OutInv'
  BY <1>1, <1>5, <1>6, Quiet
<1>10. AloneInv' /\ BuildInv' /\ MatchInv'
  BY <1>1, <1>5, <1>6, Resolved DEF Resolving
<1>11. QED
  BY <1>7, <1>8, <1>9, <1>10 DEF PvInv

LEMMA PvEnterRefresh == ASSUME PvInv, NEW t \in Pv!Threads, Pv!EnterRefresh(t) PROVE PvInv'
<1> DEFINE keeps == bundle.login # 0 /\ ~bundle.reauth /\ Pv!Life(bundle.tok) = "fresh" /\ th[t].do # "chat"
<1>1. /\ th[t].pc = "enter" /\ th[t].src = "oauth" /\ flight = "none"
      /\ UNCHANGED <<bundle, key, pvSource, model, pvOk, http, keepStop, keepCur, seen,
                     life, issued, newest, revoked, told, out, raced, pvOps, pvFaults>>
  BY DEF Pv!EnterRefresh, Pv!At, Pv!live, Pv!service, Pv!bounds
<1>2. th[t] \in ThreadStates /\ ThreadTypes /\ bundle \in Bundles /\ bundle.login \in 0 .. Len(newest)
  BY DEF PvInv, PvTypes, ThreadTypes, ServiceTypes
<1>3. CASE bundle.login = 0 \/ bundle.reauth \/ keeps
  <2> DEFINE res == IF keeps THEN Pv!Got(<<"oauth", bundle.tok>>, FALSE) ELSE Pv!Failed
             r == [th[t] EXCEPT !.pc = "have", !.res = res]
  <2>1. th' = [th EXCEPT ![t] = r] /\ UNCHANGED flight
    BY <1>3 DEF Pv!EnterRefresh
  <2>2. res \in Answers
    <3>1. CASE ~keeps
      BY <3>1, RecordTypes
    <3>2. CASE keeps
      <4>1. bundle.tok \in 1 .. MaxTok
        BY <1>2, <3>2, Domains DEF Bundles, PvInv, PvTypes, ServiceTypes, LiveTypes, NewestInv, Pv!Life
      <4>2. QED
        BY <3>2, <4>1, RecordTypes, TokenTypes
    <3>3. QED
      BY <3>1, <3>2
  <2>3. res.ok => res.tok[1] = "oauth"
    BY DEF Pv!Failed, Pv!Got
  <2> HIDE DEF res, keeps
  <2>4. r \in ThreadStates
    BY <1>2, <2>2 DEF ThreadStates, Resolving
  <2>5. /\ r.pc = "have" /\ r.do = th[t].do /\ r.src = th[t].src /\ r.mod = th[t].mod /\ r.mine = th[t].mine
        /\ r.res.ok => r.res.tok[1] = "oauth"
    BY <1>2, <2>3 DEF ThreadStates
  <2> HIDE DEF r
  <2>6. ThreadTypes' /\ th'[t] = r /\ \A u \in Pv!Threads : u # t => th'[u] = th[u]
    BY <1>2, <2>1, <2>4, OneThread
  <2>7. PvTypes'
    BY <1>1, <2>1, <2>6 DEF PvInv, PvTypes, LiveTypes, ServiceTypes
  <2>8. ShapeInv'
    BY <1>1, <2>5, <2>6 DEF PvInv, ShapeInv, Shape, Resolving
  <2>9. FlightInv' /\ NewestInv' /\ Pv!ReauthIsDurable' /\ OutInv'
    BY <1>1, <2>1, <2>5, <2>6, Quiet
  <2>10. AloneInv' /\ BuildInv' /\ MatchInv'
    BY <1>1, <2>5, <2>6, Resolved DEF Resolving
  <2>11. QED
    BY <2>7, <2>8, <2>9, <2>10 DEF PvInv
<1>4. CASE ~(bundle.login = 0 \/ bundle.reauth \/ keeps)
  <2> DEFINE r == [th[t] EXCEPT !.pc = "http", !.b = bundle]
  <2>1. th' = [th EXCEPT ![t] = r] /\ flight' = t /\ bundle.login # 0 /\ ~bundle.reauth
    BY <1>4 DEF Pv!EnterRefresh
  <2>2. r \in ThreadStates
    BY <1>2 DEF ThreadStates, Resolving
  <2>3. /\ r.pc = "http" /\ r.do = th[t].do /\ r.src = th[t].src /\ r.mod = th[t].mod /\ r.mine = th[t].mine
        /\ r.b = bundle
    BY <1>2 DEF ThreadStates
  <2> HIDE DEF r, keeps
  <2>4. ThreadTypes' /\ th'[t] = r /\ \A u \in Pv!Threads : u # t => th'[u] = th[u]
    BY <1>2, <2>1, <2>2, OneThread
  <2>5. PvTypes'
    BY <1>1, <2>1, <2>4 DEF PvInv, PvTypes, LiveTypes, ServiceTypes
  <2>6. ShapeInv'
    BY <1>1, <2>3, <2>4 DEF PvInv, ShapeInv, Shape, Resolving
  <2>7. \A u \in Pv!Threads : th[u].pc # "http"
    BY <1>1, Domains DEF PvInv, FlightInv, Pv!At
  <2>8. bundle.login \in 1 .. Len(newest) /\ bundle.login \notin told
    BY <1>2, <2>1 DEF PvInv, Pv!ReauthIsDurable, Bundles, PvTypes, ServiceTypes
  <2>9. FlightInv'
    BY <1>1, <2>1, <2>3, <2>4, <2>7, <2>8 DEF FlightInv, Pv!At
  <2>10. NewestInv'
    BY <1>1, <2>1, <2>3, <2>4, <2>7 DEF PvInv, NewestInv, Pv!At
  <2>11. Pv!ReauthIsDurable' /\ OutInv'
    <3>1. bundle # Pv!NoBundle
      BY <2>1 DEF Pv!NoBundle
    <3>2. QED
      BY <1>1, <3>1 DEF PvInv, Pv!ReauthIsDurable, OutInv
  <2>12. AloneInv' /\ BuildInv' /\ MatchInv'
    BY <1>1, <2>3, <2>4, Resolved DEF Resolving
  <2>13. QED
    BY <2>5, <2>6, <2>9, <2>10, <2>11, <2>12 DEF PvInv
<1>5. QED
  BY <1>3, <1>4

\* An answer, whatever it is, sends the thread back with it.
LEMMA PvBack ==
  ASSUME PvInv, NEW t \in Pv!Threads, NEW res \in Answers, th[t].pc = "http", Pv!Back(t, res),
         res.ok => res.tok[1] = "oauth", th[t].src = "oauth"
  PROVE  /\ ThreadTypes' /\ flight' \in Pv!Threads \cup {"none"} /\ ShapeInv'
         /\ th'[t].pc = "have" /\ \A u \in Pv!Threads : u # t => th'[u] = th[u]
         /\ \A u \in Pv!Threads : th'[u].pc # "http"
         /\ (UNCHANGED <<pvSource, model, http, raced>> => AloneInv' /\ BuildInv' /\ MatchInv')
<1> DEFINE r == [th[t] EXCEPT !.pc = "have", !.res = res, !.b = Pv!NoBundle]
<1>1. th' = [th EXCEPT ![t] = r] /\ flight' = IF flight = t THEN "none" ELSE flight
  BY DEF Pv!Back
<1>2. th[t] \in ThreadStates /\ ThreadTypes
  BY DEF PvInv, PvTypes, ThreadTypes
<1>3. r \in ThreadStates
  BY <1>2, RecordTypes DEF ThreadStates, Resolving
<1>4. /\ r.pc = "have" /\ r.do = th[t].do /\ r.src = th[t].src /\ r.mod = th[t].mod /\ r.mine = th[t].mine
      /\ r.res = res
  BY <1>2 DEF ThreadStates
<1> HIDE DEF r
<1>5. ThreadTypes' /\ th'[t] = r /\ \A u \in Pv!Threads : u # t => th'[u] = th[u]
  BY <1>1, <1>2, <1>3, OneThread
<1>6. ShapeInv'
  BY <1>4, <1>5 DEF PvInv, ShapeInv, Shape, Resolving
<1>7. \A u \in Pv!Threads : th'[u].pc # "http"
  BY <1>4, <1>5 DEF PvInv, FlightInv, Pv!At
<1>8. ASSUME UNCHANGED <<pvSource, model, http, raced>> PROVE AloneInv' /\ BuildInv' /\ MatchInv'
  BY <1>4, <1>5, <1>8, Resolved DEF Resolving
<1>9. flight' \in Pv!Threads \cup {"none"}
  BY <1>1 DEF PvInv, PvTypes, LiveTypes
<1>10. QED
  BY <1>4, <1>5, <1>6, <1>7, <1>8, <1>9

LEMMA PvRefreshOk == ASSUME PvInv, NEW t \in Pv!Threads, Pv!RefreshOk(t) PROVE PvInv'
<1> DEFINE n == issued + 1
           l == th[t].b.login
<1>1. /\ th[t].pc = "http" /\ issued < MaxTok /\ life' = "fresh" /\ issued' = n
      /\ newest' = [newest EXCEPT ![l] = n]
      /\ UNCHANGED <<key, pvSource, model, pvOk, http, keepStop, keepCur, seen, revoked, told, out, raced, pvOps>>
  BY DEF Pv!RefreshOk, Pv!At, Pv!live
<1>2. /\ th[t] \in ThreadStates /\ issued \in 1 .. MaxTok /\ pvFaults \in Nat /\ newest \in Seq(1 .. MaxTok)
      /\ bundle \in Bundles
  BY DEF PvInv, PvTypes, ThreadTypes, ServiceTypes, LiveTypes
<1>3. n \in 1 .. MaxTok
  BY <1>1, <1>2, Domains
<1>4. l \in 1 .. Len(newest) /\ l \notin told /\ flight = t /\ l \in Nat
  BY <1>1, <1>2 DEF PvInv, FlightInv, Pv!At, ThreadStates, Bundles
<1>5. newest' \in Seq(1 .. MaxTok) /\ Len(newest') = Len(newest) /\ newest'[l] = n
  BY <1>1, <1>2, <1>3, <1>4, ExceptSeq
<1>6. th[t].src = "oauth"
  BY <1>1 DEF PvInv, ShapeInv, Shape
<1>7. CASE bundle' = [login |-> l, tok |-> n, reauth |-> FALSE] /\ Pv!Back(t, Pv!Got(<<"oauth", n>>, TRUE)) /\ UNCHANGED pvFaults
  <2> DEFINE res == Pv!Got(<<"oauth", n>>, TRUE)
  <2>1. res \in Answers /\ (res.ok => res.tok[1] = "oauth")
    BY <1>3, RecordTypes, TokenTypes DEF Pv!Got
  <2> HIDE DEF res
  <2>2. /\ ThreadTypes' /\ flight' \in Pv!Threads \cup {"none"} /\ ShapeInv'
        /\ \A u \in Pv!Threads : th'[u].pc # "http"
        /\ AloneInv' /\ BuildInv' /\ MatchInv'
    BY <1>1, <1>6, <1>7, <2>1, PvBack DEF res
  <2>3. bundle' \in Bundles /\ bundle'.login = l /\ bundle'.tok = n /\ bundle'.login \in 0 .. Len(newest')
    BY <1>3, <1>4, <1>5, <1>7 DEF Bundles
  <2>4. PvTypes'
    BY <1>1, <1>3, <1>5, <1>7, <2>2, <2>3 DEF PvInv, PvTypes, LiveTypes, ServiceTypes
  <2>5. FlightInv' /\ NewestInv'
    BY <1>5, <2>2, <2>3 DEF FlightInv, NewestInv, Pv!At
  <2>6. Pv!ReauthIsDurable'
    BY <1>1, <1>4, <2>3 DEF Pv!ReauthIsDurable
  <2>7. OutInv'
    BY <1>1 DEF PvInv, OutInv, Pv!At
  <2>8. QED
    BY <2>2, <2>4, <2>5, <2>6, <2>7 DEF PvInv
<1>8. CASE pvFaults' = pvFaults + 1 /\ UNCHANGED bundle /\ Pv!Back(t, Pv!Raised)
  <2>1. Pv!Raised \in Answers /\ ~Pv!Raised.ok
    BY RecordTypes DEF Pv!Raised, Pv!Failed
  <2>2. /\ ThreadTypes' /\ flight' \in Pv!Threads \cup {"none"} /\ ShapeInv'
        /\ \A u \in Pv!Threads : th'[u].pc # "http"
        /\ AloneInv' /\ BuildInv' /\ MatchInv'
    BY <1>1, <1>6, <1>8, <2>1, PvBack
  <2>3. PvTypes'
    BY <1>1, <1>2, <1>3, <1>5, <1>8, <2>2 DEF PvInv, PvTypes, LiveTypes, ServiceTypes
  <2>4. pvFaults' # 0
    BY <1>2, <1>8
  <2>5. FlightInv' /\ NewestInv' /\ Pv!ReauthIsDurable' /\ OutInv'
    BY <1>1, <1>8, <2>2, <2>4 DEF PvInv, FlightInv, NewestInv, Pv!ReauthIsDurable, OutInv, Pv!At
  <2>6. QED
    BY <2>2, <2>3, <2>5 DEF PvInv
<1>9. QED
  BY <1>7, <1>8 DEF Pv!RefreshOk

LEMMA PvRefreshDenied == ASSUME PvInv, NEW t \in Pv!Threads, Pv!RefreshDenied(t) PROVE PvInv'
<1> DEFINE b == th[t].b
<1>1. /\ th[t].pc = "http"
      /\ UNCHANGED <<key, pvSource, model, pvOk, http, keepStop, keepCur, seen, life, issued, newest, revoked,
                     out, raced, pvOps>>
  BY DEF Pv!RefreshDenied, Pv!At, Pv!live, Pv!service
<1>2. /\ b \in Bundles /\ pvFaults \in Nat /\ bundle \in Bundles
  BY DEF PvInv, PvTypes, ThreadTypes, ServiceTypes, LiveTypes, ThreadStates
<1>3. b.login \in 1 .. Len(newest) /\ Len(newest) \in Nat /\ b.login \in Nat
  BY <1>1, <1>2 DEF PvInv, PvTypes, ServiceTypes, FlightInv, Pv!At, Bundles
<1>4. th[t].src = "oauth"
  BY <1>1 DEF PvInv, ShapeInv, Shape
<1>5. CASE bundle' = [b EXCEPT !.reauth = TRUE] /\ told' = told \cup {b.login} /\ Pv!Back(t, Pv!Failed) /\ UNCHANGED pvFaults
  <2>1. Pv!Failed \in Answers /\ ~Pv!Failed.ok
    BY RecordTypes DEF Pv!Failed
  <2>2. /\ ThreadTypes' /\ flight' \in Pv!Threads \cup {"none"} /\ ShapeInv'
        /\ \A u \in Pv!Threads : th'[u].pc # "http"
        /\ AloneInv' /\ BuildInv' /\ MatchInv'
    BY <1>1, <1>4, <1>5, <2>1, PvBack
  <2>3. bundle' \in Bundles /\ bundle'.login = b.login /\ bundle'.tok = b.tok /\ bundle'.reauth = TRUE
    BY <1>2, <1>5 DEF Bundles
  <2>4. bundle'.login \in 0 .. Len(newest')
    BY <1>1, <1>3, <2>3
  <2>5. told' \subseteq 1 .. Len(newest')
    BY <1>1, <1>3, <1>5 DEF PvInv, PvTypes, ServiceTypes
  <2>6. PvTypes'
    BY <1>1, <1>5, <2>2, <2>3, <2>4, <2>5 DEF PvInv, PvTypes, LiveTypes, ServiceTypes
  <2>7. FlightInv'
    BY <2>2 DEF FlightInv, Pv!At
  <2>8. NewestInv'
    BY <1>1, <1>5, <2>2, <2>3 DEF PvInv, NewestInv, Pv!At
  <2>9. Pv!ReauthIsDurable' /\ OutInv'
    BY <1>1, <2>3 DEF PvInv, Pv!ReauthIsDurable, OutInv, Pv!At
  <2>10. QED
    BY <2>2, <2>6, <2>7, <2>8, <2>9 DEF PvInv
<1>6. CASE pvFaults' = pvFaults + 1 /\ Pv!Back(t, Pv!Raised) /\ UNCHANGED <<bundle, told>>
  <2>1. Pv!Raised \in Answers /\ ~Pv!Raised.ok
    BY RecordTypes DEF Pv!Raised, Pv!Failed
  <2>2. /\ ThreadTypes' /\ flight' \in Pv!Threads \cup {"none"} /\ ShapeInv'
        /\ \A u \in Pv!Threads : th'[u].pc # "http"
        /\ AloneInv' /\ BuildInv' /\ MatchInv'
    BY <1>1, <1>4, <1>6, <2>1, PvBack
  <2>3. PvTypes' /\ pvFaults' # 0
    BY <1>1, <1>2, <1>6, <2>2 DEF PvInv, PvTypes, LiveTypes, ServiceTypes
  <2>4. FlightInv' /\ NewestInv' /\ Pv!ReauthIsDurable' /\ OutInv'
    BY <1>1, <1>6, <2>2, <2>3 DEF PvInv, FlightInv, NewestInv, Pv!ReauthIsDurable, OutInv, Pv!At
  <2>5. QED
    BY <2>2, <2>3, <2>4 DEF PvInv
<1>7. QED
  BY <1>5, <1>6 DEF Pv!RefreshDenied

LEMMA PvRefreshTransient == ASSUME PvInv, NEW t \in Pv!Threads, Pv!RefreshTransient(t) PROVE PvInv'
<1> DEFINE b == th[t].b
           res == IF Pv!Life(b.tok) # "dead" THEN Pv!Got(<<"oauth", b.tok>>, FALSE) ELSE Pv!Failed
<1>1. /\ th[t].pc = "http" /\ pvFaults' = pvFaults + 1 /\ Pv!Back(t, res)
      /\ UNCHANGED <<bundle, key, pvSource, model, pvOk, http, keepStop, keepCur, seen, life, issued, newest,
                     revoked, told, out, raced, pvOps>>
  BY DEF Pv!RefreshTransient, Pv!At, Pv!live, Pv!service
<1>2. pvFaults \in Nat /\ issued \in 1 .. MaxTok
  BY DEF PvInv, PvTypes, LiveTypes, ServiceTypes
<1>3. res \in Answers
  BY <1>2, RecordTypes, TokenTypes DEF Pv!Life
<1>4. (res.ok => res.tok[1] = "oauth") /\ th[t].src = "oauth"
  BY <1>1 DEF PvInv, ShapeInv, Shape, Pv!Got, Pv!Failed
<1> HIDE DEF res
<1>5. /\ ThreadTypes' /\ flight' \in Pv!Threads \cup {"none"} /\ ShapeInv'
      /\ \A u \in Pv!Threads : th'[u].pc # "http"
      /\ AloneInv' /\ BuildInv' /\ MatchInv'
  BY <1>1, <1>3, <1>4, PvBack
<1>6. PvTypes' /\ pvFaults' # 0
  BY <1>1, <1>2, <1>5 DEF PvInv, PvTypes, LiveTypes, ServiceTypes
<1>7. FlightInv' /\ NewestInv' /\ Pv!ReauthIsDurable' /\ OutInv'
  BY <1>1, <1>5, <1>6 DEF PvInv, FlightInv, NewestInv, Pv!ReauthIsDurable, OutInv, Pv!At
<1>8. QED
  BY <1>5, <1>6, <1>7 DEF PvInv

\* A step of one thread away from the network, which leaves the files alone.
LEMMA OwnStep ==
  ASSUME PvInv, NEW t \in Pv!Threads, NEW r \in ThreadStates, th' = [th EXCEPT ![t] = r], Shape(t, r), r.pc # "http",
         UNCHANGED <<bundle, newest, told, flight, out, pvFaults>>, ~raced' => ~raced
  PROVE  /\ ThreadTypes' /\ th'[t] = r /\ \A u \in Pv!Threads : u # t => th'[u] = th[u]
         /\ ShapeInv' /\ FlightInv' /\ NewestInv' /\ Pv!ReauthIsDurable' /\ OutInv'
<1>1. ThreadTypes' /\ th'[t] = r /\ \A u \in Pv!Threads : u # t => th'[u] = th[u]
  BY OneThread DEF PvInv, PvTypes
<1>2. ShapeInv'
  BY <1>1 DEF PvInv, ShapeInv
<1>3. FlightInv' /\ NewestInv' /\ Pv!ReauthIsDurable' /\ OutInv'
  BY <1>1, Quiet
<1>4. QED
  BY <1>1, <1>2, <1>3

\* No operation is in the middle of something, and nobody else resolves a bearer.
Alone == th["api"].pc = "idle" /\ th["login"].pc = "idle" /\ \A u \in Others : th[u].pc \notin Resolving

LEMMA Overlapping ==
  /\ (Pv!Busy = {} <=> th["api"].pc = "idle" /\ th["login"].pc = "idle")
  /\ (Pv!Busy = {"api"} => th["login"].pc = "idle") /\ (Pv!Busy = {"login"} => th["api"].pc = "idle")
  /\ (Pv!Refreshing = {} <=> \A u \in Others : th[u].pc \notin Resolving)
BY DEF Pv!Busy, Pv!Refreshing, Others, Resolving, Pv!Threads

\* Before an operation starts that overlaps nothing, the client in use matches.
LEMMA StartsMatched ==
  ASSUME PvInv, Pv!Overlaps, ~raced'
  PROVE  ~raced /\ Alone /\ Matched(http)
<1>1. ~raced /\ Pv!Busy = {} /\ Pv!Refreshing = {}
  BY DEF Pv!Overlaps
<1>2. Alone
  BY <1>1, Overlapping DEF Alone
<1>3. Matched(http)
  BY <1>1, <1>2 DEF PvInv, MatchInv, Settled, Alone, Resolving
<1>4. QED
  BY <1>1, <1>2, <1>3

\* A step in the middle of an operation that moves neither the settings nor the
\* client; the keep-alive loop may be started with it.
LEMMA OperatorStep ==
  ASSUME PvInv, NEW t \in Operators, th[t].pc # "idle", th'[t].pc # "setmodel",
         \A u \in Pv!Threads : u # t => th'[u] = th[u] \/ (u \in Others /\ th'[u].pc \notin Resolving),
         UNCHANGED <<pvSource, model, http, raced>>,
         th'[t].pc \in Resolving /\ th'[t].do = "build" => th'[t].src = pvSource /\ th'[t].mod = model,
         Settled(t)' => Settled(t)
  PROVE  AloneInv' /\ BuildInv' /\ MatchInv'
<1>1. /\ "api" \in Pv!Threads /\ "login" \in Pv!Threads /\ "api" \notin Others /\ "login" \notin Others
      /\ t \in Pv!Threads /\ t \notin Others /\ Others \subseteq Pv!Threads /\ "idle" \notin Resolving
      /\ t \in {"api", "login"}
  BY Domains DEF Operators, Resolving
<1>2. \A u \in Operators : u # t => th'[u] = th[u]
  BY Domains
<1>3. \A u \in Others : th'[u] = th[u] \/ th'[u].pc \notin Resolving
  BY <1>1
<1>4. AloneInv'
  BY <1>1, <1>2, <1>3, Domains DEF PvInv, AloneInv
<1>5. BuildInv'
  BY <1>1, <1>2, Domains DEF PvInv, BuildInv
<1>6. MatchInv'
  <2>1. \A u \in Operators : Settled(u)' => Settled(u)
    BY <1>2 DEF Settled
  <2>2. QED
    BY <2>1, Domains DEF PvInv, MatchInv, Matched
<1>7. QED
  BY <1>4, <1>5, <1>6

LEMMA PvSnapshot == ASSUME PvInv, NEW t \in Operators, Pv!Snapshot(t) PROVE PvInv'
<1> DEFINE r == [th[t] EXCEPT !.pc = "enter", !.do = "build", !.src = pvSource, !.mod = model]
<1>1. /\ th[t].pc = "snap" /\ th' = [th EXCEPT ![t] = r]
      /\ UNCHANGED <<bundle, key, pvSource, model, pvOk, http, flight, keepStop, keepCur, seen,
                     life, issued, newest, revoked, told, out, raced, pvOps, pvFaults>>
  BY DEF Pv!Snapshot, Pv!At, Pv!live, Pv!service, Pv!bounds
<1>2. t \in Pv!Threads /\ th[t] \in ThreadStates /\ pvSource \in Sources /\ model \in 1 .. 2
  BY Domains DEF PvInv, PvTypes, ThreadTypes, LiveTypes
<1>3. pvSource \in Sources \cup {"none"} /\ model \in 0 .. 2
  BY <1>2
<1>4. r \in ThreadStates
  BY <1>2, <1>3 DEF ThreadStates, Resolving
<1>5. r.pc = "enter" /\ r.do = "build" /\ r.src = pvSource /\ r.mod = model
  BY <1>2 DEF ThreadStates
<1> HIDE DEF r
<1>6. Shape(t, r)
  BY <1>2, <1>5 DEF Shape, Resolving, Operators, Others
<1>7. /\ ThreadTypes' /\ th'[t] = r /\ \A u \in Pv!Threads : u # t => th'[u] = th[u]
      /\ ShapeInv' /\ FlightInv' /\ NewestInv' /\ Pv!ReauthIsDurable' /\ OutInv'
  BY <1>1, <1>2, <1>4, <1>5, <1>6, OwnStep
<1>8. PvTypes'
  BY <1>1, <1>7 DEF PvInv, PvTypes, LiveTypes, ServiceTypes
<1>9. AloneInv' /\ BuildInv' /\ MatchInv'
  <2>1. ~Settled(t)'
    BY <1>5, <1>7 DEF Settled, Resolving
  <2>2. QED
    BY <1>1, <1>5, <1>7, <2>1, OperatorStep
<1>10. QED
  BY <1>7, <1>8, <1>9 DEF PvInv

LEMMA PvStopKeep == ASSUME PvInv, NEW t \in Operators, Pv!StopKeep(t) PROVE PvInv'
<1> DEFINE r == [th[t] EXCEPT !.pc = "joink"]
<1>1. /\ th[t].pc = "stopk" /\ th' = [th EXCEPT ![t] = r] /\ keepStop' = TRUE
      /\ UNCHANGED <<bundle, key, pvSource, model, pvOk, http, flight, keepCur, seen,
                     life, issued, newest, revoked, told, out, raced, pvOps, pvFaults>>
  BY DEF Pv!StopKeep, Pv!Go, Pv!At, Pv!live, Pv!service, Pv!bounds
<1>2. t \in Pv!Threads /\ th[t] \in ThreadStates
  BY Domains DEF PvInv, PvTypes, ThreadTypes
<1>3. r \in ThreadStates /\ r.pc = "joink"
  BY <1>2 DEF ThreadStates, Resolving
<1> HIDE DEF r
<1>4. Shape(t, r)
  BY <1>3 DEF Shape, Resolving, Operators, Others
<1>5. /\ ThreadTypes' /\ th'[t] = r /\ \A u \in Pv!Threads : u # t => th'[u] = th[u]
      /\ ShapeInv' /\ FlightInv' /\ NewestInv' /\ Pv!ReauthIsDurable' /\ OutInv'
  BY <1>1, <1>2, <1>3, <1>4, OwnStep
<1>6. PvTypes'
  BY <1>1, <1>5 DEF PvInv, PvTypes, LiveTypes, ServiceTypes
<1>7. AloneInv' /\ BuildInv' /\ MatchInv'
  <2>1. Settled(t) /\ th'[t].pc \notin Resolving
    BY <1>1, <1>3, <1>5 DEF Settled, Resolving
  <2>2. QED
    BY <1>1, <1>3, <1>5, <2>1, OperatorStep
<1>8. QED
  BY <1>5, <1>6, <1>7 DEF PvInv

\* After a rebuild the list of models is read once more, or the thread is done.
LEMMA ListingIs ==
  ASSUME PvInv, NEW t \in Operators
  PROVE  /\ Pv!Listing(t) \in ThreadStates /\ Shape(t, Pv!Listing(t))
         /\ Pv!Listing(t).pc \in {"idle", "enter"} /\ Pv!Listing(t).do # "build"
<1> DEFINE r == Pv!Listing(t)
<1>1. pvOk \in BOOLEAN /\ pvSource \in Sources
  BY DEF PvInv, PvTypes, LiveTypes
<1>2. CASE pvOk
  <2>1. r = [Pv!Idle EXCEPT !.pc = "enter", !.do = "models", !.src = pvSource]
    BY <1>2 DEF Pv!Listing
  <2>2. r \in ThreadStates /\ r.pc = "enter" /\ r.do = "models" /\ r.src = pvSource
    BY <1>1, <2>1, RecordTypes DEF ThreadStates, Resolving
  <2>3. QED
    BY <1>1, <2>2 DEF Shape, Resolving, Operators, Others
<1>3. CASE ~pvOk
  <2>1. r = [Pv!Idle EXCEPT !.pc = "idle", !.do = "none", !.src = "none"]
    BY <1>3 DEF Pv!Listing
  <2>2. r \in ThreadStates /\ r.pc = "idle" /\ r.do = "none"
    BY <2>1, RecordTypes DEF ThreadStates
  <2>3. QED
    BY <2>2 DEF Shape, Resolving, Operators, Others
<1>4. QED
  BY <1>1, <1>2, <1>3

LEMMA PvJoinKeep == ASSUME PvInv, NEW t \in Operators, Pv!JoinKeep(t) PROVE PvInv'
<1> DEFINE r == IF th[t].res.ok THEN Pv!Listing(t) ELSE Pv!Idle
<1>1. /\ th[t].pc = "joink" /\ th' = [th EXCEPT ![t] = r] /\ keepCur' = FALSE
      /\ UNCHANGED <<bundle, key, pvSource, model, pvOk, http, flight, keepStop, seen,
                     life, issued, newest, revoked, told, out, raced, pvOps, pvFaults>>
  BY DEF Pv!JoinKeep, Pv!At, Pv!live, Pv!service, Pv!bounds
<1>2. t \in Pv!Threads
  BY Domains
<1>3. Shape(t, Pv!Idle)
  BY RecordTypes DEF Shape, Resolving
<1>4. r \in ThreadStates /\ Shape(t, r) /\ r.pc \in {"idle", "enter"} /\ (r.pc = "enter" => r.do # "build")
  BY <1>3, ListingIs, RecordTypes
<1> HIDE DEF r
<1>5. /\ ThreadTypes' /\ th'[t] = r /\ \A u \in Pv!Threads : u # t => th'[u] = th[u]
      /\ ShapeInv' /\ FlightInv' /\ NewestInv' /\ Pv!ReauthIsDurable' /\ OutInv'
  BY <1>1, <1>2, <1>4, OwnStep
<1>6. PvTypes'
  BY <1>1, <1>5 DEF PvInv, PvTypes, LiveTypes, ServiceTypes
<1>7. AloneInv' /\ BuildInv' /\ MatchInv'
  <2>1. Settled(t) /\ ~(th'[t].pc \in Resolving /\ th'[t].do = "build") /\ th'[t].pc # "setmodel"
    BY <1>1, <1>4, <1>5 DEF Settled, Resolving
  <2>2. QED
    BY <1>1, <1>5, <2>1, OperatorStep
<1>8. QED
  BY <1>5, <1>6, <1>7 DEF PvInv

LEMMA PvListed == ASSUME PvInv, NEW t \in Operators, Pv!Listed(t) PROVE PvInv'
<1>1. /\ th[t].pc = "have" /\ th[t].do = "models" /\ th' = [th EXCEPT ![t] = Pv!Idle]
      /\ UNCHANGED <<bundle, key, pvSource, model, pvOk, http, flight, keepStop, keepCur, seen,
                     life, issued, newest, revoked, told, out, raced, pvOps, pvFaults>>
  BY DEF Pv!Listed, Pv!Rest, Pv!At, Pv!live, Pv!service, Pv!bounds
<1>2. t \in Pv!Threads
  BY Domains
<1>3. Shape(t, Pv!Idle)
  BY RecordTypes DEF Shape, Resolving
<1>4. /\ ThreadTypes' /\ th'[t] = Pv!Idle /\ \A u \in Pv!Threads : u # t => th'[u] = th[u]
      /\ ShapeInv' /\ FlightInv' /\ NewestInv' /\ Pv!ReauthIsDurable' /\ OutInv'
  BY <1>1, <1>2, <1>3, RecordTypes, OwnStep
<1>5. PvTypes'
  BY <1>1, <1>4 DEF PvInv, PvTypes, LiveTypes, ServiceTypes
<1>6. AloneInv' /\ BuildInv' /\ MatchInv'
  <2>1. Settled(t) /\ th'[t].pc = "idle" /\ th'[t].pc \notin Resolving
    BY <1>1, <1>4, RecordTypes DEF Settled, Resolving
  <2>2. QED
    BY <1>1, <1>4, <2>1, OperatorStep
<1>7. QED
  BY <1>4, <1>5, <1>6 DEF PvInv

LEMMA PvStartKeep == ASSUME PvInv, NEW t \in Operators, Pv!StartKeep(t) PROVE PvInv'
<1> DEFINE r == Pv!Listing(t)
           k == IF th["keep"].pc = "dead" THEN [Pv!Idle EXCEPT !.pc = "wait"] ELSE th["keep"]
           mid == [th EXCEPT ![t] = r]
<1>1. /\ th[t].pc = "startk" /\ keepCur' = TRUE /\ keepStop' = IF Pv!Alive THEN keepStop ELSE FALSE
      /\ UNCHANGED <<bundle, key, pvSource, model, pvOk, http, flight, seen,
                     life, issued, newest, revoked, told, out, raced, pvOps, pvFaults>>
  BY DEF Pv!StartKeep, Pv!At, Pv!live, Pv!service, Pv!bounds
<1>2. t \in Pv!Threads /\ "keep" \in Pv!Threads /\ "keep" \in Others /\ t # "keep" /\ ThreadTypes
  BY Domains DEF Others, Operators, PvInv, PvTypes
<1>3. th' = [mid EXCEPT !["keep"] = k]
  BY <1>2 DEF Pv!StartKeep, ThreadTypes
<1>4. r \in ThreadStates /\ Shape(t, r) /\ r.pc \in {"idle", "enter"} /\ r.do # "build"
  BY ListingIs
<1>5. k \in ThreadStates /\ Shape("keep", k) /\ (k = th["keep"] \/ k.pc = "wait")
  <2>1. CASE th["keep"].pc = "dead"
    <3>1. k = [Pv!Idle EXCEPT !.pc = "wait"]
      BY <2>1
    <3>2. k \in ThreadStates /\ k.pc = "wait"
      BY <3>1, RecordTypes DEF ThreadStates
    <3>3. QED
      BY <3>2 DEF Shape, Resolving, Operators
  <2>2. CASE th["keep"].pc # "dead"
    BY <1>2, <2>2 DEF PvInv, ShapeInv, ThreadTypes
  <2>3. QED
    BY <2>1, <2>2
<1> HIDE DEF r, k
<1>6. ThreadTypes' /\ th'[t] = r /\ th'["keep"] = k /\ \A u \in Pv!Threads : u \notin {t, "keep"} => th'[u] = th[u]
  BY <1>2, <1>3, <1>4, <1>5 DEF ThreadTypes
<1>7. PvTypes'
  BY <1>1, <1>6 DEF PvInv, PvTypes, LiveTypes, ServiceTypes
<1>8. ShapeInv'
  BY <1>4, <1>5, <1>6 DEF PvInv, ShapeInv
<1>9. FlightInv' /\ NewestInv' /\ Pv!ReauthIsDurable' /\ OutInv'
  BY <1>1, <1>4, <1>5, <1>6, Quiet
<1>10. AloneInv' /\ BuildInv' /\ MatchInv'
  <2>1. Settled(t) /\ th'[t].do # "build" /\ th'[t].pc # "setmodel" /\ th'[t].pc # "snap"
    BY <1>1, <1>4, <1>6 DEF Settled, Resolving
  <2>2. \A u \in Pv!Threads : u # t => th'[u] = th[u] \/ (u \in Others /\ th'[u].pc \notin Resolving)
    BY <1>2, <1>5, <1>6 DEF Resolving
  <2>3. QED
    BY <1>1, <2>1, <2>2, OperatorStep
<1>11. QED
  BY <1>7, <1>8, <1>9, <1>10 DEF PvInv

LEMMA PvBind == ASSUME PvInv, NEW t \in Operators, Pv!Bind(t) PROVE PvInv'
<1> DEFINE res == th[t].res
           r == [th[t] EXCEPT !.pc = IF res.ok /\ th[t].src = "oauth" THEN "startk" ELSE "stopk"]
<1>1. /\ th[t].pc = "have" /\ th[t].do = "build" /\ pvOk' = res.ok
      /\ http' = IF res.ok THEN [src |-> th[t].src, tok |-> res.tok, model |-> th[t].mod] ELSE Pv!NoHttp
      /\ th' = [u \in Pv!Threads |-> IF u = t THEN r ELSE [th[u] EXCEPT !.mine = FALSE]]
      /\ UNCHANGED <<bundle, key, pvSource, model, flight, keepStop, keepCur, seen,
                     life, issued, newest, revoked, told, out, raced, pvOps, pvFaults>>
  BY DEF Pv!Bind, Pv!At, Pv!service, Pv!bounds
<1>2. t \in Pv!Threads /\ th[t] \in ThreadStates /\ \A u \in Pv!Threads : th[u] \in ThreadStates
  BY Domains DEF PvInv, PvTypes, ThreadTypes
<1>3. r \in ThreadStates /\ r.pc \in {"startk", "stopk"}
  BY <1>2 DEF ThreadStates, Resolving
<1>4. \A u \in Pv!Threads : /\ [th[u] EXCEPT !.mine = FALSE] \in ThreadStates
                            /\ [th[u] EXCEPT !.mine = FALSE].pc = th[u].pc
                            /\ [th[u] EXCEPT !.mine = FALSE].do = th[u].do
                            /\ [th[u] EXCEPT !.mine = FALSE].src = th[u].src
                            /\ [th[u] EXCEPT !.mine = FALSE].mod = th[u].mod
                            /\ [th[u] EXCEPT !.mine = FALSE].b = th[u].b
                            /\ [th[u] EXCEPT !.mine = FALSE].res = th[u].res
  BY <1>2 DEF ThreadStates
<1> HIDE DEF r
<1>5. /\ ThreadTypes' /\ th'[t] = r
      /\ \A u \in Pv!Threads : u # t =>
           /\ th'[u].pc = th[u].pc /\ th'[u].do = th[u].do /\ th'[u].src = th[u].src /\ th'[u].mod = th[u].mod
           /\ th'[u].b = th[u].b /\ th'[u].res = th[u].res
  BY <1>1, <1>2, <1>3, <1>4 DEF ThreadTypes
<1>6. res \in Answers /\ th[t].src \in Sources /\ th[t].mod \in 0 .. 2 /\ (res.ok => res.tok[1] = th[t].src)
  BY <1>1, <1>2 DEF ThreadStates, PvInv, ShapeInv, Shape, Resolving
<1>7. PvTypes'
  <2>1. http' \in [src : Sources \cup {"none"}, tok : Pv!Tokens, model : 0 .. 2] /\ pvOk' \in BOOLEAN
    BY <1>1, <1>6, TokenTypes DEF Answers, Pv!NoHttp
  <2>2. QED
    BY <1>1, <1>5, <2>1 DEF PvInv, PvTypes, LiveTypes, ServiceTypes
<1>8. Shape(t, r)
  BY <1>3, Domains DEF Shape, Resolving, Others, Operators
<1>9. ShapeInv'
  BY <1>5, <1>8 DEF PvInv, ShapeInv, Shape
<1>10. FlightInv' /\ NewestInv' /\ Pv!ReauthIsDurable' /\ OutInv'
  BY <1>1, <1>3, <1>5, Quiet
<1>11. AloneInv'
  <2>1. /\ "api" \in Pv!Threads /\ "login" \in Pv!Threads /\ "api" \notin Others /\ "login" \notin Others
        /\ t \notin Others /\ Others \subseteq Pv!Threads /\ th[t].pc # "idle"
    BY <1>1, Domains
  <2>2. QED
    BY <1>1, <1>3, <1>5, <2>1, Domains DEF PvInv, AloneInv
<1>12. BuildInv' /\ MatchInv'
  <2>1. ASSUME ~raced PROVE /\ \A u \in Operators : u # t => th[u].pc = "idle"
                           /\ th[t].src = pvSource /\ th[t].mod = model
    BY <1>1, <2>1 DEF PvInv, AloneInv, BuildInv, Operators, Resolving
  <2>2. \A u \in Operators : ~raced => th'[u].pc \in {"idle", "startk", "stopk"}
    BY <1>3, <1>5, <2>1, Domains
  <2>3. BuildInv'
    BY <1>1, <2>2, Domains DEF BuildInv, Resolving
  <2>4. MatchInv'
    BY <1>1, <1>6, <2>1 DEF MatchInv, Matched
  <2>5. QED
    BY <2>3, <2>4
<1>13. QED
  BY <1>7, <1>9, <1>10, <1>11, <1>12 DEF PvInv

\* A request, and the first step of a login.
LEMMA StartStep ==
  ASSUME PvInv, NEW t \in Operators, Pv!Overlaps, \A u \in Pv!Threads : u # t => th'[u] = th[u], UNCHANGED pvSource,
         ~(th'[t].pc \in Resolving /\ th'[t].do = "build")
  PROVE  /\ AloneInv' /\ (~raced' => ~raced)
         /\ (th'[t].pc # "setmodel" => BuildInv') /\ (UNCHANGED <<model, http>> => MatchInv')
<1>1. /\ "api" \in Pv!Threads /\ "login" \in Pv!Threads /\ "api" \notin Others /\ "login" \notin Others
      /\ t \in Pv!Threads /\ t \notin Others /\ Others \subseteq Pv!Threads /\ Operators \subseteq Pv!Threads
      /\ "idle" \notin Resolving /\ t \in {"api", "login"}
  BY Domains DEF Operators, Resolving
<1>2. ASSUME ~raced' PROVE /\ ~raced /\ Matched(http) /\ \A u \in Operators : u # t => th'[u].pc = "idle"
                          /\ \A u \in Others : th'[u].pc \notin Resolving
  BY <1>1, <1>2, StartsMatched DEF Alone, Operators
<1>3. AloneInv'
  BY <1>1, <1>2, Domains DEF AloneInv
<1>4. ASSUME th'[t].pc # "setmodel" PROVE BuildInv'
  <2>1. ASSUME ~raced', NEW u \in Operators
        PROVE  ~(th'[u].pc \in Resolving /\ th'[u].do = "build") /\ th'[u].pc # "setmodel"
    <3>1. CASE u = t
      BY <1>4, <3>1
    <3>2. CASE u # t
      <4>1. th'[u].pc = "idle"
        BY <1>2, <2>1, <3>2
      <4>2. QED
        BY <4>1 DEF Resolving
    <3>3. QED
      BY <3>1, <3>2
  <2>2. QED
    BY <2>1, Domains DEF BuildInv
<1>5. ASSUME UNCHANGED <<model, http>> PROVE MatchInv'
  BY <1>2, <1>5 DEF MatchInv, Matched
<1>6. QED
  BY <1>2, <1>3, <1>4, <1>5

\* The state an operator's request leaves its thread in, once its fields are known.
LEMMA OperatorShape ==
  ASSUME NEW r, r.pc \in {"idle", "snap", "setmodel"} PROVE Shape("api", r)
BY DEF Shape, Resolving, Others

LEMMA PvApplySource == ASSUME PvInv, NEW s \in Sources, Pv!ApplySource(s) PROVE PvInv'
<1> DEFINE r == [th["api"] EXCEPT !.pc = "enter", !.do = "switch", !.src = s]
<1>1. /\ th["api"].pc = "idle" /\ pvOps < ProviderOps /\ pvOps' = pvOps + 1 /\ Pv!Overlaps /\ th' = [th EXCEPT !["api"] = r]
      /\ UNCHANGED <<bundle, key, pvSource, model, pvOk, http, flight, keepStop, keepCur, seen,
                     life, issued, newest, revoked, told, out, pvFaults>>
  BY DEF Pv!ApplySource, Pv!Request, Pv!At, Pv!live, Pv!service
<1>2. "api" \in Pv!Threads /\ th["api"] \in ThreadStates /\ pvOps \in 0 .. ProviderOps
  BY Domains DEF PvInv, PvTypes, ThreadTypes, LiveTypes
<1>3. r \in ThreadStates /\ r.pc = "enter" /\ r.do = "switch" /\ r.src = s
  BY <1>2 DEF ThreadStates, Resolving
<1> HIDE DEF r
<1>4. Shape("api", r)
  BY <1>3 DEF Shape, Resolving, Operators, Others
<1>5. raced' \in BOOLEAN /\ (~raced' => ~raced)
  BY <1>1 DEF Pv!Overlaps, PvInv, PvTypes, LiveTypes
<1>6. /\ ThreadTypes' /\ th'["api"] = r /\ \A u \in Pv!Threads : u # "api" => th'[u] = th[u]
      /\ ShapeInv' /\ FlightInv' /\ NewestInv' /\ Pv!ReauthIsDurable' /\ OutInv'
  BY <1>1, <1>2, <1>3, <1>4, <1>5, OwnStep
<1>7. pvOps' \in 0 .. ProviderOps /\ Len(newest) \in 1 .. pvOps' + 1
  BY <1>1, <1>2, Domains DEF PvInv, PvTypes, ServiceTypes
<1>8. PvTypes'
  BY <1>1, <1>5, <1>6, <1>7 DEF PvInv, PvTypes, LiveTypes, ServiceTypes
<1>9. AloneInv' /\ BuildInv' /\ MatchInv'
  BY <1>1, <1>3, <1>6, Domains, StartStep
<1>10. QED
  BY <1>6, <1>8, <1>9 DEF PvInv

LEMMA PvPutKey == ASSUME PvInv, NEW k \in 0 .. 1, Pv!PutKey(k) PROVE PvInv'
<1> DEFINE r == [th["api"] EXCEPT !.pc = IF pvSource = "key" THEN "snap" ELSE "idle"]
<1>1. /\ th["api"].pc = "idle" /\ pvOps < ProviderOps /\ pvOps' = pvOps + 1 /\ Pv!Overlaps /\ th' = [th EXCEPT !["api"] = r]
      /\ key' = k
      /\ UNCHANGED <<bundle, pvSource, model, pvOk, http, flight, keepStop, keepCur, seen,
                     life, issued, newest, revoked, told, out, pvFaults>>
  BY DEF Pv!PutKey, Pv!Request, Pv!At, Pv!live, Pv!service
<1>2. "api" \in Pv!Threads /\ th["api"] \in ThreadStates /\ pvOps \in 0 .. ProviderOps
  BY Domains DEF PvInv, PvTypes, ThreadTypes, LiveTypes
<1>3. r \in ThreadStates /\ r.pc \in {"idle", "snap"}
  BY <1>2 DEF ThreadStates
<1> HIDE DEF r
<1>4. Shape("api", r) /\ r.pc \notin Resolving
  BY <1>3, OperatorShape DEF Resolving
<1>5. raced' \in BOOLEAN /\ (~raced' => ~raced)
  BY <1>1 DEF Pv!Overlaps, PvInv, PvTypes, LiveTypes
<1>6. /\ ThreadTypes' /\ th'["api"] = r /\ \A u \in Pv!Threads : u # "api" => th'[u] = th[u]
      /\ ShapeInv' /\ FlightInv' /\ NewestInv' /\ Pv!ReauthIsDurable' /\ OutInv'
  BY <1>1, <1>2, <1>3, <1>4, <1>5, OwnStep
<1>7. pvOps' \in 0 .. ProviderOps /\ Len(newest) \in 1 .. pvOps' + 1
  BY <1>1, <1>2, Domains DEF PvInv, PvTypes, ServiceTypes
<1>8. PvTypes'
  BY <1>1, <1>5, <1>6, <1>7 DEF PvInv, PvTypes, LiveTypes, ServiceTypes
<1>9. AloneInv' /\ BuildInv' /\ MatchInv'
  BY <1>1, <1>3, <1>4, <1>6, Domains, StartStep
<1>10. QED
  BY <1>6, <1>8, <1>9 DEF PvInv

LEMMA PvApplyModel == ASSUME PvInv, Pv!ApplyModel(2) PROVE PvInv'
<1> DEFINE r == [th["api"] EXCEPT !.pc = IF http # Pv!NoHttp THEN "setmodel" ELSE IF pvOk THEN "snap" ELSE "idle",
                                  !.mod = 2, !.mine = (http # Pv!NoHttp)]
<1>1. /\ th["api"].pc = "idle" /\ pvOps < ProviderOps /\ pvOps' = pvOps + 1 /\ Pv!Overlaps /\ th' = [th EXCEPT !["api"] = r]
      /\ model' = 2
      /\ UNCHANGED <<bundle, key, pvSource, pvOk, http, flight, keepStop, keepCur, seen,
                     life, issued, newest, revoked, told, out, pvFaults>>
  BY DEF Pv!ApplyModel, Pv!Request, Pv!At, Pv!service
<1>2. "api" \in Pv!Threads /\ th["api"] \in ThreadStates /\ pvOps \in 0 .. ProviderOps
  BY Domains DEF PvInv, PvTypes, ThreadTypes, LiveTypes
<1>3. /\ r \in ThreadStates /\ r.pc \in {"idle", "snap", "setmodel"} /\ r.mod = 2
      /\ (r.pc = "setmodel" <=> http # Pv!NoHttp) /\ (r.pc = "setmodel" => r.mine)
  <2> DEFINE pc == IF http # Pv!NoHttp THEN "setmodel" ELSE IF pvOk THEN "snap" ELSE "idle"
             mine == http # Pv!NoHttp
  <2>1. pc \in {"idle", "snap", "setmodel"} /\ (pc = "setmodel" <=> http # Pv!NoHttp) /\ mine \in BOOLEAN
    OBVIOUS
  <2>2. mine <=> http # Pv!NoHttp
    OBVIOUS
  <2>3. r = [th["api"] EXCEPT !.pc = pc, !.mod = 2, !.mine = mine]
    OBVIOUS
  <2> HIDE DEF pc, mine, r
  <2> 2 \in 0 .. 2 /\ pc \in {"idle", "snap", "startk", "stopk", "joink", "setmodel", "source", "wait", "dead"}
    BY <2>1
  <2>4. r \in ThreadStates
    BY <1>2, <2>1, <2>3 DEF ThreadStates
  <2>5. r.pc = pc /\ r.mod = 2 /\ r.mine = mine
    BY <1>2, <2>3 DEF ThreadStates
  <2>6. QED
    BY <2>1, <2>2, <2>4, <2>5
<1> HIDE DEF r
<1>4. Shape("api", r) /\ r.pc \notin Resolving
  BY <1>3, OperatorShape DEF Resolving
<1>5. raced' \in BOOLEAN /\ (~raced' => ~raced)
  BY <1>1 DEF Pv!Overlaps, PvInv, PvTypes, LiveTypes
<1>6. /\ ThreadTypes' /\ th'["api"] = r /\ \A u \in Pv!Threads : u # "api" => th'[u] = th[u]
      /\ ShapeInv' /\ FlightInv' /\ NewestInv' /\ Pv!ReauthIsDurable' /\ OutInv'
  BY <1>1, <1>2, <1>3, <1>4, <1>5, OwnStep
<1>7. pvOps' \in 0 .. ProviderOps /\ Len(newest) \in 1 .. pvOps' + 1
  BY <1>1, <1>2, Domains DEF PvInv, PvTypes, ServiceTypes
<1>8. PvTypes'
  BY <1>1, <1>5, <1>6, <1>7 DEF PvInv, PvTypes, LiveTypes, ServiceTypes
<1>9. AloneInv'
  BY <1>1, <1>3, <1>4, <1>6, Domains, StartStep
<1>10. BuildInv' /\ MatchInv'
  <2>1. CASE http = Pv!NoHttp
    <3>1. BuildInv'
      BY <1>1, <1>3, <1>4, <1>6, <2>1, Domains, StartStep
    <3>2. MatchInv'
      BY <1>1, <2>1 DEF MatchInv, Matched
    <3>3. QED
      BY <3>1, <3>2
  <2>2. CASE http # Pv!NoHttp
    <3>1. r.pc = "setmodel" /\ r.mine
      BY <1>3, <2>2
    <3>2. MatchInv'
      BY <1>6, <3>1 DEF MatchInv, Settled
    <3>3. ASSUME ~raced'
          PROVE  /\ th'["api"].pc = "setmodel" /\ th'["login"].pc = "idle" /\ th'["api"].mine /\ th'["api"].mod = model'
                 /\ http' # Pv!NoHttp /\ http'.src = pvSource' /\ http'.tok[1] = pvSource'
      <4>1. th["login"].pc = "idle" /\ Matched(http)
        BY <1>1, <3>3, StartsMatched DEF Alone
      <4>2. QED
        BY <1>1, <1>3, <1>6, <2>2, <3>1, <4>1, Domains DEF Matched
    <3>4. BuildInv'
      BY <3>3 DEF BuildInv, Operators, Resolving
    <3>5. QED
      BY <3>2, <3>4
  <2>3. QED
    BY <2>1, <2>2
<1>11. QED
  BY <1>6, <1>8, <1>9, <1>10 DEF PvInv

LEMMA PvSetModel == ASSUME PvInv, Pv!SetModel PROVE PvInv'
<1>1. /\ th["api"].pc = "setmodel" /\ th' = [th EXCEPT !["api"] = Pv!Idle]
      /\ http' = IF th["api"].mine THEN [http EXCEPT !.model = th["api"].mod] ELSE http
      /\ UNCHANGED <<bundle, key, pvSource, model, pvOk, flight, keepStop, keepCur, seen,
                     life, issued, newest, revoked, told, out, raced, pvOps, pvFaults>>
  BY DEF Pv!SetModel, Pv!Rest, Pv!At, Pv!service, Pv!bounds
<1>2. /\ "api" \in Pv!Threads /\ th["api"] \in ThreadStates
      /\ http \in [src : Sources \cup {"none"}, tok : Pv!Tokens, model : 0 .. 2]
  BY Domains DEF PvInv, PvTypes, ThreadTypes, LiveTypes
<1>3. Shape("api", Pv!Idle) /\ Pv!Idle \in ThreadStates /\ Pv!Idle.pc = "idle"
  BY OperatorShape, RecordTypes
<1>4. /\ ThreadTypes' /\ th'["api"] = Pv!Idle /\ \A u \in Pv!Threads : u # "api" => th'[u] = th[u]
      /\ ShapeInv' /\ FlightInv' /\ NewestInv' /\ Pv!ReauthIsDurable' /\ OutInv'
  BY <1>1, <1>2, <1>3, OwnStep
<1>5. /\ http' \in [src : Sources \cup {"none"}, tok : Pv!Tokens, model : 0 .. 2]
      /\ http'.src = http.src /\ http'.tok = http.tok /\ (th["api"].mine => http'.model = th["api"].mod)
  BY <1>1, <1>2 DEF ThreadStates
<1>6. PvTypes'
  BY <1>1, <1>4, <1>5 DEF PvInv, PvTypes, LiveTypes, ServiceTypes
<1>7. ASSUME ~raced PROVE /\ th["login"].pc = "idle" /\ th'["login"].pc = "idle" /\ th["api"].mine /\ th["api"].mod = model
                         /\ http.src = pvSource /\ http.tok[1] = pvSource
  BY <1>1, <1>4, <1>7, Domains DEF PvInv, AloneInv, BuildInv
<1>8. AloneInv'
  <2>1. /\ Others \subseteq Pv!Threads /\ "api" \notin Others
    BY Domains
  <2>2. QED
    BY <1>1, <1>3, <1>4, <1>7, <2>1 DEF PvInv, AloneInv, Operators
<1>9. BuildInv' /\ MatchInv'
  <2>1. ~raced' => th'["api"].pc = "idle" /\ th'["login"].pc = "idle"
    BY <1>1, <1>3, <1>4, <1>7
  <2>2. BuildInv'
    BY <2>1 DEF BuildInv, Operators, Resolving
  <2>3. MatchInv'
    BY <1>1, <1>5, <1>7 DEF MatchInv, Matched
  <2>4. QED
    BY <2>2, <2>3
<1>10. QED
  BY <1>4, <1>6, <1>8, <1>9 DEF PvInv

LEMMA PvLogout == ASSUME PvInv, Pv!Logout PROVE PvInv'
<1> DEFINE r == [th["api"] EXCEPT !.pc = IF pvSource = "oauth" THEN "snap" ELSE "idle"]
<1>1. /\ th["api"].pc = "idle" /\ pvOps < ProviderOps /\ pvOps' = pvOps + 1 /\ Pv!Overlaps /\ th' = [th EXCEPT !["api"] = r]
      /\ out' = TRUE /\ bundle' = Pv!NoBundle
      /\ UNCHANGED <<key, pvSource, model, pvOk, http, flight, keepStop, keepCur, seen,
                     life, issued, newest, revoked, told, pvFaults>>
  BY DEF Pv!Logout, Pv!Request, Pv!At, Pv!live, Pv!service
<1>2. "api" \in Pv!Threads /\ th["api"] \in ThreadStates /\ pvOps \in 0 .. ProviderOps /\ ThreadTypes
  BY Domains DEF PvInv, PvTypes, ThreadTypes, LiveTypes
<1>3. r \in ThreadStates /\ r.pc \in {"idle", "snap"}
  BY <1>2 DEF ThreadStates
<1> HIDE DEF r
<1>4. Shape("api", r) /\ r.pc \notin Resolving
  BY <1>3, OperatorShape DEF Resolving
<1>5. raced' \in BOOLEAN
  BY <1>1 DEF Pv!Overlaps, PvInv, PvTypes, LiveTypes
<1>6. ThreadTypes' /\ th'["api"] = r /\ \A u \in Pv!Threads : u # "api" => th'[u] = th[u]
  BY <1>1, <1>2, <1>3, OneThread
<1>7. pvOps' \in 0 .. ProviderOps /\ Len(newest) \in 1 .. pvOps' + 1 /\ 0 \in 0 .. Len(newest)
  BY <1>1, <1>2, Domains DEF PvInv, PvTypes, ServiceTypes
<1>8. bundle' \in Bundles /\ bundle'.login = 0 /\ 0 \notin 1 .. Len(newest)
  BY <1>1, <1>7, RecordTypes DEF Pv!NoBundle
<1>9. PvTypes'
  BY <1>1, <1>5, <1>6, <1>7, <1>8 DEF PvInv, PvTypes, LiveTypes, ServiceTypes
<1>10. ShapeInv'
  BY <1>4, <1>6 DEF PvInv, ShapeInv
<1>11. \A u \in Pv!Threads : th'[u].pc = "http" => th[u].pc = "http" /\ th'[u] = th[u]
  BY <1>3, <1>6
<1>12. FlightInv' /\ NewestInv'
  BY <1>1, <1>8, <1>11 DEF PvInv, FlightInv, NewestInv, Pv!At
<1>13. Pv!ReauthIsDurable'
  BY <1>1, <1>8 DEF PvInv, PvTypes, ServiceTypes, Pv!ReauthIsDurable
<1>14. OutInv'
  <2>1. ASSUME ~raced', NEW u \in Pv!Threads PROVE th'[u].pc # "http"
    <3>1. Alone
      BY <1>1, <2>1, StartsMatched
    <3>2. u \in Others \/ u = "api" \/ u = "login"
      BY Domains DEF Operators
    <3>3. th[u].pc # "http"
      BY <3>1, <3>2 DEF Alone, Resolving
    <3>4. QED
      BY <1>11, <3>3
  <2>2. QED
    BY <1>1, <2>1 DEF OutInv, Pv!At
<1>15. AloneInv' /\ BuildInv' /\ MatchInv'
  BY <1>1, <1>3, <1>4, <1>6, Domains, StartStep
<1>16. QED
  BY <1>9, <1>10, <1>12, <1>13, <1>14, <1>15 DEF PvInv

LEMMA PvLoginPersist == ASSUME PvInv, NEW a \in BOOLEAN, Pv!LoginPersist(a) PROVE PvInv'
<1> DEFINE n == issued + 1
           r == [th["login"] EXCEPT !.pc = "source", !.was = a]
<1>1. /\ th["login"].pc = "idle" /\ pvOps < ProviderOps /\ issued < MaxTok /\ pvOps' = pvOps + 1 /\ Pv!Overlaps
      /\ life' = "fresh" /\ issued' = n /\ newest' = Append(newest, n) /\ out' = FALSE
      /\ bundle' = [login |-> Len(newest) + 1, tok |-> n, reauth |-> FALSE]
      /\ th' = [th EXCEPT !["login"] = r]
      /\ UNCHANGED <<key, pvSource, model, pvOk, http, flight, keepStop, keepCur, seen, revoked, told, pvFaults>>
  BY DEF Pv!LoginPersist, Pv!At, Pv!live
<1>2. /\ "login" \in Pv!Threads /\ th["login"] \in ThreadStates /\ pvOps \in 0 .. ProviderOps /\ ThreadTypes
      /\ issued \in 1 .. MaxTok /\ newest \in Seq(1 .. MaxTok) /\ Len(newest) \in 1 .. pvOps + 1
      /\ revoked \subseteq 1 .. Len(newest) /\ told \subseteq 1 .. Len(newest)
  BY Domains DEF PvInv, PvTypes, ThreadTypes, LiveTypes, ServiceTypes
<1>3. r \in ThreadStates /\ r.pc = "source"
  BY <1>2 DEF ThreadStates
<1> HIDE DEF r
<1>4. Shape("login", r) /\ r.pc \notin Resolving
  BY <1>3 DEF Shape, Resolving, Others
<1>5. raced' \in BOOLEAN
  BY <1>1 DEF Pv!Overlaps, PvInv, PvTypes, LiveTypes
<1>6. ThreadTypes' /\ th'["login"] = r /\ \A u \in Pv!Threads : u # "login" => th'[u] = th[u]
  BY <1>1, <1>2, <1>3, OneThread
<1>7. n \in 1 .. MaxTok /\ n \in 0 .. MaxTok /\ pvOps' \in 0 .. ProviderOps /\ Len(newest) \in Nat
  BY <1>1, <1>2, Domains
<1>8. /\ newest' \in Seq(1 .. MaxTok) /\ Len(newest') = Len(newest) + 1 /\ newest'[Len(newest) + 1] = n
      /\ \A l \in 1 .. Len(newest) : newest'[l] = newest[l]
  BY <1>1, <1>2, <1>7
<1>9. bundle' \in Bundles /\ bundle'.login = Len(newest) + 1 /\ bundle'.tok = n
  BY <1>1, <1>7 DEF Bundles
<1>10. /\ Len(newest') \in 1 .. pvOps' + 1 /\ bundle'.login \in 0 .. Len(newest')
       /\ \A l \in 1 .. Len(newest) : l \in 1 .. Len(newest')
  BY <1>1, <1>2, <1>7, <1>8, <1>9, Domains
<1>11. ServiceTypes'
  BY <1>1, <1>2, <1>7, <1>8, <1>9, <1>10 DEF ServiceTypes
<1>12. PvTypes'
  BY <1>1, <1>5, <1>6, <1>7, <1>11 DEF PvInv, PvTypes, LiveTypes
<1>13. ShapeInv'
  BY <1>4, <1>6 DEF PvInv, ShapeInv
<1>14. \A u \in Pv!Threads : th'[u].pc = "http" => th[u].pc = "http" /\ th'[u] = th[u]
  BY <1>3, <1>6
<1>15. FlightInv'
  BY <1>1, <1>10, <1>14 DEF PvInv, FlightInv, Pv!At
<1>16. NewestInv'
  BY <1>1, <1>8, <1>9, <1>14 DEF PvInv, NewestInv, FlightInv, Pv!At
<1>17. Pv!ReauthIsDurable' /\ OutInv'
  <2>1. Len(newest) + 1 \notin told
    BY <1>2, <1>7
  <2>2. QED
    BY <1>1, <1>9, <2>1 DEF Pv!ReauthIsDurable, OutInv
<1>18. AloneInv' /\ BuildInv' /\ MatchInv'
  BY <1>1, <1>3, <1>4, <1>6, Domains, StartStep
<1>19. QED
  BY <1>12, <1>13, <1>15, <1>16, <1>17, <1>18 DEF PvInv

LEMMA PvSwitchSource == ASSUME PvInv, Pv!SwitchSource PROVE PvInv'
<1> DEFINE r == IF th["api"].res.ok THEN [th["api"] EXCEPT !.pc = "snap"] ELSE Pv!Idle
<1>1. /\ th["api"].pc = "have" /\ th["api"].do = "switch" /\ th' = [th EXCEPT !["api"] = r]
      /\ pvSource' = IF th["api"].res.ok THEN th["api"].src ELSE pvSource
      /\ raced' = (raced \/ Pv!Busy # {"api"} \/ Pv!Refreshing # {})
      /\ UNCHANGED <<bundle, key, model, pvOk, http, flight, keepStop, keepCur, seen,
                     life, issued, newest, revoked, told, out, pvOps, pvFaults>>
  BY DEF Pv!SwitchSource, Pv!Go, Pv!Rest, Pv!At, Pv!service, Pv!bounds
<1>2. "api" \in Pv!Threads /\ th["api"] \in ThreadStates /\ th["api"].src \in Sources
  BY <1>1, Domains DEF PvInv, PvTypes, ThreadTypes, ShapeInv, Shape, Resolving
<1>3. /\ r \in ThreadStates /\ r.pc \in {"idle", "snap"}
      /\ (th["api"].res.ok => r.pc = "snap") /\ (~th["api"].res.ok => r.pc = "idle")
  BY <1>2, RecordTypes DEF ThreadStates
<1> HIDE DEF r
<1>4. Shape("api", r) /\ r.pc \notin Resolving
  BY <1>3, OperatorShape DEF Resolving
<1>5. raced' \in BOOLEAN /\ (~raced' => ~raced /\ th["login"].pc = "idle" /\ \A u \in Others : th[u].pc \notin Resolving)
  BY <1>1, Overlapping DEF PvInv, PvTypes, LiveTypes
<1>6. /\ ThreadTypes' /\ th'["api"] = r /\ \A u \in Pv!Threads : u # "api" => th'[u] = th[u]
      /\ ShapeInv' /\ FlightInv' /\ NewestInv' /\ Pv!ReauthIsDurable' /\ OutInv'
  BY <1>1, <1>2, <1>3, <1>4, <1>5, OwnStep
<1>7. pvSource' \in Sources
  BY <1>1, <1>2 DEF PvInv, PvTypes, LiveTypes
<1>8. PvTypes'
  BY <1>1, <1>5, <1>6, <1>7 DEF PvInv, PvTypes, LiveTypes, ServiceTypes
<1>9. /\ "login" \in Pv!Threads /\ Others \subseteq Pv!Threads /\ "api" \notin Others
      /\ ~raced' => th'["login"].pc = "idle" /\ \A u \in Others : th'[u].pc \notin Resolving
  BY <1>5, <1>6, Domains
<1>10. AloneInv' /\ BuildInv'
  BY <1>3, <1>4, <1>6, <1>9 DEF AloneInv, BuildInv, Operators, Resolving
<1>11. MatchInv'
  <2>1. CASE th["api"].res.ok
    BY <1>3, <1>6, <2>1 DEF MatchInv, Settled
  <2>2. CASE ~th["api"].res.ok
    <3>1. Settled("api") /\ (~raced' => Settled("login"))
      BY <1>1, <1>5 DEF Settled, Resolving
    <3>2. QED
      BY <1>1, <1>5, <2>2, <3>1 DEF PvInv, MatchInv, Matched
  <2>3. QED
    BY <2>1, <2>2
<1>12. QED
  BY <1>6, <1>8, <1>10, <1>11 DEF PvInv

LEMMA PvLoginSource == ASSUME PvInv, Pv!LoginSource PROVE PvInv'
<1> DEFINE go == th["login"].was \/ pvSource = "oauth"
           r == IF go THEN [th["login"] EXCEPT !.pc = "snap"] ELSE Pv!Idle
<1>1. /\ th["login"].pc = "source" /\ th' = [th EXCEPT !["login"] = r]
      /\ pvSource' = IF th["login"].was THEN "oauth" ELSE pvSource
      /\ raced' = (raced \/ Pv!Busy # {"login"} \/ Pv!Refreshing # {})
      /\ UNCHANGED <<bundle, key, model, pvOk, http, flight, keepStop, keepCur, seen,
                     life, issued, newest, revoked, told, out, pvOps, pvFaults>>
  BY DEF Pv!LoginSource, Pv!Go, Pv!Rest, Pv!At, Pv!service, Pv!bounds
<1>2. "login" \in Pv!Threads /\ th["login"] \in ThreadStates
  BY <1>1, Domains DEF PvInv, PvTypes, ThreadTypes
<1>3. r \in ThreadStates /\ r.pc \in {"idle", "snap"} /\ (go => r.pc = "snap") /\ (~go => r.pc = "idle")
  BY <1>2, RecordTypes DEF ThreadStates
<1> HIDE DEF r
<1>4. Shape("login", r) /\ r.pc \notin Resolving
  BY <1>3 DEF Shape, Resolving, Others
<1>5. raced' \in BOOLEAN /\ (~raced' => ~raced /\ th["api"].pc = "idle" /\ \A u \in Others : th[u].pc \notin Resolving)
  BY <1>1, Overlapping DEF PvInv, PvTypes, LiveTypes
<1>6. /\ ThreadTypes' /\ th'["login"] = r /\ \A u \in Pv!Threads : u # "login" => th'[u] = th[u]
      /\ ShapeInv' /\ FlightInv' /\ NewestInv' /\ Pv!ReauthIsDurable' /\ OutInv'
  BY <1>1, <1>2, <1>3, <1>4, <1>5, OwnStep
<1>7. pvSource' \in Sources
  BY <1>1 DEF PvInv, PvTypes, LiveTypes, Sources
<1>8. PvTypes'
  BY <1>1, <1>5, <1>6, <1>7 DEF PvInv, PvTypes, LiveTypes, ServiceTypes
<1>9. /\ "api" \in Pv!Threads /\ Others \subseteq Pv!Threads /\ "login" \notin Others
      /\ ~raced' => th'["api"].pc = "idle" /\ \A u \in Others : th'[u].pc \notin Resolving
  BY <1>5, <1>6, Domains
<1>10. AloneInv' /\ BuildInv'
  BY <1>3, <1>4, <1>6, <1>9 DEF AloneInv, BuildInv, Operators, Resolving
<1>11. MatchInv'
  <2>1. CASE go
    BY <1>3, <1>6, <2>1 DEF MatchInv, Settled
  <2>2. CASE ~go
    <3>1. Settled("login") /\ (~raced' => Settled("api"))
      BY <1>1, <1>5 DEF Settled, Resolving
    <3>2. QED
      BY <1>1, <1>5, <2>2, <3>1 DEF PvInv, MatchInv, Matched
  <2>3. QED
    BY <2>1, <2>2
<1>12. QED
  BY <1>6, <1>8, <1>10, <1>11 DEF PvInv

\* The keep-alive loop, a chat call or the poller begins to resolve, or rests.
LEMMA OtherBegins ==
  ASSUME PvInv, NEW t \in Others, \A u \in Pv!Threads : u # t => th'[u] = th[u],
         UNCHANGED <<pvSource, model, http>>, ~raced' => ~raced /\ Pv!Busy = {},
         ~raced' /\ th'[t].pc \in Resolving => th'[t].src = pvSource
  PROVE  AloneInv' /\ BuildInv' /\ MatchInv'
<1>1. ASSUME ~raced'
      PROVE  ~raced /\ th["api"].pc = "idle" /\ th["login"].pc = "idle" /\ th'["api"].pc = "idle" /\ th'["login"].pc = "idle"
  BY <1>1, Overlapping, Domains
<1>2. \A u \in Others : u # t => th'[u] = th[u]
  BY Domains
<1>3. AloneInv'
  BY <1>1, <1>2 DEF PvInv, AloneInv, Operators
<1>4. BuildInv'
  BY <1>1 DEF BuildInv, Operators, Resolving
<1>5. MatchInv'
  BY <1>1 DEF PvInv, MatchInv, Matched, Settled, Resolving
<1>6. QED
  BY <1>3, <1>4, <1>5

\* It has a bearer, and binds it to the client in use or does not.
LEMMA OtherEnds ==
  ASSUME PvInv, NEW t \in Others, th[t].pc = "have", th'[t].pc \notin Resolving,
         \A u \in Pv!Threads : u # t => th'[u] = th[u], UNCHANGED <<pvSource, model, raced>>,
         http' = http \/ (th[t].res.ok /\ Pv!Rebound(th[t].res.tok))
  PROVE  AloneInv' /\ BuildInv' /\ MatchInv' /\ http' \in [src : Sources \cup {"none"}, tok : Pv!Tokens, model : 0 .. 2]
<1>1. /\ t \in Pv!Threads /\ t # "api" /\ t # "login" /\ th[t] \in ThreadStates
      /\ http \in [src : Sources \cup {"none"}, tok : Pv!Tokens, model : 0 .. 2]
  BY Domains DEF PvInv, PvTypes, ThreadTypes, LiveTypes
<1>2. \/ http' = http
      \/ /\ http' = [http EXCEPT !.tok = th[t].res.tok] /\ th[t].res.ok /\ http # Pv!NoHttp
         /\ th[t].res.tok[1] = th[t].src
  BY <1>1 DEF Pv!Rebound, PvInv, ShapeInv, Shape
<1>3. th[t].res.tok \in Pv!Tokens
  BY <1>1 DEF ThreadStates, Answers
<1>4. /\ http' \in [src : Sources \cup {"none"}, tok : Pv!Tokens, model : 0 .. 2]
      /\ http'.src = http.src /\ http'.model = http.model
  BY <1>1, <1>2, <1>3
<1>5. ASSUME ~raced
      PROVE  /\ th["api"].pc = "idle" /\ th["login"].pc = "idle" /\ th'["api"].pc = "idle" /\ th'["login"].pc = "idle"
             /\ th[t].src = pvSource
  BY <1>1, <1>5, Domains DEF PvInv, AloneInv, Resolving
<1>6. \A u \in Others : u # t => th'[u] = th[u]
  BY Domains
<1>7. AloneInv'
  BY <1>5, <1>6 DEF PvInv, AloneInv, Operators
<1>8. BuildInv'
  BY <1>5 DEF BuildInv, Operators, Resolving
<1>9. MatchInv'
  <2>1. ASSUME ~raced PROVE Matched(http)
    BY <1>5, <2>1 DEF PvInv, MatchInv, Settled, Resolving
  <2>2. CASE http' = http
    BY <2>1, <2>2 DEF MatchInv, Matched
  <2>3. CASE /\ http' = [http EXCEPT !.tok = th[t].res.tok] /\ th[t].res.ok /\ http # Pv!NoHttp
             /\ th[t].res.tok[1] = th[t].src
    <3>1. http'.tok = th[t].res.tok
      BY <1>1, <2>3
    <3>2. QED
      BY <1>4, <1>5, <2>1, <2>3, <3>1 DEF MatchInv, Matched
  <2>4. QED
    BY <1>2, <2>2, <2>3
<1>10. QED
  BY <1>4, <1>7, <1>8, <1>9

LEMMA PvKeepTop == ASSUME PvInv, Pv!KeepTop PROVE PvInv'
<1> DEFINE r == IF keepStop THEN Pv!Dead
                ELSE IF pvSource = "oauth"
                  THEN [Pv!Idle EXCEPT !.pc = "enter", !.do = "keep", !.src = "oauth", !.was = pvOk]
                  ELSE [Pv!Idle EXCEPT !.pc = "wait"]
<1>1. /\ th' = [th EXCEPT !["keep"] = r] /\ raced' = (raced \/ Pv!Busy # {})
      /\ UNCHANGED <<bundle, key, pvSource, model, pvOk, http, flight, keepStop, keepCur, seen,
                     life, issued, newest, revoked, told, out, pvOps, pvFaults>>
  BY DEF Pv!KeepTop, Pv!live, Pv!service, Pv!bounds
<1>2. "keep" \in Pv!Threads /\ "keep" \in Others /\ pvOk \in BOOLEAN /\ raced' \in BOOLEAN /\ (~raced' => ~raced /\ Pv!Busy = {})
  BY <1>1, Domains DEF PvInv, PvTypes, LiveTypes, Others
<1>3. r \in ThreadStates /\ (r.pc \in {"wait", "dead"} \/ (r.pc = "enter" /\ r.src = "oauth" /\ pvSource = "oauth"))
  <2>1. CASE keepStop
    BY <2>1, RecordTypes
  <2>2. CASE ~keepStop /\ pvSource = "oauth"
    <3>1. r = [Pv!Idle EXCEPT !.pc = "enter", !.do = "keep", !.src = "oauth", !.was = pvOk]
      BY <2>2
    <3>2. QED
      BY <1>2, <2>2, <3>1, RecordTypes DEF ThreadStates, Sources, Resolving
  <2>3. CASE ~keepStop /\ pvSource # "oauth"
    <3>1. r = [Pv!Idle EXCEPT !.pc = "wait"]
      BY <2>3
    <3>2. QED
      BY <3>1, RecordTypes DEF ThreadStates
  <2>4. QED
    BY <2>1, <2>2, <2>3
<1> HIDE DEF r
<1>4. Shape("keep", r)
  BY <1>3 DEF Shape, Resolving, Operators, Sources
<1>5. /\ ThreadTypes' /\ th'["keep"] = r /\ \A u \in Pv!Threads : u # "keep" => th'[u] = th[u]
      /\ ShapeInv' /\ FlightInv' /\ NewestInv' /\ Pv!ReauthIsDurable' /\ OutInv'
  BY <1>1, <1>2, <1>3, <1>4, OwnStep
<1>6. PvTypes'
  BY <1>1, <1>2, <1>5 DEF PvInv, PvTypes, LiveTypes, ServiceTypes
<1>7. AloneInv' /\ BuildInv' /\ MatchInv'
  <2>1. th'["keep"].pc \in Resolving => th'["keep"].src = pvSource
    BY <1>3, <1>5 DEF Resolving
  <2>2. QED
    BY <1>1, <1>2, <1>5, <2>1, OtherBegins
<1>8. QED
  BY <1>5, <1>6, <1>7 DEF PvInv

LEMMA PvKeepDone == ASSUME PvInv, Pv!KeepDone PROVE PvInv'
<1> DEFINE r == [Pv!Idle EXCEPT !.pc = "wait"]
           res == th["keep"].res
<1>1. /\ th["keep"].pc = "have" /\ th' = [th EXCEPT !["keep"] = r]
      /\ IF res.ok /\ (res.rotated \/ ~th["keep"].was) THEN Pv!Rebound(res.tok)
         ELSE IF ~res.ok /\ ~res.raised THEN Pv!MarkFailed ELSE UNCHANGED <<pvOk, http>>
      /\ UNCHANGED <<bundle, key, pvSource, model, flight, keepStop, keepCur, seen,
                     life, issued, newest, revoked, told, out, raced, pvOps, pvFaults>>
  BY DEF Pv!KeepDone, Pv!At, Pv!service, Pv!bounds
<1>2. "keep" \in Pv!Threads /\ "keep" \in Others
  BY Domains DEF Others
<1>3. r \in ThreadStates /\ r.pc = "wait"
  BY RecordTypes DEF ThreadStates
<1> HIDE DEF r
<1>4. Shape("keep", r)
  BY <1>3 DEF Shape, Resolving, Operators
<1>5. /\ ThreadTypes' /\ th'["keep"] = r /\ \A u \in Pv!Threads : u # "keep" => th'[u] = th[u]
      /\ ShapeInv' /\ FlightInv' /\ NewestInv' /\ Pv!ReauthIsDurable' /\ OutInv'
  BY <1>1, <1>2, <1>3, <1>4, OwnStep
<1>6. (http' = http \/ (res.ok /\ Pv!Rebound(res.tok))) /\ pvOk' \in BOOLEAN
  BY <1>1 DEF Pv!Rebound, Pv!MarkFailed, PvInv, PvTypes, LiveTypes
<1>7. AloneInv' /\ BuildInv' /\ MatchInv' /\ http' \in [src : Sources \cup {"none"}, tok : Pv!Tokens, model : 0 .. 2]
  <2>1. th'["keep"].pc \notin Resolving
    BY <1>3, <1>5 DEF Resolving
  <2>2. QED
    BY <1>1, <1>2, <1>5, <1>6, <2>1, OtherEnds
<1>8. PvTypes'
  BY <1>1, <1>5, <1>6, <1>7 DEF PvInv, PvTypes, LiveTypes, ServiceTypes
<1>9. QED
  BY <1>5, <1>7, <1>8 DEF PvInv

LEMMA PvChat401 == ASSUME PvInv, Pv!Chat401 PROVE PvInv'
<1> DEFINE r == [Pv!Idle EXCEPT !.pc = "enter", !.do = "chat", !.src = "oauth"]
<1>1. /\ th' = [th EXCEPT !["chat"] = r] /\ raced' = (raced \/ Pv!Busy # {}) /\ http.src = "oauth"
      /\ UNCHANGED <<bundle, key, pvSource, model, pvOk, http, flight, keepStop, keepCur, seen,
                     life, issued, newest, revoked, told, out, pvOps, pvFaults>>
  BY DEF Pv!Chat401, Pv!live, Pv!service, Pv!bounds
<1>2. "chat" \in Pv!Threads /\ "chat" \in Others /\ raced' \in BOOLEAN /\ (~raced' => ~raced /\ Pv!Busy = {})
  BY <1>1, Domains DEF PvInv, PvTypes, LiveTypes, Others
<1>3. r \in ThreadStates /\ r.pc = "enter" /\ r.src = "oauth"
  BY RecordTypes DEF ThreadStates, Sources, Resolving
<1> HIDE DEF r
<1>4. Shape("chat", r)
  BY <1>3 DEF Shape, Resolving, Operators, Sources
<1>5. /\ ThreadTypes' /\ th'["chat"] = r /\ \A u \in Pv!Threads : u # "chat" => th'[u] = th[u]
      /\ ShapeInv' /\ FlightInv' /\ NewestInv' /\ Pv!ReauthIsDurable' /\ OutInv'
  BY <1>1, <1>2, <1>3, <1>4, OwnStep
<1>6. PvTypes'
  BY <1>1, <1>2, <1>5 DEF PvInv, PvTypes, LiveTypes, ServiceTypes
<1>7. ASSUME ~raced' PROVE pvSource = "oauth"
  <2>1. ~raced /\ Settled("api") /\ Settled("login")
    BY <1>2, <1>7, Overlapping DEF Settled, Resolving
  <2>2. Matched(http) /\ http # Pv!NoHttp
    BY <1>1, <2>1 DEF PvInv, MatchInv, Pv!NoHttp
  <2>3. QED
    BY <1>1, <2>2 DEF Matched
<1>8. AloneInv' /\ BuildInv' /\ MatchInv'
  BY <1>1, <1>2, <1>3, <1>5, <1>7, OtherBegins
<1>9. QED
  BY <1>5, <1>6, <1>8 DEF PvInv

LEMMA PvChatRetry == ASSUME PvInv, Pv!ChatRetry PROVE PvInv'
<1>1. /\ th["chat"].pc = "have" /\ th' = [th EXCEPT !["chat"] = Pv!Idle]
      /\ IF th["chat"].res.ok THEN Pv!Rebound(th["chat"].res.tok) ELSE Pv!MarkFailed
      /\ UNCHANGED <<bundle, key, pvSource, model, flight, keepStop, keepCur, seen,
                     life, issued, newest, revoked, told, out, raced, pvOps, pvFaults>>
  BY DEF Pv!ChatRetry, Pv!Rest, Pv!At, Pv!service, Pv!bounds
<1>2. "chat" \in Pv!Threads /\ "chat" \in Others /\ Shape("chat", Pv!Idle)
  BY Domains, RecordTypes DEF Others, Shape, Resolving
<1>3. /\ ThreadTypes' /\ th'["chat"] = Pv!Idle /\ \A u \in Pv!Threads : u # "chat" => th'[u] = th[u]
      /\ ShapeInv' /\ FlightInv' /\ NewestInv' /\ Pv!ReauthIsDurable' /\ OutInv'
  BY <1>1, <1>2, RecordTypes, OwnStep
<1>4. (http' = http \/ (th["chat"].res.ok /\ Pv!Rebound(th["chat"].res.tok))) /\ pvOk' \in BOOLEAN
  BY <1>1 DEF Pv!Rebound, Pv!MarkFailed
<1>5. AloneInv' /\ BuildInv' /\ MatchInv' /\ http' \in [src : Sources \cup {"none"}, tok : Pv!Tokens, model : 0 .. 2]
  <2>1. th'["chat"].pc \notin Resolving
    BY <1>3, RecordTypes DEF Resolving
  <2>2. QED
    BY <1>1, <1>2, <1>3, <1>4, <2>1, OtherEnds
<1>6. PvTypes'
  BY <1>1, <1>3, <1>4, <1>5 DEF PvInv, PvTypes, LiveTypes, ServiceTypes
<1>7. QED
  BY <1>3, <1>5, <1>6 DEF PvInv

LEMMA PvPoll == ASSUME PvInv, Pv!Poll PROVE PvInv'
<1> DEFINE r == [Pv!Idle EXCEPT !.pc = "enter", !.do = "poll", !.src = pvSource]
<1>1. /\ th' = [th EXCEPT !["poll"] = r] /\ raced' = (raced \/ Pv!Busy # {})
      /\ UNCHANGED <<bundle, key, pvSource, model, pvOk, http, flight, keepStop, keepCur, seen,
                     life, issued, newest, revoked, told, out, pvOps, pvFaults>>
  BY DEF Pv!Poll, Pv!live, Pv!service, Pv!bounds
<1>2. /\ "poll" \in Pv!Threads /\ "poll" \in Others /\ raced' \in BOOLEAN /\ (~raced' => ~raced /\ Pv!Busy = {})
      /\ pvSource \in Sources
  BY <1>1, Domains DEF PvInv, PvTypes, LiveTypes, Others
<1>3. r \in ThreadStates /\ r.pc = "enter" /\ r.src = pvSource
  BY <1>2, RecordTypes DEF ThreadStates, Resolving
<1> HIDE DEF r
<1>4. Shape("poll", r)
  BY <1>2, <1>3 DEF Shape, Resolving, Operators
<1>5. /\ ThreadTypes' /\ th'["poll"] = r /\ \A u \in Pv!Threads : u # "poll" => th'[u] = th[u]
      /\ ShapeInv' /\ FlightInv' /\ NewestInv' /\ Pv!ReauthIsDurable' /\ OutInv'
  BY <1>1, <1>2, <1>3, <1>4, OwnStep
<1>6. PvTypes'
  BY <1>1, <1>2, <1>5 DEF PvInv, PvTypes, LiveTypes, ServiceTypes
<1>7. AloneInv' /\ BuildInv' /\ MatchInv'
  BY <1>1, <1>2, <1>3, <1>5, OtherBegins
<1>8. QED
  BY <1>5, <1>6, <1>7 DEF PvInv

LEMMA PvPollDone == ASSUME PvInv, Pv!PollDone PROVE PvInv'
<1> DEFINE res == th["poll"].res
<1>1. /\ th["poll"].pc = "have" /\ th' = [th EXCEPT !["poll"] = Pv!Idle]
      /\ seen' = IF res.ok THEN res.tok ELSE seen
      /\ IF res.ok /\ (res.rotated \/ (seen[1] # "none" /\ seen # res.tok))
            THEN Pv!Rebound(res.tok) ELSE UNCHANGED <<pvOk, http>>
      /\ UNCHANGED <<bundle, key, pvSource, model, flight, keepStop, keepCur,
                     life, issued, newest, revoked, told, out, raced, pvOps, pvFaults>>
  BY DEF Pv!PollDone, Pv!Rest, Pv!At, Pv!service, Pv!bounds
<1>2. "poll" \in Pv!Threads /\ "poll" \in Others /\ Shape("poll", Pv!Idle) /\ th["poll"] \in ThreadStates
  BY Domains, RecordTypes DEF Others, Shape, Resolving, PvInv, PvTypes, ThreadTypes
<1>3. /\ ThreadTypes' /\ th'["poll"] = Pv!Idle /\ \A u \in Pv!Threads : u # "poll" => th'[u] = th[u]
      /\ ShapeInv' /\ FlightInv' /\ NewestInv' /\ Pv!ReauthIsDurable' /\ OutInv'
  BY <1>1, <1>2, RecordTypes, OwnStep
<1>4. (http' = http \/ (res.ok /\ Pv!Rebound(res.tok))) /\ pvOk' \in BOOLEAN /\ seen' \in Pv!Tokens
  BY <1>1, <1>2 DEF Pv!Rebound, PvInv, PvTypes, LiveTypes, ThreadStates, Answers
<1>5. AloneInv' /\ BuildInv' /\ MatchInv' /\ http' \in [src : Sources \cup {"none"}, tok : Pv!Tokens, model : 0 .. 2]
  <2>1. th'["poll"].pc \notin Resolving
    BY <1>3, RecordTypes DEF Resolving
  <2>2. QED
    BY <1>1, <1>2, <1>3, <1>4, <2>1, OtherEnds
<1>6. PvTypes'
  BY <1>1, <1>3, <1>4, <1>5 DEF PvInv, PvTypes, LiveTypes, ServiceTypes
<1>7. QED
  BY <1>3, <1>5, <1>6 DEF PvInv

\* The service moves on its own, and every thread stays where it is.
LEMMA PvService ==
  ASSUME PvInv, ServiceTypes', UNCHANGED <<bundle, key, pvSource, model, pvOk, http, flight, th, keepStop, keepCur, seen,
                                           issued, newest, told, out, raced, pvOps, pvFaults>>
  PROVE  PvInv'
<1>1. PvTypes' /\ ShapeInv'
  BY DEF PvInv, PvTypes, LiveTypes, ThreadTypes, ShapeInv
<1>2. FlightInv' /\ NewestInv' /\ Pv!ReauthIsDurable' /\ OutInv'
  BY Quiet
<1>3. AloneInv' /\ BuildInv' /\ MatchInv'
  BY Resolved
<1>4. QED
  BY <1>1, <1>2, <1>3 DEF PvInv

LEMMA PvAge == ASSUME PvInv, Pv!Age PROVE PvInv'
<1>1. /\ life' \in {"fresh", "near", "dead"}
      /\ UNCHANGED <<bundle, key, pvSource, model, pvOk, http, flight, th, keepStop, keepCur, seen,
                     issued, newest, revoked, told, out, raced, pvOps, pvFaults>>
  BY DEF Pv!Age, Pv!live, Pv!bounds
<1>2. ServiceTypes'
  BY <1>1 DEF PvInv, PvTypes, ServiceTypes
<1>3. QED
  BY <1>1, <1>2, PvService

LEMMA PvRevoke == ASSUME PvInv, NEW l \in 1 .. Len(newest), Pv!Revoke(l) PROVE PvInv'
<1>1. /\ revoked' = revoked \cup {l}
      /\ UNCHANGED <<bundle, key, pvSource, model, pvOk, http, flight, th, keepStop, keepCur, seen,
                     life, issued, newest, told, out, raced, pvOps, pvFaults>>
  BY DEF Pv!Revoke, Pv!live, Pv!bounds
<1>2. ServiceTypes'
  BY <1>1 DEF PvInv, PvTypes, ServiceTypes
<1>3. QED
  BY <1>1, <1>2, PvService

LEMMA PvStep == PvInv /\ [Pv!Next]_(Pv!vars) => PvInv'
<1> SUFFICES ASSUME PvInv, [Pv!Next]_(Pv!vars) PROVE PvInv'
  OBVIOUS
<1>1. CASE UNCHANGED Pv!vars
  <2>1. UNCHANGED <<bundle, key, pvSource, model, pvOk, http, flight, th, keepStop, keepCur, seen,
                    life, issued, newest, revoked, told, out, raced, pvOps, pvFaults>>
    BY <1>1 DEF Pv!vars, Pv!live, Pv!service, Pv!bounds
  <2>2. ServiceTypes'
    BY <2>1 DEF PvInv, PvTypes, ServiceTypes
  <2>3. QED
    BY <2>1, <2>2, PvService
<1>2. ASSUME NEW t \in Pv!Threads, Pv!Resolve(t) PROVE PvInv'
  BY <1>2, PvResolveKey, PvEnterRefresh, PvRefreshOk, PvRefreshDenied, PvRefreshTransient DEF Pv!Resolve
<1>3. ASSUME NEW t \in {"api", "login"}, Pv!Rebuild(t) PROVE PvInv'
  <2>1. t \in Operators
    BY DEF Operators
  <2>2. QED
    BY <1>3, <2>1, PvSnapshot, PvBind, PvStartKeep, PvStopKeep, PvJoinKeep, PvListed DEF Pv!Rebuild
<1>4. CASE Pv!Operator
  BY <1>4, PvApplySource, PvApplyModel, PvPutKey, PvLogout, PvLoginPersist DEF Pv!Operator, Sources
<1>5. CASE Pv!Keep
  BY <1>5, PvKeepTop, PvKeepDone DEF Pv!Keep
<1>6. QED
  BY <1>1, <1>2, <1>3, <1>4, <1>5, PvSwitchSource, PvSetModel, PvLoginSource, PvChat401, PvChatRetry, PvPoll,
     PvPollDone, PvAge, PvRevoke DEF Pv!Next

\* The invariant is stronger than what the run checks.
LEMMA PvEnough == PvInv => Pv!CredentialHolds
<1> SUFFICES ASSUME PvInv PROVE Pv!CredentialHolds
  OBVIOUS
<1>1. Pv!TypeOK
  <2>1. \A t \in Pv!Threads : th[t].pc \in {"idle", "enter", "http", "have", "snap", "startk", "stopk", "joink",
                                            "setmodel", "source", "wait", "dead"}
    BY DEF PvInv, PvTypes, ThreadTypes, ThreadStates, Resolving
  <2>2. bundle \in [login : 0 .. (ProviderOps + 1), tok : 0 .. MaxTok, reauth : BOOLEAN]
    BY Domains DEF PvInv, PvTypes, LiveTypes, ServiceTypes, Bundles
  <2>3. QED
    BY <2>1, <2>2 DEF PvInv, PvTypes, LiveTypes, ServiceTypes, Sources, Pv!TypeOK
<1>2. Pv!RefreshNotReused /\ Pv!ReauthIsDurable /\ Pv!LoggedOutStaysOut
  BY DEF PvInv, NewestInv, OutInv, Pv!RefreshNotReused, Pv!LoggedOutStaysOut
<1>3. Pv!ClientMatches
  <2>1. Pv!Busy = {} => Settled("api") /\ Settled("login")
    BY Overlapping DEF Settled, Resolving
  <2>2. QED
    BY <2>1 DEF Pv!ClientMatches, PvInv, MatchInv, Matched
<1>4. QED
  BY <1>1, <1>2, <1>3 DEF Pv!CredentialHolds

\* With a chat call, the keep-alive loop, the poller, a login and an operator at the
\* tokens: no refresh token is used twice, a login that is over is marked so on disk,
\* the client is the one of the chosen source and model, and a logout is not undone.
THEOREM CredentialKept == RuntimeSpec => []CredentialHolds
<1>1. RuntimeInit => PvInv
  BY PvInit DEF RuntimeInit
<1>2. PvInv /\ [RuntimeNext]_<<vars, focus, umVars, pvVars, brVars, sbVars, gsVars>> => PvInv'
  <2> SUFFICES ASSUME PvInv, [RuntimeNext]_<<vars, focus, umVars, pvVars, brVars, sbVars, gsVars>>
               PROVE  PvInv'
    OBVIOUS
  <2>1. [Pv!Next]_(Pv!vars)
    BY DEF RuntimeNext, pvVars, Pv!vars, Pv!live, Pv!service, Pv!bounds
  <2>2. QED
    BY <2>1, PvStep
<1>3. PvInv => CredentialHolds
  BY PvEnough DEF CredentialHolds
<1>4. QED
  BY <1>1, <1>2, <1>3, PTL DEF RuntimeSpec

-----------------------------------------------------------------------------
(* The usage meter *)

MeterT == [hour : Nat, day : Nat, week : Nat, auth : {"iso", "supergrok"}, period : Nat,
           uh : Nat, ud : Nat, uw : Nat, media : Nat, override : BOOLEAN,
           pct : {"none", "low", "high"}, fetched : Nat]
AnswerT == [kind : {"none", "ok", "percent", "failed"}, period : 0 .. MaxTime,
            pct : {"none", "low", "high"}, at : Nat]

\* _refresh_windows_unlocked at time t.
Roll(r, t) ==
  LET roll == r.week # Um!Week(t) /\ r.auth = "iso" IN
  [r EXCEPT !.hour = t, !.day = Um!Day(t), !.week = Um!Week(t),
            !.uh = IF r.hour = t THEN @ ELSE 0,
            !.ud = IF r.day = Um!Day(t) THEN @ ELSE 0,
            !.uw = IF roll THEN 0 ELSE @,
            !.media = IF roll THEN 0 ELSE @,
            !.period = IF roll THEN Um!Week(t) ELSE @]

\* A meter that no window of which is ahead of t, and one whose windows are those of t.
Dated(r, t) == r.hour <= t /\ r.day <= Um!Day(t) /\ r.week <= Um!Week(t)
Current(r, t) == r.hour = t /\ r.day = Um!Day(t) /\ r.week = Um!Week(t)
Within(r) == r.period <= MaxTime /\ r.media <= umOps /\ r.fetched <= now

MeterTypes ==
  /\ now \in 0 .. MaxTime /\ umOps \in 0 .. MeterOps
  /\ umM \in MeterT /\ Dated(umM, now) /\ Within(umM)
  /\ file = Um!Absent \/ (file \in MeterT /\ Dated(file, now) /\ Within(file))
  /\ umPc \in [MeterCallers -> {"idle", "calling"}]
  /\ answer \in AnswerT /\ answer.at <= now
  /\ overran \in BOOLEAN /\ damaged \in BOOLEAN
  /\ ledger \in [{"hour", "day", "week"} -> Nat]

\* The file is as good as the memory.  There is none before the first write, and
\* after it was damaged.
FileInv ==
  /\ file # Um!Absent => Roll(file, now) = Roll(umM, now)
  /\ file = Um!Absent /\ ~damaged => Roll(umM, now) = Um!Zero(now)

BookInv ==
  ~damaged => /\ Roll(umM, now).uh = ledger["hour"] /\ Roll(umM, now).ud = ledger["day"]
              /\ Roll(umM, now).uw = ledger["week"]

\* What was spent, and what the calls in flight may still spend.
Calling == {c \in MeterCallers : umPc[c] = "calling"}
Fund == WeekLimit - 1 + Cardinality(MeterCallers) * MaxCall
SpendInv == ~overran => umM.uw + Cardinality(Calling) * MaxCall <= Fund

MeterInv == MeterTypes /\ FileInv /\ BookInv /\ SpendInv

\* Windows of time.
LEMMA DivIs ==
  ASSUME NEW w \in Nat \ {0}, NEW a \in Nat
  PROVE  a \div w \in Nat /\ w * (a \div w) <= a /\ a < w * (a \div w) + w
  BY SMT

LEMMA DivMono ==
  ASSUME NEW w \in Nat \ {0}, NEW a \in Nat, NEW b \in Nat, a <= b
  PROVE  a \div w <= b \div w
<1> DEFINE p == a \div w
           q == b \div w
<1>1. p \in Nat /\ q \in Nat /\ w * p <= a /\ b < w * q + w
  BY DivIs
<1> HIDE DEF p, q
<1>2. w * p < w * (q + 1)
  BY <1>1
<1>3. p < q + 1
  BY <1>1, <1>2
<1> QED
  BY <1>1, <1>3 DEF p, q

\* A window that leads by less than its length is not ahead of the clock.
LEMMA DivLeads ==
  ASSUME NEW w \in Nat \ {0}, NEW a \in Nat, NEW s \in Nat, s < w
  PROVE  (a + s) \div w \in 0 .. a
<1> DEFINE p == (a + s) \div w
<1>1. p \in Nat /\ w * p <= a + s
  BY DivIs
<1> HIDE DEF p
<1>2. w * p < w * (a + 1)
  BY <1>1
<1>3. p < a + 1
  BY <1>1, <1>2
<1> QED
  BY <1>1, <1>3 DEF p

LEMMA Windows ==
  ASSUME NEW t \in Nat
  PROVE  Um!Day(t) \in 0 .. t /\ Um!Week(t) \in 0 .. t /\ Um!Bill(t) \in 0 .. t
<1>1. DayLen \in Nat \ {0} /\ WeekLen \in Nat \ {0} /\ BillShift \in Nat /\ BillShift < WeekLen
  BY MeterAssumption
<1>2. (t + 0) \div DayLen \in 0 .. t /\ (t + 0) \div WeekLen \in 0 .. t
  BY <1>1, DivLeads
<1>3. (t + BillShift) \div WeekLen \in 0 .. t
  BY <1>1, DivLeads
<1>4. t + 0 = t
  OBVIOUS
<1> QED
  BY <1>2, <1>3, <1>4 DEF Um!Day, Um!Week, Um!Bill

LEMMA WindowsAdvance ==
  ASSUME NEW t \in Nat, NEW u \in Nat, t <= u
  PROVE  Um!Day(t) <= Um!Day(u) /\ Um!Week(t) <= Um!Week(u)
  BY MeterAssumption, DivMono DEF Um!Day, Um!Week

\* Rolling a meter.
LEMMA MeterExt ==
  ASSUME NEW a \in MeterT, NEW b \in MeterT,
         a.hour = b.hour, a.day = b.day, a.week = b.week, a.auth = b.auth,
         a.period = b.period, a.uh = b.uh, a.ud = b.ud, a.uw = b.uw, a.media = b.media,
         a.override = b.override, a.pct = b.pct, a.fetched = b.fetched
  PROVE  a = b
  BY DEF MeterT

LEMMA RollIs ==
  ASSUME NEW r \in MeterT, NEW t \in Nat
  PROVE  LET v == Roll(r, t)
             roll == r.week # Um!Week(t) /\ r.auth = "iso"
         IN  /\ v \in MeterT /\ Current(v, t)
             /\ v.auth = r.auth /\ v.override = r.override /\ v.pct = r.pct /\ v.fetched = r.fetched
             /\ v.uh = IF r.hour = t THEN r.uh ELSE 0
             /\ v.ud = IF r.day = Um!Day(t) THEN r.ud ELSE 0
             /\ v.uw = IF roll THEN 0 ELSE r.uw
             /\ v.media = IF roll THEN 0 ELSE r.media
             /\ v.period = IF roll THEN Um!Week(t) ELSE r.period
<1>1. Um!Day(t) \in Nat /\ Um!Week(t) \in Nat
  BY Windows
<1> QED
  BY <1>1 DEF Roll, MeterT, Current

LEMMA RefreshedIs == \A r : Um!Refreshed(r) = Roll(r, now)
  BY DEF Um!Refreshed, Roll

LEMMA ZeroIs ==
  ASSUME NEW t \in Nat
  PROVE  Um!Zero(t) \in MeterT /\ Current(Um!Zero(t), t)
  BY Windows DEF Um!Zero, MeterT, Current

LEMMA RollNow ==
  ASSUME NEW r \in MeterT, NEW t \in Nat, Current(r, t)
  PROVE  Roll(r, t) = r
<1> DEFINE v == Roll(r, t)
<1>1. /\ v \in MeterT /\ Current(v, t)
      /\ v.auth = r.auth /\ v.override = r.override /\ v.pct = r.pct /\ v.fetched = r.fetched
      /\ v.uh = r.uh /\ v.ud = r.ud /\ v.uw = r.uw /\ v.media = r.media /\ v.period = r.period
  BY RollIs DEF Current
<1> HIDE DEF v
<1>2. v = r
  BY <1>1, MeterExt DEF Current
<1> QED
  BY <1>2 DEF v

\* A roll that nobody persisted is made up for by the next.
LEMMA RollTwice ==
  ASSUME NEW r \in MeterT, NEW t \in Nat, NEW u \in Nat, t <= u, Dated(r, t)
  PROVE  Roll(Roll(r, t), u) = Roll(r, u)
<1> DEFINE v == Roll(r, t)
           w == Roll(v, u)
           x == Roll(r, u)
<1>1. /\ Um!Day(t) \in Nat /\ Um!Week(t) \in Nat /\ Um!Day(u) \in Nat /\ Um!Week(u) \in Nat
      /\ Um!Day(t) <= Um!Day(u) /\ Um!Week(t) <= Um!Week(u)
  BY Windows, WindowsAdvance
<1>2. /\ v \in MeterT /\ Current(v, t)
      /\ v.auth = r.auth /\ v.override = r.override /\ v.pct = r.pct /\ v.fetched = r.fetched
      /\ v.uh = IF r.hour = t THEN r.uh ELSE 0
      /\ v.ud = IF r.day = Um!Day(t) THEN r.ud ELSE 0
      /\ v.uw = IF r.week # Um!Week(t) /\ r.auth = "iso" THEN 0 ELSE r.uw
      /\ v.media = IF r.week # Um!Week(t) /\ r.auth = "iso" THEN 0 ELSE r.media
      /\ v.period = IF r.week # Um!Week(t) /\ r.auth = "iso" THEN Um!Week(t) ELSE r.period
  BY RollIs
<1> HIDE DEF v
<1>3. /\ w \in MeterT /\ Current(w, u)
      /\ w.auth = v.auth /\ w.override = v.override /\ w.pct = v.pct /\ w.fetched = v.fetched
      /\ w.uh = IF v.hour = u THEN v.uh ELSE 0
      /\ w.ud = IF v.day = Um!Day(u) THEN v.ud ELSE 0
      /\ w.uw = IF v.week # Um!Week(u) /\ v.auth = "iso" THEN 0 ELSE v.uw
      /\ w.media = IF v.week # Um!Week(u) /\ v.auth = "iso" THEN 0 ELSE v.media
      /\ w.period = IF v.week # Um!Week(u) /\ v.auth = "iso" THEN Um!Week(u) ELSE v.period
  BY <1>2, RollIs
<1>4. /\ x \in MeterT /\ Current(x, u)
      /\ x.auth = r.auth /\ x.override = r.override /\ x.pct = r.pct /\ x.fetched = r.fetched
      /\ x.uh = IF r.hour = u THEN r.uh ELSE 0
      /\ x.ud = IF r.day = Um!Day(u) THEN r.ud ELSE 0
      /\ x.uw = IF r.week # Um!Week(u) /\ r.auth = "iso" THEN 0 ELSE r.uw
      /\ x.media = IF r.week # Um!Week(u) /\ r.auth = "iso" THEN 0 ELSE r.media
      /\ x.period = IF r.week # Um!Week(u) /\ r.auth = "iso" THEN Um!Week(u) ELSE r.period
  BY RollIs
<1> HIDE DEF w, x
<1>5. r.hour <= t /\ r.day <= Um!Day(t) /\ r.week <= Um!Week(t) /\ r.hour \in Nat /\ r.day \in Nat
      /\ r.week \in Nat
  BY DEF Dated, MeterT
<1>6. v.hour = t /\ v.day = Um!Day(t) /\ v.week = Um!Week(t)
  BY <1>2 DEF Current
<1>7. w.uh = x.uh
  BY <1>2, <1>3, <1>4, <1>5, <1>6
<1>8. w.ud = x.ud
  BY <1>1, <1>2, <1>3, <1>4, <1>5, <1>6
<1>9. w.uw = x.uw /\ w.media = x.media /\ w.period = x.period
  <2>1. CASE r.week # Um!Week(t)
    <3>1. r.week # Um!Week(u)
      BY <1>1, <1>5, <2>1
    <3> QED
      BY <1>2, <1>3, <1>4, <1>6, <2>1, <3>1
  <2>2. CASE r.week = Um!Week(t)
    BY <1>2, <1>3, <1>4, <1>6, <2>2
  <2> QED
    BY <2>1, <2>2
<1>10. w = x
  BY <1>2, <1>3, <1>4, <1>7, <1>8, <1>9, MeterExt DEF Current
<1> QED
  BY <1>10 DEF v, w, x

LEMMA RollZero ==
  ASSUME NEW t \in Nat, NEW u \in Nat, t <= u
  PROVE  Roll(Um!Zero(t), u) = Um!Zero(u)
<1> DEFINE z == Um!Zero(t)
           x == Roll(z, u)
           y == Um!Zero(u)
<1>1. z \in MeterT /\ Current(z, t) /\ y \in MeterT /\ Current(y, u)
  BY ZeroIs
<1>2. /\ z.auth = "iso" /\ z.override = FALSE /\ z.pct = "none" /\ z.fetched = 0
      /\ z.uh = 0 /\ z.ud = 0 /\ z.uw = 0 /\ z.media = 0 /\ z.period = Um!Week(t)
      /\ z.week = Um!Week(t)
  BY DEF Um!Zero
<1>3. /\ y.auth = "iso" /\ y.override = FALSE /\ y.pct = "none" /\ y.fetched = 0
      /\ y.uh = 0 /\ y.ud = 0 /\ y.uw = 0 /\ y.media = 0 /\ y.period = Um!Week(u)
  BY DEF Um!Zero
<1> HIDE DEF z, y
<1>4. /\ x \in MeterT /\ Current(x, u)
      /\ x.auth = z.auth /\ x.override = z.override /\ x.pct = z.pct /\ x.fetched = z.fetched
      /\ x.uh = IF z.hour = u THEN z.uh ELSE 0
      /\ x.ud = IF z.day = Um!Day(u) THEN z.ud ELSE 0
      /\ x.uw = IF z.week # Um!Week(u) /\ z.auth = "iso" THEN 0 ELSE z.uw
      /\ x.media = IF z.week # Um!Week(u) /\ z.auth = "iso" THEN 0 ELSE z.media
      /\ x.period = IF z.week # Um!Week(u) /\ z.auth = "iso" THEN Um!Week(u) ELSE z.period
  BY <1>1, RollIs
<1> HIDE DEF x
<1>5. x.uh = 0 /\ x.ud = 0 /\ x.uw = 0 /\ x.media = 0 /\ x.period = Um!Week(u)
  BY <1>2, <1>4
<1>6. x = y
  BY <1>1, <1>2, <1>3, <1>4, <1>5, MeterExt, ZenonT(60) DEF Current
<1> QED
  BY <1>6 DEF x, y, z

\* The meter as an operation finds it.
LEMMA RolledMeter ==
  ASSUME MeterInv, NEW r, r = Roll(umM, now)
  PROVE  /\ now \in Nat /\ now <= MaxTime /\ umOps \in Nat
         /\ r \in MeterT /\ Current(r, now) /\ Dated(r, now) /\ Within(r)
         /\ r.auth = umM.auth /\ r.override = umM.override
         /\ r.uw <= umM.uw /\ Roll(r, now) = r
         /\ r.auth = "supergrok" => r.period = umM.period
<1>1. /\ now \in Nat /\ now <= MaxTime /\ umOps \in Nat /\ MaxTime \in Nat
      /\ umM \in MeterT /\ Dated(umM, now) /\ Within(umM)
  BY MeterAssumption DEF MeterInv, MeterTypes
<1>2. /\ r \in MeterT /\ Current(r, now)
      /\ r.auth = umM.auth /\ r.override = umM.override /\ r.fetched = umM.fetched
      /\ r.uw = IF umM.week # Um!Week(now) /\ umM.auth = "iso" THEN 0 ELSE umM.uw
      /\ r.media = IF umM.week # Um!Week(now) /\ umM.auth = "iso" THEN 0 ELSE umM.media
      /\ r.period = IF umM.week # Um!Week(now) /\ umM.auth = "iso" THEN Um!Week(now) ELSE umM.period
  BY <1>1, RollIs
<1>3. Um!Week(now) \in 0 .. now /\ Um!Day(now) \in 0 .. now
  BY <1>1, Windows
<1>4. umM.uw \in Nat /\ umM.media \in Nat /\ umM.period \in Nat /\ umM.fetched \in Nat
  BY <1>1 DEF MeterT
<1>5. r.uw <= umM.uw /\ Within(r)
  BY <1>1, <1>2, <1>3, <1>4 DEF Within
<1>6. Dated(r, now)
  BY <1>1, <1>2, <1>3 DEF Dated, Current
<1>7. r.auth = "supergrok" => r.period = umM.period
  BY <1>2
<1> QED
  BY <1>1, <1>2, <1>5, <1>6, <1>7, RollNow

\* Calls in flight.
LEMMA CallingFinite ==
  /\ IsFiniteSet(Calling) /\ Cardinality(Calling) \in Nat
  /\ IsFiniteSet(MeterCallers) /\ Cardinality(MeterCallers) \in Nat
  /\ Cardinality(Calling) <= Cardinality(MeterCallers)
<1>1. IsFiniteSet(MeterCallers) /\ Calling \subseteq MeterCallers
  BY MeterAssumption DEF Calling
<1> QED
  BY <1>1, FS_Subset, FS_CardinalityType

LEMMA CallingPrimed ==
  /\ IsFiniteSet(Calling') /\ Cardinality(Calling') \in Nat
  /\ Cardinality(Calling') <= Cardinality(MeterCallers)
<1>1. IsFiniteSet(MeterCallers) /\ Calling' \subseteq MeterCallers
  BY MeterAssumption DEF Calling
<1> QED
  BY <1>1, FS_Subset, FS_CardinalityType

LEMMA Scaled ==
  ASSUME NEW k \in Nat, NEW a \in Nat, NEW b \in Nat, a <= b
  PROVE  a * k <= b * k /\ k * a <= k * b
  BY SMT

\* Fewer tokens and no more calls.
LEMMA SpendLess ==
  ASSUME MeterInv, umM' \in MeterT, ~overran' => ~overran /\ umM'.uw <= umM.uw,
         Calling' \subseteq Calling
  PROVE  SpendInv'
<1>1. Cardinality(Calling') \in Nat /\ Cardinality(Calling) \in Nat
      /\ Cardinality(Calling') <= Cardinality(Calling)
  BY CallingFinite, CallingPrimed, FS_Subset
<1>2. Cardinality(Calling') * MaxCall <= Cardinality(Calling) * MaxCall
      /\ Cardinality(Calling') * MaxCall \in Nat /\ Cardinality(Calling) * MaxCall \in Nat
  BY <1>1, Scaled, MeterAssumption
<1>3. Fund \in Int /\ Fund' = Fund
  BY CallingFinite, MeterAssumption DEF Fund
<1>4. umM.uw \in Nat /\ umM'.uw \in Nat
  BY DEF MeterInv, MeterTypes, MeterT
<1> QED
  BY <1>2, <1>3, <1>4 DEF MeterInv, SpendInv

\* _persist_unlocked: memory and file are the same, with the windows of now.
LEMMA Stored ==
  ASSUME NEW x \in MeterT, now \in Nat, Current(x, now), umM' = x, file' = x, now' = now
  PROVE  FileInv' /\ Roll(umM', now') = x /\ Dated(x, now)
<1>1. Roll(x, now) = x
  BY RollNow
<1>2. x # Um!Absent
  <2>1. x.hour # Um!Absent.hour
    BY DEF MeterT, Um!Absent, Um!None
  <2> QED
    BY <2>1
<1>3. Dated(x, now)
  BY Windows DEF Current, Dated
<1>4. file' # Um!Absent
  BY <1>2 DEF Um!Absent
<1>5. FileInv' = (/\ file' # Um!Absent => Roll(file', now') = Roll(umM', now')
                  /\ file' = Um!Absent /\ ~damaged' => Roll(umM', now') = Um!Zero(now'))
  BY DEF FileInv, Roll, Um!Absent, Um!Zero, Um!Day, Um!Week, Um!None
<1> QED
  BY <1>1, <1>3, <1>4, <1>5

\* A failed write, and what leaves meter, file and clock alone.
Kept == umM' = umM /\ file' = file /\ now' = now

LEMMA MeterKept ==
  ASSUME MeterInv, Kept, MeterTypes', damaged' = damaged, ledger' = ledger, overran' = overran,
         Calling' \subseteq Calling
  PROVE  MeterInv'
<1>1. FileInv'
  BY DEF Kept, MeterInv, FileInv, Roll, Um!Absent, Um!Zero, Um!Day, Um!Week, Um!None
<1>2. BookInv'
  BY DEF Kept, MeterInv, BookInv, Roll, Um!Day, Um!Week
<1>3. SpendInv'
  <2>1. umM \in MeterT /\ umM.uw \in Nat
    BY DEF MeterInv, MeterTypes, MeterT
  <2> QED
    BY <2>1, SpendLess DEF Kept
<1> QED
  BY <1>1, <1>2, <1>3 DEF MeterInv

LEMMA MeterInit == Um!Init => MeterInv
<1> SUFFICES ASSUME Um!Init PROVE MeterInv
  OBVIOUS
<1>1. now = 0 /\ umM = Um!Zero(0) /\ file = Um!Absent /\ umOps = 0
      /\ umPc = [c \in MeterCallers |-> "idle"] /\ answer = Um!NoSnap
      /\ ledger = [k \in {"hour", "day", "week"} |-> 0] /\ overran = FALSE /\ damaged = FALSE
  BY DEF Um!Init
<1>2. umM \in MeterT /\ Current(umM, 0)
  BY <1>1, ZeroIs
<1>3. Um!Day(0) = 0 /\ Um!Week(0) = 0
  BY Windows
<1>4. umM.period = 0 /\ umM.media = 0 /\ umM.fetched = 0 /\ umM.uh = 0 /\ umM.ud = 0 /\ umM.uw = 0
  BY <1>1, <1>3 DEF Um!Zero
<1>5. MeterTypes
  <2>1. now \in 0 .. MaxTime /\ umOps \in 0 .. MeterOps /\ MaxTime \in Nat
    BY <1>1, MeterAssumption
  <2>2. Dated(umM, now) /\ Within(umM)
    BY <1>1, <1>2, <1>3, <1>4, <2>1 DEF Dated, Current, Within
  <2>3. answer \in AnswerT /\ answer.at <= now
    BY <1>1, <2>1 DEF AnswerT, Um!NoSnap
  <2>4. umPc \in [MeterCallers -> {"idle", "calling"}] /\ ledger \in [{"hour", "day", "week"} -> Nat]
    BY <1>1
  <2> QED
    BY <1>1, <1>2, <2>1, <2>2, <2>3, <2>4 DEF MeterTypes
<1>6. Roll(umM, now) = umM
  BY <1>1, <1>2, RollNow
<1>7. FileInv /\ BookInv
  BY <1>1, <1>4, <1>6 DEF FileInv, BookInv
<1>8. SpendInv
  <2>1. Calling = {}
    BY <1>1 DEF Calling
  <2>2. Cardinality(Calling) = 0
    BY <2>1, FS_EmptySet
  <2>3. Cardinality(MeterCallers) * MaxCall \in Nat
    BY CallingFinite, MeterAssumption
  <2> QED
    BY <1>4, <2>2, <2>3, MeterAssumption DEF SpendInv, Fund
<1> QED
  BY <1>5, <1>7, <1>8 DEF MeterInv

-----------------------------------------------------------------------------
(* Each step keeps the invariant *)

\* What a step that stores x has to show: x is a meter of now, the books say what x says,
\* and the fund covers it.
LEMMA MeterStored ==
  ASSUME MeterInv, NEW x \in MeterT, Current(x, now), Within(x)', umM' = x, file' = x, now' = now,
         umPc' \in [MeterCallers -> {"idle", "calling"}], answer' \in AnswerT, answer'.at <= now,
         overran' = overran, damaged' = damaged, umOps' \in 0 .. MeterOps,
         ledger' \in [{"hour", "day", "week"} -> Nat],
         ~damaged => x.uh = ledger'["hour"] /\ x.ud = ledger'["day"] /\ x.uw = ledger'["week"],
         SpendInv'
  PROVE  MeterInv'
<1>1. now \in 0 .. MaxTime /\ now \in Nat
  BY MeterAssumption DEF MeterInv, MeterTypes
<1>2. FileInv' /\ Roll(umM', now') = x /\ Dated(x, now)
  BY <1>1, Stored
<1>3. Dated(umM, now)' /\ Dated(file, now)' /\ Within(umM)' /\ Within(file)'
  BY <1>2 DEF Dated, Within, Um!Day, Um!Week
<1>4. overran' \in BOOLEAN /\ damaged' \in BOOLEAN
  BY DEF MeterInv, MeterTypes
<1>5. MeterTypes'
  BY <1>1, <1>3, <1>4 DEF MeterTypes
<1>6. BookInv'
  <2>1. Roll(umM, now)' = x
    BY <1>2 DEF Roll, Um!Day, Um!Week
  <2> QED
    BY <2>1 DEF BookInv
<1> QED
  BY <1>2, <1>5, <1>6 DEF MeterInv

LEMMA AskKeeps ==
  ASSUME MeterInv, NEW c \in MeterCallers, Um!Ask(c)
  PROVE  MeterInv'
<1>1. PICK r : r = Um!Refreshed(umM)
  OBVIOUS
<1>2. r = Roll(umM, now)
  BY <1>1, RefreshedIs
<1>3. /\ umPc[c] = "idle" /\ umM' = r
      /\ umPc' = [umPc EXCEPT ![c] = IF Um!CanCall(r) THEN "calling" ELSE "idle"]
      /\ overran' = (overran \/ r.override)
      /\ now' = now /\ file' = file /\ answer' = answer /\ ledger' = ledger /\ damaged' = damaged
      /\ umOps' = umOps
  BY <1>1 DEF Um!Ask
<1>4. /\ now \in Nat /\ now <= MaxTime /\ umOps \in Nat
      /\ r \in MeterT /\ Current(r, now) /\ Dated(r, now) /\ Within(r)
      /\ r.override = umM.override /\ r.uw <= umM.uw /\ Roll(r, now) = r
  BY <1>2, RolledMeter
<1>5. MeterTypes'
  <2>1. Dated(umM, now)' /\ Within(umM)'
    BY <1>3, <1>4 DEF Dated, Within, Um!Day, Um!Week
  <2>2. file' = Um!Absent \/ (file' \in MeterT /\ Dated(file, now)' /\ Within(file)')
    BY <1>3 DEF MeterInv, MeterTypes, Dated, Within, Um!Day, Um!Week
  <2>3. overran' \in BOOLEAN
    BY <1>3, <1>4 DEF MeterInv, MeterTypes, MeterT
  <2>4. umPc' \in [MeterCallers -> {"idle", "calling"}]
    BY <1>3 DEF MeterInv, MeterTypes
  <2> QED
    BY <1>3, <1>4, <2>1, <2>2, <2>3, <2>4 DEF MeterInv, MeterTypes, Um!Absent, Um!None
<1>6. Roll(umM, now)' = Roll(umM, now)
  BY <1>2, <1>3, <1>4 DEF Roll, Um!Day, Um!Week
<1>7. FileInv'
  BY <1>3, <1>6 DEF MeterInv, FileInv, Roll, Um!Absent, Um!Zero, Um!Day, Um!Week, Um!None
<1>8. BookInv'
  BY <1>3, <1>6 DEF MeterInv, BookInv
<1>9. SpendInv'
  <2>1. CASE Um!CanCall(r)
    <3> SUFFICES ASSUME ~overran' PROVE umM'.uw + Cardinality(Calling') * MaxCall <= Fund'
      BY DEF SpendInv
    <3>1. ~r.override
      BY <1>3
    <3>2. r.uw < WeekLimit
      <4>1. Um!HardLevel(r) = "none"
        BY <2>1, <3>1 DEF Um!CanCall
      <4>2. r.uw \in Nat /\ WeekLimit \in Nat
        BY <1>4, MeterAssumption DEF MeterT
      <4> QED
        BY <4>1, <4>2 DEF Um!HardLevel
    <3>3. Cardinality(Calling') * MaxCall <= Cardinality(MeterCallers) * MaxCall
          /\ Cardinality(Calling') * MaxCall \in Nat /\ Cardinality(MeterCallers) * MaxCall \in Nat
      BY CallingFinite, CallingPrimed, Scaled, MeterAssumption
    <3>4. r.uw \in Nat /\ WeekLimit \in Nat
      BY <1>4, MeterAssumption DEF MeterT
    <3> QED
      BY <1>3, <3>2, <3>3, <3>4 DEF Fund
  <2>2. CASE ~Um!CanCall(r)
    <3>1. Calling' \subseteq Calling
      <4>1. umPc' = [umPc EXCEPT ![c] = "idle"]
        BY <1>3, <2>2
      <4> QED
        BY <4>1 DEF MeterInv, MeterTypes, Calling
    <3>2. ~overran' => ~overran
      BY <1>3
    <3> QED
      BY <1>3, <1>4, <3>1, <3>2, SpendLess
  <2> QED
    BY <2>1, <2>2
<1> QED
  BY <1>5, <1>7, <1>8, <1>9 DEF MeterInv

\* A call is over.
LEMMA CallOver ==
  ASSUME MeterInv, NEW c \in MeterCallers, umPc[c] = "calling", umPc' = [umPc EXCEPT ![c] = "idle"]
  PROVE  /\ Calling' \subseteq Calling
         /\ umPc' \in [MeterCallers -> {"idle", "calling"}]
         /\ Cardinality(Calling') = Cardinality(Calling) - 1
<1>1. umPc \in [MeterCallers -> {"idle", "calling"}]
  BY DEF MeterInv, MeterTypes
<1>2. c \in Calling /\ Calling' = Calling \ {c}
  BY <1>1 DEF Calling
<1> QED
  BY <1>1, <1>2, CallingFinite, FS_RemoveElement

LEMMA ReturnKeeps ==
  ASSUME MeterInv, NEW c \in MeterCallers, NEW n \in 1 .. MaxCall, Um!Return(c, n)
  PROVE  MeterInv'
<1>1. PICK r : r = Um!Refreshed(umM)
  OBVIOUS
<1>2. r = Roll(umM, now)
  BY <1>1, RefreshedIs
<1>3. PICK x : x = Um!Record(r, n)
  OBVIOUS
<1>4. /\ umPc[c] = "calling" /\ umPc' = [umPc EXCEPT ![c] = "idle"]
      /\ umM' = x /\ file' = x
      /\ ledger' = [k \in DOMAIN ledger |-> ledger[k] + n]
      /\ now' = now /\ answer' = answer /\ overran' = overran /\ damaged' = damaged /\ umOps' = umOps
  BY <1>1, <1>3 DEF Um!Return, Um!Persist
<1>5. /\ now \in Nat /\ now <= MaxTime /\ umOps \in Nat
      /\ r \in MeterT /\ Current(r, now) /\ Within(r)
      /\ r.uw <= umM.uw
  BY <1>2, RolledMeter
<1>6. MaxCall \in Nat /\ n \in Nat /\ n <= MaxCall
  BY MeterAssumption
<1>7. /\ x \in MeterT /\ Current(x, now)
      /\ x.uh = r.uh + n /\ x.ud = r.ud + n /\ x.uw = r.uw + n
      /\ x.period = r.period /\ x.media = r.media /\ x.fetched = r.fetched
  <2>1. r.uh + n \in Nat /\ r.ud + n \in Nat /\ r.uw + n \in Nat
    BY <1>5, <1>6 DEF MeterT
  <2>2. x = [r EXCEPT !.uh = r.uh + n, !.ud = r.ud + n, !.uw = r.uw + n]
    BY <1>3 DEF Um!Record
  <2>3. x \in MeterT
    BY <1>5, <2>1, <2>2 DEF MeterT
  <2> QED
    BY <1>5, <2>2, <2>3 DEF MeterT, Current
<1>8. Within(x)'
  BY <1>4, <1>5, <1>7 DEF Within
<1>9. /\ ledger \in [{"hour", "day", "week"} -> Nat] /\ answer \in AnswerT /\ answer.at <= now
      /\ umOps \in 0 .. MeterOps
  BY DEF MeterInv, MeterTypes
<1>10. /\ ledger' \in [{"hour", "day", "week"} -> Nat]
       /\ ledger'["hour"] = ledger["hour"] + n /\ ledger'["day"] = ledger["day"] + n
       /\ ledger'["week"] = ledger["week"] + n
  BY <1>4, <1>6, <1>9
<1>11. ~damaged => x.uh = ledger'["hour"] /\ x.ud = ledger'["day"] /\ x.uw = ledger'["week"]
  BY <1>2, <1>7, <1>10 DEF MeterInv, BookInv
<1>12. SpendInv'
  <2> SUFFICES ASSUME ~overran PROVE umM'.uw + Cardinality(Calling') * MaxCall <= Fund
    BY <1>4 DEF SpendInv, Fund
  <2>1. umM.uw + Cardinality(Calling) * MaxCall <= Fund
    BY DEF MeterInv, SpendInv
  <2>2. Cardinality(Calling') = Cardinality(Calling) - 1 /\ Cardinality(Calling) \in Nat
    BY <1>4, CallOver, CallingFinite
  <2>3. Cardinality(Calling') * MaxCall = Cardinality(Calling) * MaxCall - MaxCall
        /\ Cardinality(Calling) * MaxCall \in Nat
    BY <1>6, <2>2
  <2>4. Fund \in Int /\ umM.uw \in Nat /\ r.uw \in Nat
    BY <1>5, CallingFinite, MeterAssumption DEF Fund, MeterInv, MeterTypes, MeterT
  <2> QED
    BY <1>4, <1>5, <1>6, <1>7, <2>1, <2>3, <2>4
<1>13. umPc' \in [MeterCallers -> {"idle", "calling"}]
  BY <1>4, CallOver
<1> QED
  BY <1>4, <1>7, <1>8, <1>9, <1>10, <1>11, <1>12, <1>13, MeterStored

LEMMA FailKeeps ==
  ASSUME MeterInv, NEW c \in MeterCallers, Um!ReturnFails(c) \/ Um!RecordFails(c)
  PROVE  MeterInv'
<1>1. /\ umPc[c] = "calling" /\ umPc' = [umPc EXCEPT ![c] = "idle"]
      /\ Kept /\ answer' = answer /\ overran' = overran /\ damaged' = damaged /\ umOps' = umOps
      /\ ledger' = ledger
  BY DEF Um!ReturnFails, Um!RecordFails, Um!PersistRaises, Um!meter, Um!book, Kept
<1>2. Calling' \subseteq Calling /\ umPc' \in [MeterCallers -> {"idle", "calling"}]
  BY <1>1, CallOver
<1>3. MeterTypes'
  BY <1>1, <1>2 DEF MeterInv, MeterTypes, Kept, Dated, Within, Um!Day, Um!Week, Um!Absent, Um!None
<1> QED
  BY <1>1, <1>2, <1>3, MeterKept

\* What stores a meter without spending: the fund covers it still.
LEMMA MeterSaved ==
  ASSUME MeterInv, NEW r, r = Roll(umM, now), NEW x \in MeterT, Current(x, now), Within(x)',
         x.uh = r.uh, x.ud = r.ud, x.uw <= r.uw,
         umM' = x, file' = x, now' = now, umPc' = umPc, answer' \in AnswerT, answer'.at <= now,
         overran' = overran, damaged' = damaged, umOps' \in 0 .. MeterOps,
         ledger'["hour"] = ledger["hour"], ledger'["day"] = ledger["day"],
         ~damaged => x.uw = ledger'["week"], ledger' \in [{"hour", "day", "week"} -> Nat]
  PROVE  MeterInv'
<1>1. umPc' \in [MeterCallers -> {"idle", "calling"}] /\ Calling' \subseteq Calling
  BY DEF MeterInv, MeterTypes, Calling
<1>2. r \in MeterT /\ r.uw <= umM.uw /\ umM.uw \in Nat /\ r.uw \in Nat /\ x.uw \in Nat
  BY RolledMeter DEF MeterInv, MeterTypes, MeterT
<1>3. SpendInv'
  BY <1>1, <1>2, SpendLess
<1>4. ~damaged => x.uh = ledger'["hour"] /\ x.ud = ledger'["day"] /\ x.uw = ledger'["week"]
  BY DEF MeterInv, BookInv
<1> QED
  BY <1>1, <1>3, <1>4, MeterStored

LEMMA MediaKeeps ==
  ASSUME MeterInv, Um!RecordMediaCall
  PROVE  MeterInv'
<1>1. PICK r : r = Um!Refreshed(umM)
  OBVIOUS
<1>2. r = Roll(umM, now)
  BY <1>1, RefreshedIs
<1>3. PICK x : x = [r EXCEPT !.media = @ + 1]
  OBVIOUS
<1>4. /\ umM' = x /\ file' = x /\ umOps < MeterOps /\ umOps' = umOps + 1 /\ ledger' = ledger
      /\ now' = now /\ umPc' = umPc /\ answer' = answer /\ overran' = overran /\ damaged' = damaged
  BY <1>1, <1>3 DEF Um!RecordMediaCall, Um!Persist, Um!book
<1>5. /\ now \in Nat /\ umOps \in Nat /\ r \in MeterT /\ Current(r, now) /\ Within(r)
  BY <1>2, RolledMeter
<1>6. x \in MeterT
  <2>1. r.media + 1 \in Nat
    BY <1>5 DEF MeterT
  <2> QED
    BY <1>3, <1>5, <2>1 DEF MeterT
<1>7. /\ Current(x, now) /\ x.uh = r.uh /\ x.ud = r.ud /\ x.uw = r.uw /\ x.media = r.media + 1
      /\ x.period = r.period /\ x.fetched = r.fetched
  BY <1>3, <1>5 DEF Current, MeterT
<1>8. Within(x)'
  BY <1>4, <1>5, <1>7 DEF Within, MeterT
<1>9. /\ answer \in AnswerT /\ answer.at <= now /\ umOps' \in 0 .. MeterOps
      /\ ledger \in [{"hour", "day", "week"} -> Nat] /\ (~damaged => r.uw = ledger["week"])
  BY <1>2, <1>4, <1>5, MeterAssumption DEF MeterInv, MeterTypes, BookInv
<1>10. x.uw <= r.uw
  BY <1>6, <1>7 DEF MeterT
<1> QED
  BY <1>2, <1>4, <1>6, <1>7, <1>8, <1>9, <1>10, MeterSaved

LEMMA OverrideKeeps ==
  ASSUME MeterInv, NEW b \in BOOLEAN, Um!SetHardStopOverride(b)
  PROVE  MeterInv'
<1>1. PICK r : r = Um!Refreshed(umM)
  OBVIOUS
<1>2. r = Roll(umM, now)
  BY <1>1, RefreshedIs
<1>3. PICK x : x = [r EXCEPT !.override = b]
  OBVIOUS
<1>4. /\ umM' = x /\ file' = x /\ umOps < MeterOps /\ umOps' = umOps + 1 /\ ledger' = ledger
      /\ now' = now /\ umPc' = umPc /\ answer' = answer /\ overran' = overran /\ damaged' = damaged
  BY <1>1, <1>3 DEF Um!SetHardStopOverride, Um!Persist, Um!book
<1>5. /\ now \in Nat /\ umOps \in Nat /\ r \in MeterT /\ Current(r, now) /\ Within(r)
  BY <1>2, RolledMeter
<1>6. x \in MeterT
  BY <1>3, <1>5 DEF MeterT
<1>7. /\ Current(x, now) /\ x.uh = r.uh /\ x.ud = r.ud /\ x.uw = r.uw /\ x.media = r.media
      /\ x.period = r.period /\ x.fetched = r.fetched
  BY <1>3, <1>5 DEF Current, MeterT
<1>8. Within(x)'
  BY <1>4, <1>5, <1>7 DEF Within, MeterT
<1>9. /\ answer \in AnswerT /\ answer.at <= now /\ umOps' \in 0 .. MeterOps
      /\ ledger \in [{"hour", "day", "week"} -> Nat] /\ (~damaged => r.uw = ledger["week"])
  BY <1>2, <1>4, <1>5, MeterAssumption DEF MeterInv, MeterTypes, BookInv
<1>10. x.uw <= r.uw
  BY <1>6, <1>7 DEF MeterT
<1> QED
  BY <1>2, <1>4, <1>6, <1>7, <1>8, <1>9, <1>10, MeterSaved

LEMMA RefreshKeeps ==
  ASSUME MeterInv, Um!RefreshWindows
  PROVE  MeterInv'
<1>1. PICK r : r = Um!Refreshed(umM)
  OBVIOUS
<1>2. r = Roll(umM, now)
  BY <1>1, RefreshedIs
<1>4. /\ umM' = r /\ file' = r /\ umOps' = umOps /\ ledger' = ledger
      /\ now' = now /\ umPc' = umPc /\ answer' = answer /\ overran' = overran /\ damaged' = damaged
  BY <1>1 DEF Um!RefreshWindows, Um!Persist, Um!book
<1>5. /\ now \in Nat /\ umOps \in Nat /\ r \in MeterT /\ Current(r, now) /\ Within(r)
  BY <1>2, RolledMeter
<1>8. Within(r)' /\ r.uw <= r.uw
  BY <1>4, <1>5 DEF Within, MeterT
<1>9. /\ answer \in AnswerT /\ answer.at <= now /\ umOps' \in 0 .. MeterOps
      /\ ledger \in [{"hour", "day", "week"} -> Nat] /\ (~damaged => r.uw = ledger["week"])
  BY <1>2, <1>4 DEF MeterInv, MeterTypes, BookInv
<1> QED
  BY <1>2, <1>4, <1>5, <1>8, <1>9, MeterSaved

\* A billing answer: another period starts the week's ledger afresh, the first does not.
LEMMA AppliedIs ==
  ASSUME NEW r \in MeterT, NEW s \in AnswerT
  PROVE  LET x == Um!Applied(r, s)
             good == s.kind = "ok"
         IN  /\ x \in MeterT
             /\ x.hour = r.hour /\ x.day = r.day /\ x.week = r.week
             /\ x.uh = r.uh /\ x.ud = r.ud
             /\ x.period = IF good THEN s.period ELSE r.period
             /\ x.uw = IF good /\ r.auth = "supergrok" /\ r.period # s.period THEN 0 ELSE r.uw
             /\ x.media = IF good /\ r.auth = "supergrok" /\ r.period # s.period THEN 0 ELSE r.media
             /\ x.fetched \in {r.fetched, s.at}
<1>1. /\ s.kind \in {"none", "ok", "percent", "failed"} /\ s.period \in Nat
      /\ s.pct \in {"none", "low", "high"} /\ s.at \in Nat
  BY MeterAssumption DEF AnswerT
<1> QED
  BY <1>1 DEF Um!Applied, MeterT

LEMMA ApplyKeeps ==
  ASSUME MeterInv, Um!ApplyCreditsSnapshot
  PROVE  MeterInv'
<1>1. PICK r : r = Um!Refreshed(umM)
  OBVIOUS
<1>2. r = Roll(umM, now)
  BY <1>1, RefreshedIs
<1>3. PICK x : x = Um!Applied(r, answer)
  OBVIOUS
<1>4. /\ umM' = x /\ file' = x /\ answer' = Um!NoSnap
      /\ ledger' = [ledger EXCEPT !["week"] =
                      IF answer.kind = "ok" /\ umM.auth = "supergrok" /\ umM.period # answer.period
                      THEN 0 ELSE @]
      /\ now' = now /\ umPc' = umPc /\ overran' = overran /\ damaged' = damaged /\ umOps' = umOps
  BY <1>1, <1>3 DEF Um!ApplyCreditsSnapshot, Um!Persist
<1>5. /\ now \in Nat /\ umOps \in Nat /\ MaxTime \in Nat /\ r \in MeterT /\ Current(r, now) /\ Within(r)
      /\ r.auth = umM.auth
      /\ r.auth = "supergrok" => r.period = umM.period
  BY <1>2, RolledMeter, MeterAssumption
<1>6. /\ answer \in AnswerT /\ answer.at <= now /\ umOps \in 0 .. MeterOps
      /\ ledger \in [{"hour", "day", "week"} -> Nat] /\ (~damaged => r.uw = ledger["week"])
  BY <1>2 DEF MeterInv, MeterTypes, BookInv
<1>7. /\ x \in MeterT
      /\ x.hour = r.hour /\ x.day = r.day /\ x.week = r.week
      /\ x.uh = r.uh /\ x.ud = r.ud
      /\ x.period = IF answer.kind = "ok" THEN answer.period ELSE r.period
      /\ x.uw = IF answer.kind = "ok" /\ r.auth = "supergrok" /\ r.period # answer.period THEN 0 ELSE r.uw
      /\ x.media = IF answer.kind = "ok" /\ r.auth = "supergrok" /\ r.period # answer.period
                   THEN 0 ELSE r.media
      /\ x.fetched \in {r.fetched, answer.at}
  BY <1>3, <1>5, <1>6, AppliedIs
<1>8. Current(x, now)
  BY <1>5, <1>7 DEF Current
<1>9. Within(x)'
  <2>1. x.period <= MaxTime
    BY <1>5, <1>6, <1>7 DEF Within, AnswerT
  <2>2. x.media <= umOps
    BY <1>5, <1>7 DEF Within
  <2>3. x.fetched <= now
    BY <1>5, <1>6, <1>7 DEF Within
  <2> QED
    BY <1>4, <2>1, <2>2, <2>3 DEF Within
<1>10. /\ ledger' \in [{"hour", "day", "week"} -> Nat]
       /\ ledger'["hour"] = ledger["hour"] /\ ledger'["day"] = ledger["day"]
       /\ ledger'["week"] = IF answer.kind = "ok" /\ umM.auth = "supergrok" /\ umM.period # answer.period
                            THEN 0 ELSE ledger["week"]
  BY <1>4, <1>6
<1>11. ~damaged => x.uw = ledger'["week"]
  BY <1>5, <1>6, <1>7, <1>10
<1>12. x.uw <= r.uw
  BY <1>5, <1>7 DEF MeterT
<1>13. answer' \in AnswerT /\ answer'.at <= now
  BY <1>4, <1>5 DEF AnswerT, Um!NoSnap
<1> QED
  BY <1>2, <1>4, <1>6, <1>7, <1>8, <1>9, <1>10, <1>11, <1>12, <1>13, MeterSaved

\* Failed writes, and a billing answer on its way.
LEMMA QuietKeeps ==
  ASSUME MeterInv, Um!SetHardStopOverrideFails \/ Um!FetchBilling \/ Um!ApplyFails
  PROVE  MeterInv'
<1>1. /\ Kept /\ umPc' = umPc /\ overran' = overran /\ damaged' = damaged /\ ledger' = ledger
  BY DEF Um!SetHardStopOverrideFails, Um!FetchBilling, Um!ApplyFails, Um!PersistRaises, Um!meter, Um!book,
         Kept
<1>2. now \in 0 .. MaxTime /\ MaxTime \in Nat /\ answer \in AnswerT /\ answer.at <= now
      /\ umOps \in 0 .. MeterOps /\ MeterOps \in Nat
  BY MeterAssumption DEF MeterInv, MeterTypes
<1>3. answer' \in AnswerT /\ answer'.at <= now
  <2>1. CASE Um!SetHardStopOverrideFails
    BY <1>2, <2>1 DEF Um!SetHardStopOverrideFails
  <2>2. CASE Um!ApplyFails
    BY <1>2, <2>2 DEF Um!ApplyFails, Um!NoSnap, AnswerT
  <2>3. CASE Um!FetchBilling
    <3>1. Um!Bill(now) \in 0 .. MaxTime
      BY <1>2, Windows
    <3>2. answer' \in Um!Answers
      BY <2>3 DEF Um!FetchBilling
    <3> QED
      BY <1>2, <3>1, <3>2 DEF Um!Answers, AnswerT
  <2> QED
    BY <2>1, <2>2, <2>3
<1>4. umOps' \in 0 .. MeterOps /\ umOps' >= umOps
  BY <1>2 DEF Um!SetHardStopOverrideFails, Um!FetchBilling, Um!ApplyFails
<1>5. Within(umM)' /\ (file # Um!Absent => Within(file)')
  <2>1. umM.media \in Nat /\ Within(umM)
    BY DEF MeterInv, MeterTypes, MeterT
  <2>2. file # Um!Absent => file.media \in Nat /\ Within(file)
    BY DEF MeterInv, MeterTypes, MeterT
  <2> QED
    BY <1>1, <1>2, <1>4, <2>1, <2>2 DEF Within, Kept
<1>6. MeterTypes'
  <2>1. Dated(umM, now)' /\ (file # Um!Absent => Dated(file, now)')
    BY <1>1 DEF MeterInv, MeterTypes, Kept, Dated, Um!Day, Um!Week
  <2> QED
    BY <1>1, <1>2, <1>3, <1>4, <1>5, <2>1 DEF MeterInv, MeterTypes, Kept, Um!Absent, Um!None
<1> QED
  BY <1>1, <1>6, MeterKept DEF Calling

LEMMA TickKeeps ==
  ASSUME MeterInv, Um!Tick
  PROVE  MeterInv'
<1>1. /\ now < MaxTime /\ now' = now + 1 /\ umM' = umM /\ file' = file /\ umPc' = umPc
      /\ answer' = answer /\ overran' = overran /\ damaged' = damaged /\ umOps' = umOps
      /\ ledger' = [hour |-> 0,
                    day |-> IF Um!Day(now') = Um!Day(now) THEN ledger["day"] ELSE 0,
                    week |-> IF Um!Week(now') = Um!Week(now) \/ umM.auth = "supergrok"
                             THEN ledger["week"] ELSE 0]
  BY DEF Um!Tick, Um!meter
<1>2. PICK t : t = now
  OBVIOUS
<1>3. t \in Nat /\ t + 1 \in Nat /\ t + 1 <= MaxTime /\ MaxTime \in Nat /\ now' = t + 1
  BY <1>1, <1>2, MeterAssumption DEF MeterInv, MeterTypes
<1>4. /\ Um!Day(t) \in Nat /\ Um!Week(t) \in Nat /\ Um!Day(t + 1) \in Nat /\ Um!Week(t + 1) \in Nat
      /\ Um!Day(t) <= Um!Day(t + 1) /\ Um!Week(t) <= Um!Week(t + 1)
  BY <1>3, Windows, WindowsAdvance
<1>5. \A r \in MeterT : Dated(r, t) => Dated(r, t + 1)
  BY <1>3, <1>4 DEF Dated, MeterT
<1>6. /\ umM \in MeterT /\ Dated(umM, t) /\ Within(umM)
      /\ file = Um!Absent \/ (file \in MeterT /\ Dated(file, t) /\ Within(file))
      /\ answer \in AnswerT /\ answer.at <= t /\ ledger \in [{"hour", "day", "week"} -> Nat]
      /\ umOps \in 0 .. MeterOps /\ umPc \in [MeterCallers -> {"idle", "calling"}]
      /\ overran \in BOOLEAN /\ damaged \in BOOLEAN
  BY <1>2 DEF MeterInv, MeterTypes
<1>7. Within(umM)'
  BY <1>1, <1>2, <1>3, <1>6 DEF Within, MeterT
<1>8. MeterTypes'
  <2>1. Dated(umM, now)' /\ Within(umM)' /\ umM' \in MeterT
    <3>1. Dated(umM, t + 1) /\ Within(umM)'
      BY <1>5, <1>6, <1>7
    <3> QED
      BY <1>1, <1>3, <1>6, <3>1 DEF Dated, Um!Day, Um!Week
  <2>2. file' = Um!Absent \/ (file' \in MeterT /\ Dated(file, now)' /\ Within(file)')
    <3>1. CASE file = Um!Absent
      BY <1>1, <3>1
    <3>2. CASE file # Um!Absent
      <4>1. Dated(file, t + 1) /\ Within(file)'
        BY <1>1, <1>2, <1>3, <1>5, <1>6, <3>2 DEF Within, MeterT
      <4> QED
        BY <1>1, <1>3, <1>6, <3>2, <4>1 DEF Dated, Um!Day, Um!Week
    <3> QED
      BY <3>1, <3>2
  <2>3. ledger' \in [{"hour", "day", "week"} -> Nat]
    BY <1>1, <1>6
  <2>4. answer'.at <= now' /\ now' \in 0 .. MaxTime
    BY <1>1, <1>3, <1>6, MeterAssumption DEF AnswerT
  <2> QED
    BY <1>1, <1>6, <2>1, <2>2, <2>3, <2>4 DEF MeterTypes, Um!Absent, Um!None
<1>9. \A r \in MeterT : Dated(r, t) => Roll(Roll(r, t), t + 1) = Roll(r, t + 1)
  BY <1>3, RollTwice
<1>10. Roll(umM, now)' = Roll(umM, t + 1) /\ Roll(file, now)' = Roll(file, t + 1)
       /\ Um!Zero(now)' = Um!Zero(t + 1) /\ Um!Absent' = Um!Absent
  BY <1>1, <1>3 DEF Roll, Um!Zero, Um!Absent, Um!None, Um!Day, Um!Week
<1>11. FileInv'
  <2>1. file # Um!Absent => Roll(file, t + 1) = Roll(umM, t + 1)
    <3> SUFFICES ASSUME file # Um!Absent PROVE Roll(file, t + 1) = Roll(umM, t + 1)
      OBVIOUS
    <3>1. Roll(file, t) = Roll(umM, t)
      BY <1>2 DEF MeterInv, FileInv
    <3> QED
      BY <1>6, <1>9, <3>1
  <2>2. file = Um!Absent /\ ~damaged => Roll(umM, t + 1) = Um!Zero(t + 1)
    <3> SUFFICES ASSUME file = Um!Absent, ~damaged PROVE Roll(umM, t + 1) = Um!Zero(t + 1)
      OBVIOUS
    <3>1. Roll(umM, t) = Um!Zero(t)
      BY <1>2 DEF MeterInv, FileInv
    <3>2. Roll(Um!Zero(t), t + 1) = Um!Zero(t + 1)
      BY <1>3, RollZero
    <3> QED
      BY <1>6, <1>9, <3>1, <3>2
  <2> QED
    BY <1>1, <1>10, <2>1, <2>2 DEF FileInv
<1>12. BookInv'
  <2> SUFFICES ASSUME ~damaged
               PROVE  /\ Roll(umM, t + 1).uh = ledger'["hour"] /\ Roll(umM, t + 1).ud = ledger'["day"]
                      /\ Roll(umM, t + 1).uw = ledger'["week"]
    BY <1>1, <1>10 DEF BookInv
  <2>1. PICK v : v = Roll(umM, t)
    OBVIOUS
  <2>2. /\ v \in MeterT /\ Current(v, t) /\ v.auth = umM.auth
    BY <1>3, <1>6, <2>1, RollIs
  <2>3. v.uh = ledger["hour"] /\ v.ud = ledger["day"] /\ v.uw = ledger["week"]
    BY <1>2, <2>1 DEF MeterInv, BookInv
  <2>4. PICK w : w = Roll(v, t + 1)
    OBVIOUS
  <2>5. /\ w.uh = IF v.hour = t + 1 THEN v.uh ELSE 0
        /\ w.ud = IF v.day = Um!Day(t + 1) THEN v.ud ELSE 0
        /\ w.uw = IF v.week # Um!Week(t + 1) /\ v.auth = "iso" THEN 0 ELSE v.uw
    BY <1>3, <2>2, <2>4, RollIs
  <2>6. w = Roll(umM, t + 1)
    BY <1>6, <1>9, <2>1, <2>4
  <2>7. v.hour = t /\ v.day = Um!Day(t) /\ v.week = Um!Week(t) /\ v.auth \in {"iso", "supergrok"}
    BY <2>2 DEF Current, MeterT
  <2>8. /\ ledger'["hour"] = 0
        /\ ledger'["day"] = IF Um!Day(t + 1) = Um!Day(t) THEN ledger["day"] ELSE 0
        /\ ledger'["week"] = IF Um!Week(t + 1) = Um!Week(t) \/ umM.auth = "supergrok"
                             THEN ledger["week"] ELSE 0
    BY <1>1, <1>2, <1>3
  <2>9. w.uh = 0
    BY <1>3, <2>5, <2>7
  <2> QED
    BY <2>2, <2>3, <2>5, <2>6, <2>7, <2>8, <2>9
<1>13. SpendInv'
  BY <1>1 DEF MeterInv, SpendInv, Fund, Calling
<1> QED
  BY <1>8, <1>11, <1>12, <1>13 DEF MeterInv

LEMMA RestartKeeps ==
  ASSUME MeterInv, Um!Restart
  PROVE  MeterInv'
<1>1. PICK y : y = Um!Loaded(file)
  OBVIOUS
<1>2. /\ umM' = y /\ now' = now /\ file' = file /\ ledger' = ledger /\ overran' = overran
      /\ damaged' = damaged /\ umOps < MeterOps /\ umOps' = umOps + 1
      /\ umPc' = [c \in MeterCallers |-> "idle"] /\ answer' = Um!NoSnap
  BY <1>1 DEF Um!Restart, Um!book
<1>3. PICK r : r = Roll(umM, now)
  OBVIOUS
<1>4. /\ now \in Nat /\ now <= MaxTime /\ umOps \in Nat /\ r \in MeterT /\ Dated(r, now) /\ Within(r)
      /\ r.uw <= umM.uw /\ Roll(r, now) = r
  BY <1>3, RolledMeter
<1>5. file = Um!Absent \/ (file \in MeterT /\ Dated(file, now) /\ Within(file))
  BY DEF MeterInv, MeterTypes
<1>6. y = IF file = Um!Absent THEN Um!Zero(now) ELSE r
  <2>1. CASE file = Um!Absent
    BY <1>1, <2>1 DEF Um!Loaded, Um!Absent
  <2>2. CASE file # Um!Absent
    <3>1. file.hour \in Nat
      BY <1>5, <2>2 DEF MeterT
    <3>2. y = Um!Refreshed(file)
      BY <1>1, <3>1 DEF Um!Loaded, Um!None
    <3>3. y = Roll(file, now)
      BY <3>2, RefreshedIs
    <3> QED
      BY <1>3, <2>2, <3>3 DEF MeterInv, FileInv
  <2> QED
    BY <2>1, <2>2
<1>7. /\ y \in MeterT /\ Dated(y, now) /\ Within(y) /\ y.uw <= umM.uw /\ Roll(y, now) = y
  <2>1. CASE file = Um!Absent
    <3>1. y = Um!Zero(now)
      BY <1>6, <2>1
    <3>2. y \in MeterT /\ Current(y, now)
      BY <1>4, <3>1, ZeroIs
    <3>3. /\ y.uw = 0 /\ y.period = Um!Week(now) /\ y.media = 0 /\ y.fetched = 0
          /\ Um!Week(now) \in 0 .. now
      BY <1>4, <3>1, Windows DEF Um!Zero
    <3>4. umM.uw \in Nat /\ Um!Day(now) \in Nat /\ MaxTime \in Nat
      BY <1>4, Windows, MeterAssumption DEF MeterInv, MeterTypes, MeterT
    <3>5. Dated(y, now) /\ Within(y)
      BY <1>4, <3>2, <3>3, <3>4 DEF Dated, Within, Current
    <3> QED
      BY <1>4, <3>2, <3>3, <3>4, <3>5, RollNow
  <2>2. CASE file # Um!Absent
    BY <1>4, <1>6, <2>2
  <2> QED
    BY <2>1, <2>2
<1>8. MeterTypes'
  <2>1. Dated(umM, now)' /\ Within(umM)'
    BY <1>2, <1>4, <1>7 DEF Dated, Within, MeterT, Um!Day, Um!Week
  <2>2. file' = Um!Absent \/ (file' \in MeterT /\ Dated(file, now)' /\ Within(file)')
    BY <1>2, <1>4, <1>5 DEF Dated, Within, MeterT, Um!Day, Um!Week
  <2>3. answer' \in AnswerT /\ answer'.at <= now'
    BY <1>2, <1>4, MeterAssumption DEF Um!NoSnap, AnswerT
  <2>4. umOps' \in 0 .. MeterOps /\ umPc' \in [MeterCallers -> {"idle", "calling"}]
    BY <1>2, <1>4, MeterAssumption
  <2> QED
    BY <1>2, <1>7, <2>1, <2>2, <2>3, <2>4 DEF MeterInv, MeterTypes, Um!Absent, Um!None
<1>9. /\ Roll(umM, now)' = y /\ Roll(file, now)' = Roll(file, now) /\ Um!Zero(now)' = Um!Zero(now)
      /\ Um!Absent' = Um!Absent
  BY <1>2, <1>7 DEF Roll, Um!Zero, Um!Absent, Um!None, Um!Day, Um!Week
<1>10. FileInv'
  BY <1>2, <1>3, <1>6, <1>9 DEF MeterInv, FileInv
<1>11. ~damaged => y = r
  BY <1>3, <1>6 DEF MeterInv, FileInv
<1>12. BookInv'
  BY <1>2, <1>3, <1>9, <1>11 DEF MeterInv, BookInv
<1>13. SpendInv'
  <2>1. Calling' = {}
    BY <1>2 DEF Calling
  <2> QED
    BY <1>2, <1>7, <2>1, SpendLess
<1> QED
  BY <1>8, <1>10, <1>12, <1>13 DEF MeterInv

LEMMA CorruptKeeps ==
  ASSUME MeterInv, Um!Corrupt
  PROVE  MeterInv'
<1>1. /\ file' = Um!Absent /\ damaged' = TRUE /\ now' = now /\ umM' = umM /\ umPc' = umPc
      /\ answer' = answer /\ ledger' = ledger /\ overran' = overran /\ umOps' = umOps
  BY DEF Um!Corrupt
<1>2. MeterTypes'
  BY <1>1 DEF MeterInv, MeterTypes, Dated, Within, Um!Day, Um!Week, Um!Absent, Um!None
<1>3. FileInv' /\ BookInv'
  BY <1>1 DEF FileInv, BookInv, Um!Absent, Um!None
<1>4. SpendInv'
  BY <1>1 DEF MeterInv, SpendInv, Fund, Calling
<1> QED
  BY <1>2, <1>3, <1>4 DEF MeterInv

LEMMA MeterNext == MeterInv /\ [Um!Next]_umVars => MeterInv'
<1> SUFFICES ASSUME MeterInv, [Um!Next]_umVars PROVE MeterInv'
  OBVIOUS
<1>1. CASE UNCHANGED umVars
  <2>1. Kept /\ damaged' = damaged /\ ledger' = ledger /\ overran' = overran /\ umPc' = umPc
        /\ answer' = answer /\ umOps' = umOps
    BY <1>1 DEF umVars, Kept
  <2>2. MeterTypes'
    BY <2>1 DEF MeterInv, MeterTypes, Kept, Dated, Within, Um!Day, Um!Week, Um!Absent, Um!None
  <2> QED
    BY <2>1, <2>2, MeterKept DEF Calling
<1>2. ASSUME NEW c \in MeterCallers, Um!Ask(c) PROVE MeterInv'
  BY <1>2, AskKeeps
<1>3. ASSUME NEW c \in MeterCallers, Um!ReturnFails(c) \/ Um!RecordFails(c) PROVE MeterInv'
  BY <1>3, FailKeeps
<1>4. ASSUME NEW c \in MeterCallers, NEW n \in 1 .. MaxCall, Um!Return(c, n) PROVE MeterInv'
  BY <1>4, ReturnKeeps
<1>5. CASE Um!RecordMediaCall
  BY <1>5, MediaKeeps
<1>6. ASSUME NEW b \in BOOLEAN, Um!SetHardStopOverride(b) PROVE MeterInv'
  BY <1>6, OverrideKeeps
<1>7. CASE Um!SetHardStopOverrideFails \/ Um!FetchBilling \/ Um!ApplyFails
  BY <1>7, QuietKeeps
<1>8. CASE Um!RefreshWindows
  BY <1>8, RefreshKeeps
<1>9. CASE Um!ApplyCreditsSnapshot
  BY <1>9, ApplyKeeps
<1>10. CASE Um!Tick
  BY <1>10, TickKeeps
<1>11. CASE Um!Restart
  BY <1>11, RestartKeeps
<1>12. CASE Um!Corrupt
  BY <1>12, CorruptKeeps
<1> QED
  BY <1>1, <1>2, <1>3, <1>4, <1>5, <1>6, <1>7, <1>8, <1>9, <1>10, <1>11, <1>12 DEF Um!Next

-----------------------------------------------------------------------------
(* What the invariant gives *)

LEMMA MeterTyped == MeterInv => Um!TypeOK
<1> SUFFICES ASSUME MeterInv PROVE Um!TypeOK
  OBVIOUS
<1>1. now \in Nat /\ now <= MaxTime /\ MaxTime \in Nat /\ umOps \in 0 .. MeterOps /\ MeterOps \in Nat
  BY MeterAssumption DEF MeterInv, MeterTypes
<1>2. Um!Day(now) \in 0 .. now /\ Um!Week(now) \in 0 .. now
  BY <1>1, Windows
<1>3. umM \in MeterT /\ Dated(umM, now) /\ Within(umM)
  BY DEF MeterInv, MeterTypes
<1>4. /\ umM.hour \in 0 .. MaxTime /\ umM.day \in 0 .. MaxTime /\ umM.week \in 0 .. MaxTime
      /\ umM.period \in 0 .. MaxTime /\ umM.media \in 0 .. MeterOps /\ umM.fetched \in 0 .. MaxTime
  BY <1>1, <1>2, <1>3 DEF Dated, Within, MeterT
<1>5. umM \in [hour : 0 .. MaxTime, day : 0 .. MaxTime, week : 0 .. MaxTime, auth : {"iso", "supergrok"},
               period : 0 .. MaxTime, uh : Nat, ud : Nat, uw : Nat, media : 0 .. MeterOps,
               override : BOOLEAN, pct : {"none", "low", "high"}, fetched : 0 .. MaxTime]
  BY <1>3, <1>4 DEF MeterT
<1>6. file = Um!Absent \/ file.hour \in 0 .. MaxTime
  <2>1. file = Um!Absent \/ (file \in MeterT /\ Dated(file, now))
    BY DEF MeterInv, MeterTypes
  <2> QED
    BY <1>1, <2>1 DEF Dated, MeterT
<1>7. answer.kind \in {"none", "ok", "percent", "failed"}
  BY DEF MeterInv, MeterTypes, AnswerT
<1> QED
  BY <1>1, <1>5, <1>6, <1>7 DEF Um!TypeOK, MeterInv, MeterTypes

\* More of the period is over, so the pace the same tokens make is no worse.
LEMMA PaceLater ==
  ASSUME NEW r \in MeterT, r.auth = "supergrok", NEW t \in Nat, NEW u \in Nat, t <= u
  PROVE  Um!Band(r, u) <= Um!Band(r, t)
<1>1. WeekLen \in Nat \ {0} /\ WeekLimit \in Nat \ {0} /\ BillShift \in Nat /\ Burst \in Nat
  BY MeterAssumption
<1>2. PICK e : e = Um!Elapsed(r, t)
  OBVIOUS
<1>3. PICK f : f = Um!Elapsed(r, u)
  OBVIOUS
<1>4. e \in 0 .. WeekLen /\ f \in 0 .. WeekLen /\ e <= f
  <2>1. PICK s : s = Um!BillStart(r.period)
    OBVIOUS
  <2>2. s \in Int
    BY <1>1, <2>1 DEF Um!BillStart, MeterT
  <2>3. e = IF t - s < 0 THEN 0 ELSE IF t - s > WeekLen THEN WeekLen ELSE t - s
    BY <1>2, <2>1 DEF Um!Elapsed
  <2>4. f = IF u - s < 0 THEN 0 ELSE IF u - s > WeekLen THEN WeekLen ELSE u - s
    BY <1>3, <2>1 DEF Um!Elapsed
  <2> QED
    BY <1>1, <2>2, <2>3, <2>4
<1>5. r.uw \in Nat
  BY DEF MeterT
<1>6. WeekLimit * e <= WeekLimit * f /\ (5 * WeekLimit) * e <= (5 * WeekLimit) * f
      /\ (7 * WeekLimit) * e <= (7 * WeekLimit) * f
  BY <1>1, <1>4, Scaled
<1>7. /\ WeekLimit * e \in Int /\ WeekLimit * f \in Int /\ (5 * WeekLimit) * e \in Int
      /\ (5 * WeekLimit) * f \in Int /\ (7 * WeekLimit) * e \in Int /\ (7 * WeekLimit) * f \in Int
      /\ r.uw * WeekLen \in Int /\ r.uw * WeekLen * 4 \in Int /\ Burst * WeekLimit \in Int
  BY <1>1, <1>4, <1>5
<1>8. Um!PaceBelow(r, t, 5, 4) => Um!PaceBelow(r, u, 5, 4)
  <2>1. Um!PaceBelow(r, t, 5, 4) <=> r.uw * WeekLen * 4 < (5 * WeekLimit) * e
    BY <1>2 DEF Um!PaceBelow
  <2>2. Um!PaceBelow(r, u, 5, 4) <=> r.uw * WeekLen * 4 < (5 * WeekLimit) * f
    BY <1>3 DEF Um!PaceBelow
  <2> QED
    BY <1>6, <1>7, <2>1, <2>2
<1>9. Um!PaceBelow(r, t, 7, 4) => Um!PaceBelow(r, u, 7, 4)
  <2>1. Um!PaceBelow(r, t, 7, 4) <=> r.uw * WeekLen * 4 < (7 * WeekLimit) * e
    BY <1>2 DEF Um!PaceBelow
  <2>2. Um!PaceBelow(r, u, 7, 4) <=> r.uw * WeekLen * 4 < (7 * WeekLimit) * f
    BY <1>3 DEF Um!PaceBelow
  <2> QED
    BY <1>6, <1>7, <2>1, <2>2
<1>10. r.uw * WeekLen - WeekLimit * e <= Burst * WeekLimit
         => r.uw * WeekLen - WeekLimit * f <= Burst * WeekLimit
  BY <1>6, <1>7
<1>11. Um!Band(r, t) = IF Um!HardLevel(r) # "none" THEN 3
                       ELSE IF r.uw * WeekLen - WeekLimit * e <= Burst * WeekLimit \/ Um!PaceBelow(r, t, 5, 4)
                       THEN 0 ELSE IF Um!PaceBelow(r, t, 7, 4) THEN 1 ELSE 2
  BY <1>2 DEF Um!Band
<1>12. Um!Band(r, u) = IF Um!HardLevel(r) # "none" THEN 3
                       ELSE IF r.uw * WeekLen - WeekLimit * f <= Burst * WeekLimit \/ Um!PaceBelow(r, u, 5, 4)
                       THEN 0 ELSE IF Um!PaceBelow(r, u, 7, 4) THEN 1 ELSE 2
  BY <1>3 DEF Um!Band
<1> HIDE DEF Um!Band
<1> QED
  BY <1>8, <1>9, <1>10, <1>11, <1>12

LEMMA MeterGives == MeterInv => Um!BooksHold
<1> SUFFICES ASSUME MeterInv PROVE Um!BooksHold
  OBVIOUS
<1>1. Um!TypeOK
  BY MeterTyped
<1>2. Um!BooksAgree
  BY RefreshedIs DEF MeterInv, BookInv, Um!BooksAgree
<1>3. Um!RestartIsHarmless
  <2>1. CASE file = Um!Absent
    <3>1. Um!Loaded(file) = Um!Zero(now)
      BY <2>1 DEF Um!Loaded, Um!Absent
    <3> QED
      BY <2>1, <3>1, RefreshedIs DEF MeterInv, FileInv, Um!RestartIsHarmless
  <2>2. CASE file # Um!Absent
    <3>1. file.hour \in Nat
      BY <2>2 DEF MeterInv, MeterTypes, MeterT
    <3>2. Um!Loaded(file) = Um!Refreshed(file)
      BY <3>1 DEF Um!Loaded, Um!None
    <3> QED
      BY <2>2, <3>2, RefreshedIs DEF MeterInv, FileInv, Um!RestartIsHarmless
  <2> QED
    BY <2>1, <2>2
<1>4. Um!OvershootBounded
  <2> SUFFICES ASSUME ~overran
               PROVE  umM.uw <= WeekLimit - 1 + Um!Cardinality(MeterCallers) * MaxCall
    BY DEF Um!OvershootBounded
  <2>1. umM.uw + Cardinality(Calling) * MaxCall <= Fund
    BY DEF MeterInv, SpendInv
  <2>2. Cardinality(Calling) * MaxCall \in Nat /\ Fund \in Int /\ umM.uw \in Nat
    BY CallingFinite, MeterAssumption DEF Fund, MeterInv, MeterTypes, MeterT
  <2>3. umM.uw <= Fund
    BY <2>1, <2>2
  <2>4. Um!Cardinality(MeterCallers) = Cardinality(MeterCallers)
    BY DEF Um!Cardinality, Cardinality
  <2> QED
    BY <2>3, <2>4 DEF Fund
<1>5. Um!PaceEases
  <2> SUFFICES ASSUME NEW r, r = Um!Refreshed(umM), r.auth = "supergrok", NEW t \in now .. MaxTime
               PROVE  Um!Band(r, t) <= Um!Band(r, now)
    BY Zenon DEF Um!PaceEases
  <2>1. r \in MeterT /\ now \in Nat /\ MaxTime \in Nat
    BY RefreshedIs, RolledMeter, MeterAssumption
  <2>2. t \in Nat /\ now <= t
    BY <2>1
  <2> QED
    BY <2>1, <2>2, PaceLater
<1> QED
  BY <1>1, <1>2, <1>3, <1>4, <1>5 DEF Um!BooksHold

\* llm/usage.py, llm/client.py, llm/credits.py: however calls, billing answers, clock,
\* failing writes, restarts and the operator's override interleave, the ledger counts
\* what was spent in its window, a restart changes nothing the gate looks at, calls in
\* flight pass the limit by what each may cost, and waiting makes the pace no worse.
THEOREM BooksKept == RuntimeSpec => []BooksHold
<1>1. RuntimeInit => MeterInv
  BY MeterInit DEF RuntimeInit
<1>2. MeterInv /\ [RuntimeNext]_<<vars, focus, umVars, pvVars, brVars, sbVars, gsVars>> => MeterInv'
  <2>1. [RuntimeNext]_<<vars, focus, umVars, pvVars, brVars, sbVars, gsVars>> => [Um!Next]_umVars
    BY DEF RuntimeNext
  <2> QED
    BY <2>1, MeterNext
<1>3. MeterInv => BooksHold
  BY MeterGives DEF BooksHold
<1> QED
  BY <1>1, <1>2, <1>3, PTL DEF RuntimeSpec

-----------------------------------------------------------------------------
(* The sandbox *)

VmT == [st : {"none", "running", "stopped", "crashed", "draining"}, gen : 1 .. MaxGens,
        policy : SandboxPolicies, site : SUBSET SandboxPkgs]

VmTypes ==
  /\ vm \in VmT
  /\ lock \in {"warm", "tool", "main", "none"}
  /\ con \in 0 .. MaxGens /\ ready \in BOOLEAN /\ fps \in SandboxPolicies \cup {"none"}
  /\ policy \in SandboxPolicies
  /\ lostSite \in BOOLEAN /\ sbCrossed \in BOOLEAN
  /\ reqs \in SUBSET SandboxPkgs /\ orig \in SUBSET SandboxPkgs
  /\ marker \in (SUBSET SandboxPkgs) \cup {Sb!NoMarker}
  /\ sbH \in [Sb!Users -> 0 .. MaxGens]
  /\ digest \in [Sb!Users -> SUBSET SandboxPkgs]
  /\ goal \in [Sb!Users -> {"ensure", "run", "pip"}]

\* Where an ensure may take a thread with this goal, and where a thread may be.
Reaches(g) ==
  Sb!EnsurePcs \cup (IF g = "ensure" THEN {"ensured", "done"}
                     ELSE IF g = "run" THEN {"cached", "exec", "retry"}
                     ELSE {"cached", "pip", "failed"})

Stays(g) ==
  Reaches(g) \cup {"lock"} \cup (IF g = "pip" THEN {"install", "mark"} ELSE {})

ThreadInv ==
  /\ sbPc \in [Sb!Users \cup {"main"} -> Stays("ensure") \cup Stays("run") \cup Stays("pip") \cup
                {"idle", "clear", "up", "join", "mlock", "mstop", "mclear", "mclose", "down"}]
  /\ goal["warm"] # "run" /\ sbPc["warm"] \in Stays(goal["warm"]) \cup {"done"}
  /\ goal["tool"] # "ensure" /\ sbPc["tool"] \in Stays(goal["tool"]) \cup {"idle", "clear"}
  /\ sbPc["tool"] = "clear" => goal["tool"] = "pip"
  /\ sbPc["main"] \in {"up", "join", "mlock", "mstop", "mclear", "mclose", "down"}

\* The lock is held by the thread that is where it needs it.
HoldInv ==
  /\ \A t \in Sb!Users : sbPc[t] \in Sb!LockedPcs <=> lock = t
  /\ lock = "main" => sbPc["main"] \in {"mstop", "mclear"}

UseInv == \A t \in Sb!Users : sbPc[t] \in {"exec", "pip"} => vm.gen = sbH[t] /\ vm.st # "none"

\* A shutdown that waited for the others is alone.
DownInv ==
  /\ sbPc["main"] # "up" => sbStopping
  /\ sbPc["main"] \notin {"up", "join"} /\ ~straggler => sbPc["tool"] = "idle" /\ sbPc["warm"] = "done"
  /\ sbPc["main"] \in {"mclear", "mclose", "down"} /\ ~straggler /\ ~unstopped => vm.st # "running"
  /\ sbPc["main"] \in {"mclose", "down"} /\ ~straggler => con = 0

\* Installs do not overlap, so that the hash of an install is that of the requirements,
\* and what a marker names, or is about to, is on the disk.
Pipping(t) == goal[t] = "pip" /\ sbPc[t] \in Sb!LockedPcs \cup {"lock", "mark"}

InstallInv ==
  /\ vm.st = "none" => vm.site = {}
  /\ ~sbCrossed =>
       /\ goal["warm"] = "pip" /\ sbPc["warm"] \notin {"install", "done"} => ~Sb!Installing("tool")
       /\ \A t \in Sb!Users : Pipping(t) => digest[t] = reqs
  /\ ~sbCrossed /\ ~lostSite =>
       /\ \A t \in Sb!Users : sbPc[t] = "mark" => digest[t] \subseteq vm.site
       /\ marker # Sb!NoMarker => marker \subseteq vm.site

VmInv == VmTypes /\ ThreadInv /\ HoldInv /\ UseInv /\ DownInv /\ InstallInv

LEMMA VmInit ==
  ASSUME Sb!Init
  PROVE  VmInv
<1> USE DEF Sb!Init, Sb!Users
<1>1. VmTypes
  <2>1. vm \in VmT
    BY SandboxAssumption DEF VmT
  <2>2. lostSite = FALSE /\ sbCrossed = FALSE /\ ready = FALSE
    OBVIOUS
  <2>5. lostSite \in BOOLEAN
    BY <2>2, Zenon
  <2>6. sbCrossed \in BOOLEAN
    BY <2>2, Zenon
  <2>7. ready \in BOOLEAN
    BY <2>2, Zenon
  <2>3. marker \in (SUBSET SandboxPkgs) \cup {Sb!NoMarker} /\ reqs \in SUBSET SandboxPkgs
    OBVIOUS
  <2>4. con \in 0 .. MaxGens /\ sbH \in [Sb!Users -> 0 .. MaxGens]
    BY SandboxAssumption
  <2> QED
    BY <2>1, <2>3, <2>4, <2>5, <2>6, <2>7, SandboxAssumption DEF VmTypes
<1>2. ThreadInv
  BY DEF ThreadInv, Stays, Reaches, Sb!EnsurePcs, Sb!Fresh
<1>3. HoldInv /\ UseInv
  BY DEF HoldInv, UseInv, Sb!LockedPcs, Sb!EnsurePcs, Sb!Fresh
<1>4. DownInv
  BY DEF DownInv, Sb!Fresh
<1>5. InstallInv
  BY DEF InstallInv, Pipping, Sb!Fresh, Sb!Installing
<1> QED
  BY <1>1, <1>2, <1>3, <1>4, <1>5 DEF VmInv

\* What one step of with_ready_sandbox and ensure does, whichever it is: it moves one
\* thread along, which holds the lock while it touches the VM, hands out only a VM that
\* is there, and does not lose packages unnoticed.
Along(t) ==
  /\ UNCHANGED <<policy, reqs, orig, marker, digest, sbCrossed, sbStopping, straggler,
                 unstopped, goal>>
  /\ sbPc[t] \in Sb!EnsurePcs \cup {"lock", "cached"}
  /\ sbPc' = [sbPc EXCEPT ![t] = sbPc'[t]] /\ sbPc'[t] \in Reaches(goal[t])

Locks(t) ==
  \/ lock \in {t, "none"} /\ lock' = t /\ sbPc'[t] \in Sb!LockedPcs
  \/ lock = t /\ lock' = "none" /\ sbPc'[t] \notin Sb!LockedPcs
  \/ lock \notin {t, "none"} /\ lock' = lock /\ sbPc'[t] \notin Sb!LockedPcs

Guards(t) ==
  /\ vm' = vm \/ lock = t
  /\ sbPc'[t] \in {"exec", "pip"} => vm'.gen = sbH'[t] /\ vm'.st # "none"
  /\ sbH' = [sbH EXCEPT ![t] = sbH'[t]]
  /\ lostSite => lostSite'
  /\ vm'.site = vm.site \/ lostSite'
  /\ vm'.st = "none" => vm'.site = {}

Typed ==
  /\ vm' \in VmT /\ con' \in 0 .. MaxGens /\ ready' \in BOOLEAN
  /\ lostSite' \in BOOLEAN /\ fps' \in SandboxPolicies \cup {"none"} /\ sbH' \in [Sb!Users -> 0 .. MaxGens]

Ensures(t) == Along(t) /\ Locks(t) /\ Guards(t) /\ Typed

\* What is known of a thread before it.
LEMMA Here ==
  ASSUME NEW t \in Sb!Users, VmInv
  PROVE  /\ DOMAIN sbPc = Sb!Users \cup {"main"} /\ DOMAIN sbH = Sb!Users
         /\ sbPc = [x \in Sb!Users \cup {"main"} |-> sbPc[x]]
         /\ sbH \in [Sb!Users -> 0 .. MaxGens]
         /\ t \in Sb!Users \cup {"main"} /\ t # "none" /\ t # "main"
         /\ lock = t <=> sbPc[t] \in Sb!LockedPcs
         /\ goal[t] \in {"ensure", "run", "pip"}
         /\ sbPc[t] = "cached" => goal[t] # "ensure"
  BY DEF VmInv, VmTypes, ThreadInv, HoldInv, Sb!Users, Stays, Reaches, Sb!EnsurePcs

LEMMA Cleared ==
  ASSUME VmInv, Sb!Clear
  PROVE  con' \in 0 .. MaxGens /\ ready' \in BOOLEAN /\ fps' \in SandboxPolicies \cup {"none"}
<1>1. con' \in 0 .. MaxGens
  BY SandboxAssumption DEF Sb!Clear
<1>2. ready' \in BOOLEAN
  BY Zenon DEF Sb!Clear
<1>3. fps' \in SandboxPolicies \cup {"none"}
  BY DEF Sb!Clear, VmInv, VmTypes
<1> QED
  BY <1>1, <1>2, <1>3

LEMMA EnsureQuiet ==
  ASSUME NEW t \in Sb!Users, VmInv,
         Sb!Acquire(t) \/ Sb!LockTimeout(t) \/ Sb!CachedPing(t) \/ Sb!Get(t) \/ Sb!Connect(t) \/
         Sb!Ping(t) \/ Sb!RecreateGet(t) \/ Sb!Mounts(t) \/ Sb!WallTimeout(t)
  PROVE  Ensures(t)
<1> USE DEF Sb!EnsurePcs, Sb!LockedPcs, Sb!Goto, Sb!cache, Sb!env, Sb!life, Sb!work
<1>vm. (vm.st = "none" => vm.site = {}) /\ vm \in VmT
  BY DEF VmInv, VmTypes, InstallInv
<1>types. con \in 0 .. MaxGens /\ ready \in BOOLEAN /\ fps \in SandboxPolicies \cup {"none"}
       /\ policy \in SandboxPolicies /\ lostSite \in BOOLEAN
  BY DEF VmInv, VmTypes
<1>1. CASE Sb!Acquire(t)
  <2>1. Along(t)
    BY <1>1, Here DEF Sb!Acquire, Along, Reaches
  <2>2. Locks(t)
    BY <1>1, Here DEF Sb!Acquire, Locks
  <2>3. Guards(t)
    BY <1>1, Here, <1>vm, <1>types DEF Sb!Acquire, Guards, VmT
  <2>4. Typed
    BY <1>1, Here, <1>vm, <1>types DEF Sb!Acquire, Typed, VmT
  <2> QED
    BY <2>1, <2>2, <2>3, <2>4 DEF Ensures
<1>2. CASE Sb!LockTimeout(t)
  <2>1. Along(t)
    BY <1>2, Here DEF Sb!LockTimeout, Sb!GiveUp, Along, Reaches
  <2>2. Locks(t)
    BY <1>2, Here DEF Sb!LockTimeout, Sb!GiveUp, Locks
  <2>3. Guards(t)
    BY <1>2, Here, <1>vm, <1>types DEF Sb!LockTimeout, Sb!GiveUp, Guards, VmT
  <2>4. Typed
    BY <1>2, Here, <1>vm, <1>types DEF Sb!LockTimeout, Sb!GiveUp, Typed, VmT
  <2> QED
    BY <2>1, <2>2, <2>3, <2>4 DEF Ensures
<1>3. CASE Sb!CachedPing(t)
  <2>1. Along(t)
    BY <1>3, Here DEF Sb!CachedPing, Sb!Yield, Sb!Alive, Along, Reaches
  <2>2. Locks(t)
    BY <1>3, Here DEF Sb!CachedPing, Sb!Yield, Sb!Alive, Locks
  <2>3. Guards(t)
    BY <1>3, Here, <1>vm, <1>types DEF Sb!CachedPing, Sb!Yield, Sb!Alive, Guards, VmT
  <2>4. Typed
    BY <1>3, Here, <1>vm, <1>types DEF Sb!CachedPing, Sb!Yield, Sb!Alive, Typed, VmT
  <2> QED
    BY <2>1, <2>2, <2>3, <2>4 DEF Ensures
<1>4. CASE Sb!Get(t)
  <2>1. /\ UNCHANGED <<vm, Sb!env, Sb!life, Sb!work, lostSite>> /\ sbPc[t] = "get"
        /\ Sb!Recreate(t) \/ Sb!Degrade(t) \/
           \E l \in Sb!EnsurePcs : Sb!Goto(t, l) /\ UNCHANGED <<Sb!cache, sbH, lock>>
    <3>1. CASE vm.st # "none" /\ (vm.st = "crashed" \/ fps \notin {"none", policy})
      BY <1>4, <3>1 DEF Sb!Get
    <3>2. CASE ~(vm.st # "none" /\ (vm.st = "crashed" \/ fps \notin {"none", policy}))
      <4>1. vm.st \in {"none", "running", "stopped", "draining"}
        BY <3>2, <1>vm DEF VmT
      <4> QED
        BY <1>4, <3>2, <4>1 DEF Sb!Get
    <3> QED
      BY <3>1, <3>2
  <2>2. CASE Sb!Recreate(t)
    BY <2>1, <2>2, Here, SandboxAssumption, <1>vm, <1>types, Cleared
       DEF Sb!Recreate, Ensures, Along, Locks, Guards, Typed, Reaches
  <2>3. CASE Sb!Degrade(t)
    BY <2>1, <2>3, Here, SandboxAssumption, <1>vm, <1>types, Cleared
       DEF Sb!Degrade, Sb!GiveUp, Ensures, Along, Locks, Guards, Typed, Reaches
  <2>4. CASE \E l \in Sb!EnsurePcs : Sb!Goto(t, l) /\ UNCHANGED <<Sb!cache, sbH, lock>>
    BY <2>1, <2>4, Here, SandboxAssumption, <1>vm, <1>types, Cleared
       DEF Ensures, Along, Locks, Guards, Typed, Reaches
  <2> QED
    BY <2>1, <2>2, <2>3, <2>4
<1>5. CASE Sb!Connect(t)
  <2>1. Along(t)
    BY <1>5, Here DEF Sb!Connect, Sb!Recreate, Sb!Clear, Along, Reaches
  <2>2. Locks(t)
    BY <1>5, Here DEF Sb!Connect, Sb!Recreate, Sb!Clear, Locks
  <2>3. Guards(t)
    BY <1>5, Here, <1>vm, <1>types DEF Sb!Connect, Sb!Recreate, Sb!Clear, Guards, VmT
  <2>4. Typed
    BY <1>5, Here, <1>vm, <1>types, Cleared DEF Sb!Connect, Sb!Recreate, Typed, VmT
  <2> QED
    BY <2>1, <2>2, <2>3, <2>4 DEF Ensures
<1>6. CASE Sb!Ping(t)
  <2>1. Along(t)
    BY <1>6, Here DEF Sb!Ping, Sb!Alive, Sb!Recreate, Sb!Clear, Along, Reaches
  <2>2. Locks(t)
    BY <1>6, Here DEF Sb!Ping, Sb!Alive, Sb!Recreate, Sb!Clear, Locks
  <2>3. Guards(t)
    BY <1>6, Here, <1>vm, <1>types DEF Sb!Ping, Sb!Alive, Sb!Recreate, Sb!Clear, Guards, VmT
  <2>4. Typed
    BY <1>6, Here, <1>vm, <1>types, Cleared DEF Sb!Ping, Sb!Alive, Sb!Recreate, Typed, VmT
  <2> QED
    BY <2>1, <2>2, <2>3, <2>4 DEF Ensures
<1>7. CASE Sb!RecreateGet(t)
  <2>1. Along(t)
    BY <1>7, Here DEF Sb!RecreateGet, Along, Reaches
  <2>2. Locks(t)
    BY <1>7, Here DEF Sb!RecreateGet, Locks
  <2>3. Guards(t)
    BY <1>7, Here, <1>vm, <1>types DEF Sb!RecreateGet, Guards, VmT
  <2>4. Typed
    BY <1>7, Here, <1>vm, <1>types DEF Sb!RecreateGet, Typed, VmT
  <2> QED
    BY <2>1, <2>2, <2>3, <2>4 DEF Ensures
<1>8. CASE Sb!Mounts(t)
  <2>1. Along(t)
    BY <1>8, Here DEF Sb!Mounts, Sb!ProbesPass, Sb!Alive, Sb!Yield, Sb!Degrade, Sb!Clear,
       Sb!GiveUp, Along, Reaches
  <2>2. Locks(t)
    BY <1>8, Here DEF Sb!Mounts, Sb!ProbesPass, Sb!Alive, Sb!Yield, Sb!Degrade, Sb!Clear,
       Sb!GiveUp, Locks
  <2>3. Guards(t)
    BY <1>8, Here, <1>vm, <1>types DEF Sb!Mounts, Sb!ProbesPass, Sb!Alive, Sb!Yield, Sb!Degrade,
       Sb!Clear, Sb!GiveUp, Guards, VmT
  <2>4. Typed
    <3>1. sbH \in [Sb!Users -> 0 .. MaxGens] /\ sbH[t] \in 0 .. MaxGens /\ UNCHANGED <<vm, lostSite>>
      BY <1>8, Here DEF Sb!Mounts
    <3>2. CASE con' = sbH[t] /\ ready' = TRUE /\ fps' = policy /\ Sb!Yield(t, sbH[t])
      <4>1. ready' \in BOOLEAN
        BY <3>2, Zenon
      <4>2. sbH' = [sbH EXCEPT ![t] = sbH[t]]
        BY <3>2 DEF Sb!Yield
      <4> QED
        BY <3>1, <3>2, <4>1, <4>2, <1>vm, <1>types DEF Typed
    <3>3. CASE Sb!Degrade(t)
      BY <3>1, <3>3, <1>vm, <1>types, Cleared DEF Sb!Degrade, Typed
    <3> QED
      BY <1>8, <3>2, <3>3 DEF Sb!Mounts
  <2> QED
    BY <2>1, <2>2, <2>3, <2>4 DEF Ensures
<1>9. CASE Sb!WallTimeout(t)
  <2>1. Along(t)
    BY <1>9, Here DEF Sb!WallTimeout, Sb!Degrade, Sb!Clear, Sb!GiveUp, Along, Reaches
  <2>2. Locks(t)
    BY <1>9, Here DEF Sb!WallTimeout, Sb!Degrade, Sb!Clear, Sb!GiveUp, Locks
  <2>3. Guards(t)
    BY <1>9, Here, <1>vm, <1>types DEF Sb!WallTimeout, Sb!Degrade, Sb!Clear, Sb!GiveUp, Guards,
       VmT
  <2>4. Typed
    BY <1>9, Here, <1>vm, <1>types, Cleared DEF Sb!WallTimeout, Sb!Degrade, Sb!GiveUp, Typed, VmT
  <2> QED
    BY <2>1, <2>2, <2>3, <2>4 DEF Ensures
<1> QED
  BY <1>1, <1>2, <1>3, <1>4, <1>5, <1>6, <1>7, <1>8, <1>9

LEMMA EnsureActs ==
  ASSUME NEW t \in Sb!Users, VmInv,
         Sb!Start(t) \/ Sb!Drain(t) \/ Sb!Kill(t) \/ Sb!Remove(t) \/ Sb!Create(t)
  PROVE  Ensures(t)
<1> USE DEF Sb!EnsurePcs, Sb!LockedPcs, Sb!Goto, Sb!cache, Sb!env, Sb!life, Sb!work
<1>vm. (vm.st = "none" => vm.site = {}) /\ vm \in VmT
  BY DEF VmInv, VmTypes, InstallInv
<1>types. con \in 0 .. MaxGens /\ ready \in BOOLEAN /\ fps \in SandboxPolicies \cup {"none"}
       /\ policy \in SandboxPolicies /\ lostSite \in BOOLEAN
  BY DEF VmInv, VmTypes
<1>1. CASE Sb!Start(t)
  <2>1. Along(t)
    BY <1>1, Here DEF Sb!Start, Sb!Recreate, Sb!Clear, Along, Reaches
  <2>2. Locks(t)
    BY <1>1, Here DEF Sb!Start, Sb!Recreate, Sb!Clear, Locks
  <2>3. Guards(t)
    BY <1>1, Here, <1>vm, <1>types DEF Sb!Start, Sb!Recreate, Sb!Clear, Guards, VmT
  <2>4. Typed
    BY <1>1, Here, <1>vm, <1>types, Cleared DEF Sb!Start, Sb!Recreate, Typed, VmT
  <2> QED
    BY <2>1, <2>2, <2>3, <2>4 DEF Ensures
<1>2. CASE Sb!Drain(t)
  <2>1. Along(t)
    BY <1>2, Here DEF Sb!Drain, Sb!Recreate, Sb!Clear, Along, Reaches
  <2>2. Locks(t)
    BY <1>2, Here DEF Sb!Drain, Sb!Recreate, Sb!Clear, Locks
  <2>3. Guards(t)
    BY <1>2, Here, <1>vm, <1>types DEF Sb!Drain, Sb!Recreate, Sb!Clear, Guards, VmT
  <2>4. Typed
    BY <1>2, Here, <1>vm, <1>types, Cleared DEF Sb!Drain, Sb!Recreate, Typed, VmT
  <2> QED
    BY <2>1, <2>2, <2>3, <2>4 DEF Ensures
<1>3. CASE Sb!Kill(t)
  <2>1. Along(t)
    BY <1>3, Here DEF Sb!Kill, Along, Reaches
  <2>2. Locks(t)
    BY <1>3, Here DEF Sb!Kill, Locks
  <2>3. Guards(t)
    BY <1>3, Here, <1>vm, <1>types DEF Sb!Kill, Guards, VmT
  <2>4. Typed
    BY <1>3, Here, <1>vm, <1>types DEF Sb!Kill, Typed, VmT
  <2> QED
    BY <2>1, <2>2, <2>3, <2>4 DEF Ensures
<1>4. CASE Sb!Remove(t)
  <2>1. Along(t)
    BY <1>4, Here DEF Sb!Remove, Along, Reaches
  <2>2. Locks(t)
    BY <1>4, Here DEF Sb!Remove, Locks
  <2>3. Guards(t)
    BY <1>4, Here, <1>vm, <1>types DEF Sb!Remove, Guards, VmT
  <2>4. Typed
    BY <1>4, Here, <1>vm, <1>types DEF Sb!Remove, Typed, VmT
  <2> QED
    BY <2>1, <2>2, <2>3, <2>4 DEF Ensures
<1>5. CASE Sb!Create(t)
  <2>1. Along(t)
    BY <1>5, Here DEF Sb!Create, Sb!Created, Sb!Degrade, Sb!Clear, Sb!GiveUp, Along, Reaches
  <2>2. Locks(t)
    BY <1>5, Here DEF Sb!Create, Sb!Created, Sb!Degrade, Sb!Clear, Sb!GiveUp, Locks
  <2>. vm.gen \in 1 .. MaxGens /\ vm.gen + 1 \in 1 .. MaxGens
    BY <1>5, <1>vm, SandboxAssumption DEF Sb!Create, VmT
  <2>3. Guards(t)
    <3>1. lock = t /\ sbPc'[t] \notin {"exec", "pip"} /\ lostSite' = lostSite
      BY <1>5, Here DEF Sb!Create, Sb!Degrade, Sb!GiveUp
    <3>2. sbH' = [sbH EXCEPT ![t] = sbH'[t]]
      BY <1>5, Here DEF Sb!Create, Sb!Degrade
    <3>3. vm' = vm \/ (vm'.site = vm.site /\ vm'.st # "none")
      <4>1. vm' = vm \/ (vm.st = "none" /\ vm' = Sb!Created)
        BY <1>5 DEF Sb!Create
      <4>2. Sb!Created.site = {} /\ Sb!Created.st = "running"
        BY DEF Sb!Created
      <4> QED
        BY <4>1, <4>2, <1>vm
    <3> QED
      BY <3>1, <3>2, <3>3, <1>vm DEF Guards
  <2>4. Typed
    <3>1. Sb!Created \in VmT
      BY <1>types DEF Sb!Created, VmT
    <3>2. vm' \in VmT /\ lostSite' = lostSite
      BY <1>5, <1>vm, <3>1 DEF Sb!Create
    <3>3. sbH' \in [Sb!Users -> 0 .. MaxGens]
      BY <1>5, Here DEF Sb!Create, Sb!Degrade
    <3>4. con' \in 0 .. MaxGens /\ ready' \in BOOLEAN /\ fps' \in SandboxPolicies \cup {"none"}
      BY <1>5, <1>types, Cleared DEF Sb!Create, Sb!Degrade
    <3> QED
      BY <3>2, <3>3, <3>4, <1>types DEF Typed
  <2> QED
    BY <2>1, <2>2, <2>3, <2>4 DEF Ensures
<1> QED
  BY <1>1, <1>2, <1>3, <1>4, <1>5

LEMMA EnsureKeeps ==
  ASSUME NEW t \in Sb!Users, VmInv, Ensures(t)
  PROVE  VmInv'
<1>1. /\ sbPc' = [sbPc EXCEPT ![t] = sbPc'[t]] /\ sbPc'[t] \in Reaches(goal[t])
      /\ UNCHANGED <<policy, reqs, orig, marker, digest, sbCrossed, sbStopping, straggler,
                     unstopped, goal>>
      /\ sbPc[t] \in Sb!EnsurePcs \cup {"lock", "cached"} /\ Locks(t) /\ Guards(t) /\ Typed
  BY DEF Ensures, Along
<1>2. \A u \in Sb!Users \cup {"main"} : u # t => sbPc'[u] = sbPc[u]
  BY <1>1, Here
<1>3. \A u \in Sb!Users : u # t => sbH'[u] = sbH[u]
  BY <1>1, Here DEF Guards
<1>4. VmTypes'
  BY <1>1, Here DEF VmInv, VmTypes, Locks, Typed, Sb!Users
<1>5. ThreadInv'
  <2>1. sbPc'[t] \in Stays(goal[t]) /\ sbPc'[t] # "clear"
    BY <1>1 DEF Stays, Reaches, Sb!EnsurePcs
  <2>2. sbPc' \in [Sb!Users \cup {"main"} -> Stays("ensure") \cup Stays("run") \cup Stays("pip") \cup
                {"idle", "clear", "up", "join", "mlock", "mstop", "mclear", "mclose", "down"}]
    BY <1>1, <2>1, Here DEF VmInv, ThreadInv
  <2> QED
    BY <1>1, <1>2, <2>1, <2>2, Here DEF VmInv, ThreadInv, Sb!Users
<1>6. HoldInv'
  BY <1>1, <1>2, Here DEF VmInv, HoldInv, Locks, Sb!Users
<1>7. UseInv'
  BY <1>1, <1>2, <1>3, Here DEF VmInv, UseInv, Guards, Sb!LockedPcs
<1>8. DownInv'
  <2>1. sbPc["tool"] # "idle" \/ sbPc["warm"] # "done"
    BY <1>1 DEF Sb!Users, Sb!EnsurePcs
  <2> QED
    BY <1>1, <1>2, <2>1, Here DEF VmInv, DownInv, Sb!Users
<1>9. InstallInv'
  <2>1. sbPc'[t] \notin {"idle", "install", "mark"} /\ (goal[t] = "pip" => sbPc'[t] # "done")
    BY <1>1 DEF Reaches, Sb!EnsurePcs
  <2>2. Sb!Installing("tool")' <=> Sb!Installing("tool")
    BY <1>1, <1>2, <2>1, Here DEF Sb!Installing, Sb!EnsurePcs, Sb!Users
  <2>3. \A u \in Sb!Users : Pipping(u)' => Pipping(u)
    BY <1>1, <1>2, Here DEF Pipping, Sb!LockedPcs
  <2>4. goal["warm"] = "pip" /\ sbPc'["warm"] \notin {"install", "done"}
          => sbPc["warm"] \notin {"install", "done"}
    BY <1>1, <1>2 DEF Sb!Users, Sb!EnsurePcs
  <2>5. ~lostSite' => ~lostSite /\ vm'.site = vm.site
    BY <1>1 DEF Guards
  <2>6. vm'.st = "none" => vm'.site = {}
    BY <1>1 DEF Guards
  <2>7. \A u \in Sb!Users : sbPc'[u] = "mark" => sbPc[u] = "mark"
    BY <1>2, <2>1
  <2> QED
    BY <1>1, <2>2, <2>3, <2>4, <2>5, <2>6, <2>7 DEF VmInv, InstallInv
<1> QED
  BY <1>4, <1>5, <1>6, <1>7, <1>8, <1>9 DEF VmInv

LEMMA CommandKeeps ==
  ASSUME VmInv, Sb!Run \/ Sb!Exec \/ Sb!Retry \/ Sb!Update \/ Sb!ClearMarker \/ Sb!WarmReady
  PROVE  VmInv'
<1> USE DEF Sb!Users, Sb!EnsurePcs, Sb!LockedPcs, Sb!Goto, Sb!cache, Sb!env, Sb!life, Sb!work
<1>1. CASE Sb!Run
  <2>1. VmTypes'
    BY <1>1, Here DEF Sb!Run, VmInv, VmTypes, VmT
  <2>2. ThreadInv'
    BY <1>1, Here DEF Sb!Run, VmInv, ThreadInv, Stays, Reaches
  <2>3. HoldInv'
    BY <1>1, Here DEF Sb!Run, VmInv, HoldInv
  <2>4. UseInv'
    BY <1>1, Here DEF Sb!Run, VmInv, UseInv, HoldInv
  <2>5. DownInv'
    BY <1>1, Here DEF Sb!Run, VmInv, DownInv
  <2>6. InstallInv'
    BY <1>1, Here DEF Sb!Run, VmInv, InstallInv, ThreadInv, VmTypes, Pipping, Sb!Installing
  <2> QED
    BY <2>1, <2>2, <2>3, <2>4, <2>5, <2>6 DEF VmInv
<1>2. CASE Sb!Exec
  <2>1. VmTypes'
    BY <1>2, Here DEF Sb!Exec, VmInv, VmTypes, VmT
  <2>2. ThreadInv'
    BY <1>2, Here DEF Sb!Exec, VmInv, ThreadInv, Stays, Reaches
  <2>3. HoldInv'
    BY <1>2, Here DEF Sb!Exec, VmInv, HoldInv
  <2>4. UseInv'
    BY <1>2, Here DEF Sb!Exec, VmInv, UseInv, HoldInv
  <2>5. DownInv'
    BY <1>2, Here DEF Sb!Exec, VmInv, DownInv
  <2>6. InstallInv'
    BY <1>2, Here DEF Sb!Exec, VmInv, InstallInv, ThreadInv, VmTypes, Pipping, Sb!Installing
  <2> QED
    BY <2>1, <2>2, <2>3, <2>4, <2>5, <2>6 DEF VmInv
<1>3. CASE Sb!Retry
  <2>1. VmTypes'
    <3>1. con' \in 0 .. MaxGens /\ ready' \in BOOLEAN /\ fps' \in SandboxPolicies \cup {"none"}
      BY <1>3, Cleared DEF Sb!Retry, VmInv, VmTypes
    <3> QED
      BY <1>3, <3>1 DEF Sb!Retry, VmInv, VmTypes
  <2>2. ThreadInv'
    BY <1>3, Here DEF Sb!Retry, Sb!Clear, VmInv, ThreadInv, Stays, Reaches
  <2>3. HoldInv'
    BY <1>3, Here DEF Sb!Retry, Sb!Clear, VmInv, HoldInv
  <2>4. UseInv'
    BY <1>3, Here DEF Sb!Retry, Sb!Clear, VmInv, UseInv, HoldInv
  <2>5. DownInv'
    BY <1>3, Here DEF Sb!Retry, Sb!Clear, VmInv, DownInv
  <2>6. InstallInv'
    <3>1. /\ sbPc["tool"] = "retry" /\ goal["tool"] # "pip"
          /\ UNCHANGED <<vm, goal, reqs, digest, marker, sbCrossed, lostSite>>
          /\ sbPc'["warm"] = sbPc["warm"] /\ sbPc'["tool"] # "mark"
      BY <1>3, Here DEF Sb!Retry, VmInv, ThreadInv, Stays, Reaches
    <3> QED
      BY <3>1 DEF VmInv, InstallInv, Pipping, Sb!Installing
  <2> QED
    BY <2>1, <2>2, <2>3, <2>4, <2>5, <2>6 DEF VmInv
<1>4. CASE Sb!Update
  <2>1. VmTypes'
    BY <1>4, Here DEF Sb!Update, Sb!Changed, Sb!Installing, VmInv, VmTypes, VmT
  <2>2. ThreadInv'
    BY <1>4, Here DEF Sb!Update, VmInv, VmTypes, ThreadInv, Stays, Reaches
  <2>3. HoldInv'
    BY <1>4, Here DEF Sb!Update, Sb!Changed, Sb!Installing, VmInv, HoldInv
  <2>4. UseInv'
    BY <1>4, Here DEF Sb!Update, Sb!Changed, Sb!Installing, VmInv, UseInv, HoldInv
  <2>5. DownInv'
    BY <1>4, Here DEF Sb!Update, Sb!Changed, Sb!Installing, VmInv, DownInv
  <2>6. InstallInv'
    <3>1. /\ UNCHANGED <<vm, lostSite, marker, digest>>
          /\ sbPc' = [sbPc EXCEPT !["tool"] = "clear"] /\ goal' = [goal EXCEPT !["tool"] = "pip"]
          /\ sbCrossed' = (sbCrossed \/ Sb!Installing("warm"))
      BY <1>4 DEF Sb!Update
    <3>2. /\ sbPc'["tool"] = "clear" /\ sbPc'["warm"] = sbPc["warm"] /\ goal'["warm"] = goal["warm"]
      BY <3>1, Here DEF VmInv, VmTypes
    <3>3. ~sbCrossed' => ~sbCrossed /\ (goal["warm"] = "pip" => sbPc["warm"] \in {"idle", "done"})
      BY <3>1 DEF Sb!Installing
    <3>4. ~sbCrossed' => (Pipping("warm")' => FALSE) /\ (Pipping("tool")' => FALSE)
      BY <3>2, <3>3 DEF Pipping
    <3>5. goal'["warm"] = "pip" /\ sbPc'["warm"] \notin {"install", "done"} => sbCrossed'
      BY <3>2, <3>3, Here DEF VmInv, ThreadInv, Stays, Reaches
    <3> QED
      BY <3>1, <3>2, <3>3, <3>4, <3>5 DEF VmInv, InstallInv
  <2> QED
    BY <2>1, <2>2, <2>3, <2>4, <2>5, <2>6 DEF VmInv
<1>5. CASE Sb!ClearMarker
  <2>1. VmTypes'
    BY <1>5, Here DEF Sb!ClearMarker, VmInv, VmTypes, VmT
  <2>2. ThreadInv'
    BY <1>5, Here DEF Sb!ClearMarker, VmInv, ThreadInv, Stays, Reaches
  <2>3. HoldInv'
    BY <1>5, Here DEF Sb!ClearMarker, VmInv, HoldInv
  <2>4. UseInv'
    BY <1>5, Here DEF Sb!ClearMarker, VmInv, UseInv, HoldInv
  <2>5. DownInv'
    BY <1>5, Here DEF Sb!ClearMarker, VmInv, DownInv
  <2>6. InstallInv'
    BY <1>5, Here DEF Sb!ClearMarker, VmInv, InstallInv, ThreadInv, VmTypes, Pipping,
       Sb!Installing
  <2> QED
    BY <2>1, <2>2, <2>3, <2>4, <2>5, <2>6 DEF VmInv
<1>6. CASE Sb!WarmReady
  <2>1. VmTypes'
    BY <1>6, Here DEF Sb!WarmReady, VmInv, VmTypes, VmT
  <2>2. ThreadInv'
    BY <1>6, Here DEF Sb!WarmReady, VmInv, VmTypes, ThreadInv, Stays, Reaches
  <2>3. HoldInv'
    BY <1>6, Here DEF Sb!WarmReady, VmInv, HoldInv
  <2>4. UseInv'
    BY <1>6, Here DEF Sb!WarmReady, VmInv, UseInv, HoldInv
  <2>5. DownInv'
    BY <1>6, Here DEF Sb!WarmReady, VmInv, DownInv
  <2>6. InstallInv'
    BY <1>6, Here DEF Sb!WarmReady, VmInv, InstallInv, ThreadInv, VmTypes, Pipping, Sb!Installing
  <2> QED
    BY <2>1, <2>2, <2>3, <2>4, <2>5, <2>6 DEF VmInv
<1> QED
  BY <1>1, <1>2, <1>3, <1>4, <1>5, <1>6

LEMMA PackageKeeps ==
  ASSUME NEW t \in Sb!Users, VmInv, Sb!Install(t) \/ Sb!Pip(t) \/ Sb!Mark(t) \/ Sb!Failed(t)
  PROVE  VmInv'
<1> USE DEF Sb!Users, Sb!EnsurePcs, Sb!LockedPcs, Sb!Goto, Sb!cache, Sb!env, Sb!life, Sb!work
<1>1. CASE Sb!Install(t)
  <2>1. VmTypes'
    BY <1>1, Here DEF Sb!Install, Sb!Other, Sb!Installing, VmInv, VmTypes, VmT
  <2>2. ThreadInv'
    BY <1>1, Here DEF Sb!Install, Sb!Other, Sb!Installing, VmInv, ThreadInv, Stays, Reaches
  <2>3. HoldInv'
    BY <1>1, Here DEF Sb!Install, Sb!Other, Sb!Installing, VmInv, HoldInv
  <2>4. UseInv'
    BY <1>1, Here DEF Sb!Install, Sb!Other, Sb!Installing, VmInv, UseInv, HoldInv
  <2>5. DownInv'
    BY <1>1, Here DEF Sb!Install, Sb!Other, Sb!Installing, VmInv, DownInv
  <2>6. InstallInv'
    BY <1>1, Here, ZenonT(60) DEF Sb!Install, Sb!Other, Sb!Installing, VmInv, InstallInv, ThreadInv,
       VmTypes, Pipping
  <2> QED
    BY <2>1, <2>2, <2>3, <2>4, <2>5, <2>6 DEF VmInv
<1>2. CASE Sb!Pip(t)
  <2>1. VmTypes'
    BY <1>2, Here DEF Sb!Pip, VmInv, VmTypes, VmT
  <2>2. ThreadInv'
    BY <1>2, Here DEF Sb!Pip, VmInv, ThreadInv, Stays, Reaches
  <2>3. HoldInv'
    BY <1>2, Here DEF Sb!Pip, VmInv, HoldInv
  <2>4. UseInv'
    BY <1>2, Here DEF Sb!Pip, VmInv, UseInv, HoldInv
  <2>5. DownInv'
    BY <1>2, Here DEF Sb!Pip, VmInv, DownInv
  <2>6. InstallInv'
    <3>1. /\ UNCHANGED <<goal, reqs, digest, marker, sbCrossed, lostSite>> /\ sbPc[t] = "pip"
          /\ \/ sbPc' = [sbPc EXCEPT ![t] = "mark"] /\ vm' = [vm EXCEPT !.site = @ \cup reqs]
             \/ /\ sbPc' = [sbPc EXCEPT ![t] = "failed"]
                /\ \/ vm' = vm
                   \/ \E part \in SUBSET reqs : vm' = [vm EXCEPT !.site = @ \cup part]
      BY <1>2 DEF Sb!Pip
    <3>2. /\ vm'.st = vm.st /\ vm.site \subseteq vm'.site /\ vm.st # "none" /\ goal[t] = "pip"
          /\ sbPc'[t] \in {"mark", "failed"} /\ (sbPc'[t] = "mark" => reqs \subseteq vm'.site)
      BY <3>1, Here DEF VmInv, VmTypes, VmT, UseInv, ThreadInv, Stays, Reaches
    <3>3. \A u \in Sb!Users : u # t => sbPc'[u] = sbPc[u]
      BY <3>1, Here
    <3>4. Sb!Installing("tool")' <=> Sb!Installing("tool")
      BY <3>1, <3>2, <3>3 DEF Sb!Installing
    <3>5. \A u \in Sb!Users : Pipping(u)' => Pipping(u)
      BY <3>1, <3>2, <3>3 DEF Pipping
    <3>6. goal["warm"] = "pip" /\ sbPc'["warm"] \notin {"install", "done"}
            => sbPc["warm"] \notin {"install", "done"}
      BY <3>1, <3>3
    <3>7. ~sbCrossed => Pipping(t) /\ digest[t] = reqs
      BY <3>1, <3>2 DEF Pipping, VmInv, InstallInv
    <3> QED
      BY <3>1, <3>2, <3>3, <3>4, <3>5, <3>6, <3>7 DEF VmInv, InstallInv
  <2> QED
    BY <2>1, <2>2, <2>3, <2>4, <2>5, <2>6 DEF VmInv
<1>3. CASE Sb!Mark(t)
  <2>1. VmTypes'
    BY <1>3, Here DEF Sb!Mark, VmInv, VmTypes, VmT
  <2>2. ThreadInv'
    BY <1>3, Here DEF Sb!Mark, VmInv, ThreadInv, Stays, Reaches
  <2>3. HoldInv'
    BY <1>3, Here DEF Sb!Mark, VmInv, HoldInv
  <2>4. UseInv'
    BY <1>3, Here DEF Sb!Mark, VmInv, UseInv, HoldInv
  <2>5. DownInv'
    BY <1>3, Here DEF Sb!Mark, VmInv, DownInv
  <2>6. InstallInv'
    BY <1>3, Here DEF Sb!Mark, VmInv, InstallInv, ThreadInv, VmTypes, Pipping, Sb!Installing
  <2> QED
    BY <2>1, <2>2, <2>3, <2>4, <2>5, <2>6 DEF VmInv
<1>4. CASE Sb!Failed(t)
  <2>1. VmTypes'
    BY <1>4, Here DEF Sb!Failed, VmInv, VmTypes, VmT
  <2>2. ThreadInv'
    BY <1>4, Here DEF Sb!Failed, VmInv, ThreadInv, Stays, Reaches
  <2>3. HoldInv'
    BY <1>4, Here DEF Sb!Failed, VmInv, HoldInv
  <2>4. UseInv'
    BY <1>4, Here DEF Sb!Failed, VmInv, UseInv, HoldInv
  <2>5. DownInv'
    BY <1>4, Here DEF Sb!Failed, VmInv, DownInv
  <2>6. InstallInv'
    <3>1. /\ UNCHANGED <<vm, goal, digest, sbCrossed, lostSite>> /\ sbPc[t] = "failed"
          /\ sbPc' = [sbPc EXCEPT ![t] = IF t = "warm" THEN "done" ELSE "idle"]
          /\ t = "warm" => UNCHANGED <<reqs, marker>>
          /\ t # "warm" => marker' = Sb!NoMarker
      BY <1>4 DEF Sb!Failed
    <3>2. goal[t] = "pip" /\ \A u \in Sb!Users : u # t => sbPc'[u] = sbPc[u]
      BY <3>1, Here DEF VmInv, ThreadInv, Stays, Reaches
    <3>3. CASE t = "warm"
      BY <3>1, <3>2, <3>3, Here DEF VmInv, InstallInv, Pipping, Sb!Installing
    <3>4. CASE t = "tool"
      <4>1. sbPc'["tool"] = "idle" /\ Sb!Installing("tool") /\ sbPc'["warm"] = sbPc["warm"]
        BY <3>1, <3>2, <3>4, Here DEF Sb!Installing
      <4>2. ~sbCrossed => ~Pipping("warm")
        BY <4>1 DEF VmInv, InstallInv, Pipping
      <4> QED
        BY <3>1, <3>4, <4>1, <4>2 DEF VmInv, InstallInv, Pipping, Sb!Installing
    <3> QED
      BY <3>3, <3>4
  <2> QED
    BY <2>1, <2>2, <2>3, <2>4, <2>5, <2>6 DEF VmInv
<1> QED
  BY <1>1, <1>2, <1>3, <1>4

LEMMA MainKeeps ==
  ASSUME VmInv, Sb!Stop \/ Sb!Join \/ Sb!MainLock \/ Sb!MainStop \/ Sb!MainClear \/ Sb!MainClose
  PROVE  VmInv'
<1> USE DEF Sb!Users, Sb!EnsurePcs, Sb!LockedPcs, Sb!Goto, Sb!cache, Sb!env, Sb!life, Sb!work
<1>1. CASE Sb!Stop
  <2>1. VmTypes'
    BY <1>1, Here DEF Sb!Stop, VmInv, VmTypes, VmT
  <2>2. ThreadInv'
    BY <1>1, Here DEF Sb!Stop, VmInv, ThreadInv, Stays, Reaches
  <2>3. HoldInv'
    BY <1>1, Here DEF Sb!Stop, VmInv, HoldInv
  <2>4. UseInv'
    BY <1>1, Here DEF Sb!Stop, VmInv, UseInv, HoldInv
  <2>5. DownInv'
    BY <1>1, Here DEF Sb!Stop, VmInv, DownInv
  <2>6. InstallInv'
    BY <1>1, Here DEF Sb!Stop, VmInv, InstallInv, ThreadInv, VmTypes, Pipping, Sb!Installing
  <2> QED
    BY <2>1, <2>2, <2>3, <2>4, <2>5, <2>6 DEF VmInv
<1>2. CASE Sb!Join
  <2>1. VmTypes'
    BY <1>2, Here DEF Sb!Join, VmInv, VmTypes, VmT
  <2>2. ThreadInv'
    BY <1>2, Here DEF Sb!Join, VmInv, ThreadInv, Stays, Reaches
  <2>3. HoldInv'
    BY <1>2, Here DEF Sb!Join, VmInv, HoldInv
  <2>4. UseInv'
    BY <1>2, Here DEF Sb!Join, VmInv, UseInv, HoldInv
  <2>5. DownInv'
    BY <1>2, Here DEF Sb!Join, VmInv, DownInv
  <2>6. InstallInv'
    BY <1>2, Here DEF Sb!Join, VmInv, InstallInv, ThreadInv, VmTypes, Pipping, Sb!Installing
  <2> QED
    BY <2>1, <2>2, <2>3, <2>4, <2>5, <2>6 DEF VmInv
<1>3. CASE Sb!MainLock
  <2>1. VmTypes'
    BY <1>3, Here DEF Sb!MainLock, VmInv, VmTypes, VmT
  <2>2. ThreadInv'
    BY <1>3, Here DEF Sb!MainLock, VmInv, ThreadInv, Stays, Reaches
  <2>3. HoldInv'
    BY <1>3, Here DEF Sb!MainLock, VmInv, HoldInv
  <2>4. UseInv'
    BY <1>3, Here DEF Sb!MainLock, VmInv, UseInv, HoldInv
  <2>5. DownInv'
    BY <1>3, Here DEF Sb!MainLock, VmInv, DownInv
  <2>6. InstallInv'
    BY <1>3, Here DEF Sb!MainLock, VmInv, InstallInv, ThreadInv, VmTypes, Pipping, Sb!Installing
  <2> QED
    BY <2>1, <2>2, <2>3, <2>4, <2>5, <2>6 DEF VmInv
<1>4. CASE Sb!MainStop
  <2>1. VmTypes'
    BY <1>4, Here DEF Sb!MainStop, VmInv, VmTypes, VmT
  <2>2. ThreadInv'
    BY <1>4, Here DEF Sb!MainStop, VmInv, ThreadInv, Stays, Reaches
  <2>3. HoldInv'
    BY <1>4, Here DEF Sb!MainStop, VmInv, HoldInv
  <2>4. UseInv'
    <3>1. vm'.gen = vm.gen /\ (vm.st # "none" => vm'.st # "none")
      BY <1>4 DEF Sb!MainStop, VmInv, VmTypes, VmT
    <3>2. sbH' = sbH /\ \A u \in Sb!Users : sbPc'[u] = sbPc[u]
      BY <1>4, Here DEF Sb!MainStop
    <3> QED
      BY <3>1, <3>2 DEF VmInv, UseInv
  <2>5. DownInv'
    <3>1. /\ sbPc["main"] = "mstop" /\ sbPc'["main"] = "mclear" /\ sbPc'["tool"] = sbPc["tool"]
          /\ sbPc'["warm"] = sbPc["warm"] /\ UNCHANGED <<sbStopping, straggler, con>>
      BY <1>4, Here DEF Sb!MainStop
    <3>2. ~unstopped' => vm'.st # "running"
      BY <1>4 DEF Sb!MainStop, VmInv, VmTypes, VmT
    <3> QED
      BY <3>1, <3>2 DEF VmInv, DownInv
  <2>6. InstallInv'
    <3>1. vm'.site = vm.site /\ (vm'.st = "none" => vm.st = "none")
      BY <1>4 DEF Sb!MainStop, VmInv, VmTypes, VmT
    <3>2. /\ UNCHANGED <<goal, reqs, digest, marker, sbCrossed, lostSite>>
          /\ \A u \in Sb!Users : sbPc'[u] = sbPc[u]
      BY <1>4, Here DEF Sb!MainStop
    <3> QED
      BY <3>1, <3>2 DEF VmInv, InstallInv, Pipping, Sb!Installing
  <2> QED
    BY <2>1, <2>2, <2>3, <2>4, <2>5, <2>6 DEF VmInv
<1>5. CASE Sb!MainClear
  <2>1. VmTypes'
    <3>1. con' \in 0 .. MaxGens /\ fps' \in SandboxPolicies \cup {"none"} /\ lock' \in {lock, "none"}
      BY <1>5, SandboxAssumption DEF Sb!MainClear
    <3>2. ready' = FALSE
      BY <1>5 DEF Sb!MainClear
    <3>3. ready' \in BOOLEAN
      BY <3>2, Zenon
    <3> QED
      BY <1>5, <3>1, <3>3 DEF Sb!MainClear, VmInv, VmTypes
  <2>2. ThreadInv'
    BY <1>5, Here DEF Sb!MainClear, VmInv, ThreadInv, Stays, Reaches
  <2>3. HoldInv'
    BY <1>5, Here DEF Sb!MainClear, VmInv, HoldInv
  <2>4. UseInv'
    BY <1>5, Here DEF Sb!MainClear, VmInv, UseInv, HoldInv
  <2>5. DownInv'
    BY <1>5, Here DEF Sb!MainClear, VmInv, DownInv
  <2>6. InstallInv'
    BY <1>5, Here DEF Sb!MainClear, VmInv, InstallInv, ThreadInv, VmTypes, Pipping, Sb!Installing
  <2> QED
    BY <2>1, <2>2, <2>3, <2>4, <2>5, <2>6 DEF VmInv
<1>6. CASE Sb!MainClose
  <2>1. VmTypes'
    BY <1>6, Here DEF Sb!MainClose, VmInv, VmTypes, VmT
  <2>2. ThreadInv'
    BY <1>6, Here DEF Sb!MainClose, VmInv, ThreadInv, Stays, Reaches
  <2>3. HoldInv'
    BY <1>6, Here DEF Sb!MainClose, VmInv, HoldInv
  <2>4. UseInv'
    BY <1>6, Here DEF Sb!MainClose, VmInv, UseInv, HoldInv
  <2>5. DownInv'
    BY <1>6, Here DEF Sb!MainClose, VmInv, DownInv
  <2>6. InstallInv'
    BY <1>6, Here DEF Sb!MainClose, VmInv, InstallInv, ThreadInv, VmTypes, Pipping, Sb!Installing
  <2> QED
    BY <2>1, <2>2, <2>3, <2>4, <2>5, <2>6 DEF VmInv
<1> QED
  BY <1>1, <1>2, <1>3, <1>4, <1>5, <1>6

LEMMA LivesKeep ==
  ASSUME VmInv, Sb!Restart \/ Sb!VmCrashes
  PROVE  VmInv'
<1> USE DEF Sb!Users, Sb!EnsurePcs, Sb!LockedPcs, Sb!Goto, Sb!cache, Sb!env, Sb!life, Sb!work
<1>1. CASE Sb!Restart
  <2>1. VmTypes'
    <3>1. con' \in 0 .. MaxGens /\ fps' \in SandboxPolicies \cup {"none"} /\ lock' = "none"
      BY <1>1, SandboxAssumption DEF Sb!Restart
    <3>2. ready' = FALSE
      BY <1>1 DEF Sb!Restart
    <3>3. ready' \in BOOLEAN
      BY <3>2, Zenon
    <3>4. /\ sbH' \in [Sb!Users -> 0 .. MaxGens] /\ digest' \in [Sb!Users -> SUBSET SandboxPkgs]
          /\ goal' \in [Sb!Users -> {"ensure", "run", "pip"}]
      BY <1>1, SandboxAssumption DEF Sb!Restart
    <3> QED
      BY <1>1, <3>1, <3>3, <3>4 DEF Sb!Restart, VmInv, VmTypes
  <2>2. ThreadInv'
    BY <1>1, Here DEF Sb!Restart, Sb!Fresh, VmInv, ThreadInv, Stays, Reaches
  <2>3. HoldInv'
    BY <1>1, Here DEF Sb!Restart, Sb!Fresh, VmInv, HoldInv
  <2>4. UseInv'
    BY <1>1, Here DEF Sb!Restart, Sb!Fresh, VmInv, UseInv, HoldInv
  <2>5. DownInv'
    BY <1>1, Here DEF Sb!Restart, Sb!Fresh, VmInv, DownInv
  <2>6. InstallInv'
    BY <1>1, Here DEF Sb!Restart, Sb!Fresh, VmInv, InstallInv, ThreadInv, VmTypes, Pipping,
       Sb!Installing
  <2> QED
    BY <2>1, <2>2, <2>3, <2>4, <2>5, <2>6 DEF VmInv
<1>2. CASE Sb!VmCrashes
  <2>1. VmTypes'
    BY <1>2, Here DEF Sb!VmCrashes, VmInv, VmTypes, VmT
  <2>2. ThreadInv'
    BY <1>2, Here DEF Sb!VmCrashes, VmInv, ThreadInv, Stays, Reaches
  <2>3. HoldInv'
    BY <1>2, Here DEF Sb!VmCrashes, VmInv, HoldInv
  <2>4. UseInv'
    BY <1>2, Here DEF Sb!VmCrashes, VmInv, UseInv, HoldInv
  <2>5. DownInv'
    BY <1>2, Here DEF Sb!VmCrashes, VmInv, DownInv
  <2>6. InstallInv'
    BY <1>2, Here DEF Sb!VmCrashes, VmInv, InstallInv, ThreadInv, VmTypes, Pipping, Sb!Installing
  <2> QED
    BY <2>1, <2>2, <2>3, <2>4, <2>5, <2>6 DEF VmInv
<1> QED
  BY <1>1, <1>2

LEMMA VmNext ==
  ASSUME VmInv, Sb!Next
  PROVE  VmInv'
<1>1. ASSUME NEW t \in Sb!Users, Sb!EnsureStep(t)
      PROVE  VmInv'
  BY <1>1, EnsureQuiet, EnsureActs, EnsureKeeps DEF Sb!EnsureStep
<1>2. ASSUME NEW t \in Sb!Users, Sb!Install(t) \/ Sb!Pip(t) \/ Sb!Mark(t) \/ Sb!Failed(t)
      PROVE  VmInv'
  BY <1>2, PackageKeeps
<1> QED
  BY <1>1, <1>2, CommandKeeps, MainKeeps, LivesKeep DEF Sb!Next

LEMMA VmStays ==
  ASSUME VmInv, UNCHANGED sbVars
  PROVE  VmInv'
  BY DEF VmInv, VmTypes, ThreadInv, HoldInv, UseInv, DownInv, InstallInv, Pipping, Sb!Installing,
     sbVars

LEMMA VmGives ==
  ASSUME VmInv
  PROVE  Sb!SandboxHolds
<1>1. Sb!TypeOK
  BY DEF VmInv, VmTypes, VmT, Sb!TypeOK, Sb!Users
<1>2. Sb!ExclusiveUse
  BY DEF VmInv, HoldInv, UseInv, Sb!ExclusiveUse
<1>3. Sb!StoppedAtShutdown
  BY DEF VmInv, DownInv, Sb!StoppedAtShutdown
<1>4. Sb!ReadyMeansInstalled
  <2>1. marker = reqs => marker # Sb!NoMarker
    BY SandboxAssumption DEF VmInv, VmTypes, Sb!NoMarker
  <2> QED
    BY <2>1 DEF VmInv, InstallInv, Sb!ReadyMeansInstalled, Sb!PyenvReady
<1> QED
  BY <1>1, <1>2, <1>3, <1>4 DEF Sb!SandboxHolds

\* sandbox/lifecycle.py, sandbox/pyenv.py, tools/guest_exec.py: however the warm thread,
\* guest commands, changes of packages, shutdown, failing calls, crashes and restarts
\* interleave, a VM in use is held by one thread and nobody removes it, a shutdown that
\* waited leaves no VM running, and an environment said to be ready is installed.
THEOREM SandboxKept == RuntimeSpec => []SandboxHolds
<1>1. RuntimeInit => VmInv
  BY VmInit DEF RuntimeInit
<1>2. VmInv /\ [RuntimeNext]_<<vars, focus, umVars, pvVars, brVars, sbVars, gsVars>> => VmInv'
  BY VmNext, VmStays DEF RuntimeNext
<1>3. VmInv => SandboxHolds
  BY VmGives DEF SandboxHolds
<1> QED
  BY <1>1, <1>2, <1>3, PTL DEF RuntimeSpec

-----------------------------------------------------------------------------
(* Browser sessions *)

JobKinds == {"launch", "goto", "snap", "act", "teardown"}
JobT == [n : Br!Ids, k : JobKinds, s : Br!Ids]
CallT == [pc : {"free", "asleep", "ended", "wait", "gap", "next"}, n : 0 .. MaxJobs,
          k : JobKinds \cup {"none"}, s : 0 .. MaxJobs, left : SUBSET Br!Ids, force : BOOLEAN,
          end : {"free", "ended", "asleep"}]

\* The jobs submitted and not settled, and whether a caller still waits for its job.
Ran(q) == {q[i] : i \in 1 .. Len(q)}
Unsettled == Ran(queue) \cup ({running} \ {Br!NoJob})
Waits(c) == call[c].pc \in {"wait", "gap"}
Over == DOMAIN outcome
Live == alive \ zombies

BrTypes ==
  /\ sessions \subseteq Br!Ids /\ alive \subseteq Br!Ids /\ zombies \subseteq Br!Ids
  /\ jobs \in 0 .. MaxJobs /\ late \subseteq 1 .. jobs
  /\ queue \in Seq(JobT) /\ running \in JobT \cup {Br!NoJob}
  /\ Over \subseteq 1 .. jobs
  /\ call \in [Br!Callers -> CallT]
  /\ pending \in Nat

\* Jobs are settled in the order of their numbers.
Ordered(q) == \A i, j \in 1 .. Len(q) : i < j => q[i].n < q[j].n
OrderInv ==
  /\ Ordered(queue)
  /\ running # Br!NoJob => \A j \in Ran(queue) : running.n < j.n

\* What is done to a session comes after its launch.
JobInv ==
  /\ \A j \in Unsettled : /\ j \in JobT /\ j.n \in 1 .. jobs /\ j.n \notin Over
                          /\ IF j.k = "launch" THEN j.s = j.n ELSE j.s \in Over
  /\ \A i, j \in Unsettled : i.n = j.n => i = j
  /\ sessions \subseteq Over /\ alive \subseteq Over

\* A job that a caller waits for, or has just given up on.
CallInv ==
  /\ \A c \in Br!Callers : Waits(c) =>
       /\ call[c].n \in 1 .. jobs /\ call[c].k # "none"
       /\ call[c].n \notin Over => [n |-> call[c].n, k |-> call[c].k, s |-> call[c].s] \in Unsettled
       /\ IF call[c].k = "launch" THEN call[c].s = call[c].n ELSE call[c].s \in Over
       /\ call[c].k = "teardown" /\ call[c].n \in Over => call[c].s \notin Live
  /\ call["supervisor"].k # "launch"

\* An unsettled launch has a caller who waits, or was left to its callback.
Launches(n) == Waits("worker") /\ call["worker"].k = "launch" /\ call["worker"].n = n

LateInv ==
  /\ \A j \in Unsettled : j.k = "launch" => j.n \in late \/ Launches(j.n)
  /\ \A n \in Over : Launches(n) /\ ~outcome[n] => n \notin alive
  /\ \A n \in late : ~Launches(n)

\* Every slot is reserved by one launch.
Reserved == {n \in Br!Ids : Launches(n) \/ \E j \in Unsettled : j.k = "launch" /\ j.n = n}
SlotInv == pending = Cardinality(Reserved) /\ pending <= MaxSessions

\* Before the launch that is waited for adds a browser, the teardowns ahead of it
\* have taken away what the sessions and launches do not account for.
Doomed(n) == {s \in Br!Ids : \E j \in Unsettled : j.k = "teardown" /\ j.s = s /\ j.n < n}
BoundInv ==
  /\ Cardinality(Live) <= MaxSessions
  /\ \A n \in Br!Ids : Launches(n) /\ n \notin Over =>
       Cardinality((Live \ Doomed(n)) \cup Reserved) <= MaxSessions

OrphanInv ==
  \A s \in Live : \/ s \in sessions \/ Launches(s)
                  \/ \E j \in Unsettled : j.k = "teardown" /\ j.s = s

\* A worker that is closing for good knows of every session left.
EndInv ==
  /\ call["worker"].end = "ended" /\ Waits("worker") =>
       /\ call["worker"].k = "teardown" /\ call["worker"].force
       /\ sessions \subseteq call["worker"].left \cup {call["worker"].s}
  /\ call["worker"].end = "ended" /\ call["worker"].pc = "next" =>
       call["worker"].force /\ sessions \subseteq call["worker"].left
  /\ call["worker"].pc = "ended" => sessions = {}

\* References are those of the page, unless it changed behind them.
RefInv ==
  /\ refs \in [Br!Ids -> Nat] /\ dom \in [Br!Ids -> Nat]
  /\ \A s \in Br!Ids : refs[s] # 0 /\ s \notin lag => refs[s] = dom[s]
  /\ Br!RefsAreCurrent

BrInv ==
  /\ BrTypes /\ OrderInv /\ JobInv /\ CallInv /\ LateInv /\ SlotInv /\ BoundInv /\ OrphanInv
  /\ EndInv /\ RefInv

\* Queues.
LEMMA RanAppend ==
  ASSUME NEW S, NEW q \in Seq(S), NEW x \in S
  PROVE  Append(q, x) \in Seq(S) /\ Ran(Append(q, x)) = Ran(q) \cup {x}
<1> DEFINE a == Append(q, x)
<1>1. a \in Seq(S) /\ Len(q) \in Nat /\ Len(a) = Len(q) + 1
  OBVIOUS
<1>2. \A i \in 1 .. Len(q) : a[i] = q[i] /\ i \in 1 .. Len(a)
  BY <1>1
<1>3. a[Len(q) + 1] = x /\ Len(q) + 1 \in 1 .. Len(a)
  BY <1>1
<1>4. \A i \in 1 .. Len(a) : i \in 1 .. Len(q) \/ i = Len(q) + 1
  BY <1>1
<1> HIDE DEF a
<1>5. Ran(a) = Ran(q) \cup {x}
  BY <1>2, <1>3, <1>4 DEF Ran
<1> QED
  BY <1>1, <1>5 DEF a

LEMMA RanTail ==
  ASSUME NEW S, NEW q \in Seq(S), q # <<>>
  PROVE  /\ Tail(q) \in Seq(S) /\ Head(q) \in S /\ Head(q) = q[1]
         /\ Ran(q) = {Head(q)} \cup Ran(Tail(q))
         /\ Len(Tail(q)) = Len(q) - 1 /\ Len(q) \in Nat \ {0}
         /\ \A i \in 1 .. Len(Tail(q)) : Tail(q)[i] = q[i + 1] /\ i + 1 \in 1 .. Len(q)
<1> DEFINE t == Tail(q)
<1>1. t \in Seq(S) /\ Len(q) \in Nat \ {0} /\ Len(t) = Len(q) - 1 /\ Head(q) = q[1] /\ Head(q) \in S
  OBVIOUS
<1>2. \A i \in 1 .. Len(t) : t[i] = q[i + 1] /\ i + 1 \in 1 .. Len(q)
  BY <1>1
<1>3. \A i \in 1 .. Len(q) : i = 1 \/ (i - 1 \in 1 .. Len(t) /\ (i - 1) + 1 = i)
  BY <1>1
<1>4. 1 \in 1 .. Len(q)
  BY <1>1
<1> HIDE DEF t
<1>5. Ran(q) = {Head(q)} \cup Ran(t)
  <2>1. ASSUME NEW i \in 1 .. Len(q)
        PROVE  q[i] \in {Head(q)} \cup Ran(t)
    <3>1. CASE i = 1
      BY <1>1, <3>1
    <3>2. CASE i # 1
      <4>1. i - 1 \in 1 .. Len(t) /\ (i - 1) + 1 = i
        BY <1>3, <3>2
      <4>2. t[i - 1] = q[i]
        BY <1>2, <4>1
      <4> QED
        BY <4>1, <4>2 DEF Ran
    <3> QED
      BY <3>1, <3>2
  <2>2. ASSUME NEW i \in 1 .. Len(t)
        PROVE  t[i] \in Ran(q)
    BY <1>2 DEF Ran
  <2>3. Head(q) \in Ran(q)
    BY <1>1, <1>4 DEF Ran
  <2> QED
    BY <2>1, <2>2, <2>3 DEF Ran
<1> QED
  BY <1>1, <1>2, <1>5 DEF t

LEMMA OrderedAppend ==
  ASSUME NEW q \in Seq(JobT), NEW x \in JobT, Ordered(q), \A j \in Ran(q) : j.n < x.n
  PROVE  Ordered(Append(q, x))
<1> DEFINE a == Append(q, x)
<1>1. Len(q) \in Nat /\ Len(a) = Len(q) + 1 /\ a[Len(q) + 1] = x
  OBVIOUS
<1>2. \A i \in 1 .. Len(q) : a[i] = q[i]
  BY <1>1
<1> HIDE DEF a
<1>3. ASSUME NEW i \in 1 .. Len(a), NEW j \in 1 .. Len(a), i < j
      PROVE  a[i].n < a[j].n
  <2>1. i \in 1 .. Len(q) /\ (j \in 1 .. Len(q) \/ j = Len(q) + 1)
    BY <1>1, <1>3
  <2> QED
    BY <1>1, <1>2, <1>3, <2>1 DEF Ordered, Ran
<1> QED
  BY <1>3 DEF Ordered, a

LEMMA OrderedTail ==
  ASSUME NEW q \in Seq(JobT), q # <<>>, Ordered(q)
  PROVE  Ordered(Tail(q)) /\ \A j \in Ran(Tail(q)) : Head(q).n < j.n
<1> DEFINE t == Tail(q)
<1>1. /\ Len(q) \in Nat \ {0} /\ Len(t) = Len(q) - 1 /\ Head(q) = q[1]
      /\ \A i \in 1 .. Len(t) : t[i] = q[i + 1] /\ i + 1 \in 1 .. Len(q)
  BY RanTail
<1> HIDE DEF t
<1>2. ASSUME NEW i \in 1 .. Len(t), NEW j \in 1 .. Len(t), i < j
      PROVE  t[i].n < t[j].n
  <2>1. i + 1 < j + 1
    BY <1>1, <1>2
  <2> QED
    BY <1>1, <2>1 DEF Ordered
<1>3. ASSUME NEW i \in 1 .. Len(t)
      PROVE  Head(q).n < t[i].n
  <2>1. 1 \in 1 .. Len(q) /\ 1 < i + 1
    BY <1>1
  <2> QED
    BY <1>1, <2>1 DEF Ordered
<1> QED
  BY <1>2, <1>3 DEF Ordered, Ran, t

\* Finite sets of sessions.
LEMMA IdsFinite ==
  ASSUME NEW S \in SUBSET Br!Ids
  PROVE  IsFiniteSet(S) /\ Cardinality(S) \in Nat
<1>1. IsFiniteSet(Br!Ids)
  BY FS_Interval, BrowserAssumption DEF Br!Ids
<1> QED
  BY <1>1, FS_Subset, FS_CardinalityType

LEMMA FewerIds ==
  ASSUME NEW S \in SUBSET Br!Ids, NEW T \in SUBSET S
  PROVE  Cardinality(T) <= Cardinality(S)
  BY IdsFinite, FS_Subset

LEMMA ReservedIs == Br!Launching = Reserved
  BY DEF Br!Launching, Reserved, Launches, Waits, Unsettled, Ran, Br!NoJob

LEMMA BrInit ==
  ASSUME Br!Init
  PROVE  BrInv
<1> USE DEF Br!Init
<1>0. /\ Unsettled = {} /\ Ran(queue) = {} /\ Over = {} /\ Live = {}
      /\ ~Waits("worker") /\ ~Waits("supervisor")
  BY DEF Unsettled, Ran, Over, Live, Waits, Br!Callers, Br!Free, Br!Rests
<1>1. BrTypes
  <2>1. call \in [Br!Callers -> CallT]
    BY BrowserAssumption DEF Br!Callers, Br!Free, Br!Rests, CallT
  <2> QED
    BY <1>0, <2>1, BrowserAssumption DEF BrTypes
<1>2. OrderInv /\ JobInv
  BY <1>0 DEF OrderInv, JobInv, Ordered
<1>3. CallInv /\ LateInv /\ OrphanInv
  BY <1>0 DEF CallInv, LateInv, OrphanInv, Launches, Br!Callers, Br!Rests, Br!Free
<1>4. Reserved = {}
  BY <1>0 DEF Reserved, Launches
<1>5. SlotInv /\ BoundInv
  BY <1>0, <1>4, FS_EmptySet, BrowserAssumption DEF SlotInv, BoundInv, Launches
<1>6. EndInv
  BY DEF EndInv, Br!Callers, Br!Free, Br!Rests, Waits
<1>7. RefInv
  BY DEF RefInv, Br!RefsAreCurrent
<1> QED
  BY <1>1, <1>2, <1>3, <1>5, <1>6, <1>7 DEF BrInv

\* A job is submitted.
Job(c) == [n |-> call[c].n, k |-> call[c].k, s |-> call[c].s]

Submits(c) ==
  /\ jobs' = jobs + 1 /\ jobs' \in 0 .. MaxJobs
  /\ call' = [call EXCEPT ![c] = call'[c]] /\ call'[c] \in CallT /\ ~Waits(c)
  /\ call'[c].pc = "wait" /\ call'[c].n = jobs' /\ call'[c].k # "none" /\ call'[c].s \in Br!Ids
  /\ queue' = Append(queue, [n |-> call'[c].n, k |-> call'[c].k, s |-> call'[c].s])
  /\ UNCHANGED <<sessions, alive, zombies, running, outcome, late>>

LEMMA SubmitIs ==
  ASSUME BrInv, NEW c \in Br!Callers, ~Waits(c), NEW r \in CallT,
         r.pc = "wait", r.n = jobs + 1, r.k \in JobKinds, r.s \in Br!Ids,
         jobs < MaxJobs, jobs' = jobs + 1, call' = [call EXCEPT ![c] = r],
         queue' = Append(queue, [n |-> r.n, k |-> r.k, s |-> r.s]),
         UNCHANGED <<sessions, alive, zombies, running, outcome, late>>
  PROVE  Submits(c) /\ call'[c] = r
<1>1. call'[c] = r /\ jobs + 1 \in 0 .. MaxJobs
  BY BrowserAssumption DEF BrInv, BrTypes
<1>2. queue' = Append(queue, [n |-> call'[c].n, k |-> call'[c].k, s |-> call'[c].s])
  BY <1>1
<1>3. call' = [call EXCEPT ![c] = call'[c]] /\ call'[c].k # "none"
  BY <1>1 DEF JobKinds
<1> QED
  BY <1>1, <1>2, <1>3 DEF Submits

LEMMA SubmitQueues ==
  ASSUME BrInv, NEW c \in Br!Callers, Submits(c)
  PROVE  /\ Job(c)' \in JobT /\ queue' \in Seq(JobT) /\ OrderInv'
         /\ Unsettled' = Unsettled \cup {Job(c)'} /\ \A j \in Unsettled : j.n < Job(c)'.n
         /\ Over' = Over /\ jobs' = jobs + 1 /\ jobs \in Nat
         /\ \A d \in Br!Callers : d # c => call'[d] = call[d]
         /\ Waits(c)' /\ \A d \in Br!Callers : d # c => (Waits(d)' <=> Waits(d))
<1>1. jobs \in Nat /\ queue \in Seq(JobT) /\ \A d \in Br!Callers : d # c => call'[d] = call[d]
  BY DEF BrInv, BrTypes, Submits
<1>2. Job(c)' \in JobT /\ Job(c)'.n = jobs + 1
  BY <1>1 DEF Job, JobT, Submits, CallT, Br!Ids
<1>3. queue' \in Seq(JobT) /\ Ran(queue') = Ran(queue) \cup {Job(c)'}
  BY <1>1, <1>2, RanAppend DEF Submits, Job
<1>4. Unsettled' = Unsettled \cup {Job(c)'}
  BY <1>3 DEF Unsettled, Submits, Br!NoJob
<1>5. \A j \in Unsettled : j.n < Job(c)'.n
  BY <1>1, <1>2 DEF BrInv, JobInv
<1>6. OrderInv'
  <2>1. \A j \in Ran(queue) : j.n < Job(c)'.n
    BY <1>5 DEF Unsettled
  <2>2. Ordered(queue')
    BY <1>1, <1>2, <2>1, OrderedAppend DEF Submits, Job, BrInv, OrderInv
  <2>3. running # Br!NoJob => running.n < Job(c)'.n
    BY <1>5 DEF Unsettled
  <2> QED
    BY <1>3, <2>2, <2>3 DEF OrderInv, BrInv, Submits
<1> QED
  BY <1>1, <1>2, <1>3, <1>4, <1>5, <1>6 DEF Submits, Over, Waits

LEMMA SubmitTyped ==
  ASSUME BrInv, NEW c \in Br!Callers, Submits(c), pending' \in Nat
  PROVE  BrTypes' /\ OrderInv'
<1>1. call' \in [Br!Callers -> CallT]
  BY DEF BrInv, BrTypes, Submits
<1>2. jobs \in Nat /\ jobs' = jobs + 1 /\ late \subseteq 1 .. jobs /\ Over' \subseteq 1 .. jobs
  BY SubmitQueues DEF BrInv, BrTypes
<1>3. late \subseteq 1 .. jobs' /\ Over' \subseteq 1 .. jobs'
  BY <1>2
<1> QED
  BY <1>1, <1>3, SubmitQueues DEF BrInv, BrTypes, Submits

\* A job for a session that is known, or was.
LEMMA SubmitKeeps ==
  ASSUME BrInv, NEW c \in Br!Callers, Submits(c), pending' = pending, UNCHANGED <<refs, dom, lag, acted>>,
         call'[c].k # "launch", call'[c].s \in Over,
         c = "worker" /\ call'[c].end = "ended" =>
            call'[c].k = "teardown" /\ call'[c].force /\ sessions \subseteq call'[c].left \cup {call'[c].s}
  PROVE  BrInv'
<1>1. BrTypes' /\ OrderInv'
  BY SubmitTyped DEF BrInv, BrTypes
<1>2. /\ Unsettled' = Unsettled \cup {Job(c)'} /\ Job(c)' \in JobT /\ jobs' = jobs + 1 /\ jobs \in Nat
      /\ \A j \in Unsettled : j.n < Job(c)'.n
      /\ Over' = Over /\ Over \subseteq 1 .. jobs
      /\ Job(c)'.n = jobs' /\ Job(c)'.k = call'[c].k /\ Job(c)'.s = call'[c].s
  BY SubmitQueues DEF Job, Submits, BrInv, BrTypes
<1>3. \A n : Launches(n)' <=> Launches(n)
  BY SubmitQueues DEF Launches, Submits, Br!Callers
<1>4. JobInv'
  <2>1. UNCHANGED <<sessions, alive, outcome>>
    BY DEF Submits
  <2>2. \A i, j \in Unsettled' : i.n = j.n => i = j
    BY <1>2 DEF BrInv, JobInv
  <2>3. Job(c)'.n \in 1 .. jobs' /\ Job(c)'.n \notin Over'
    BY <1>2
  <2> QED
    BY <1>2, <2>1, <2>2, <2>3 DEF BrInv, JobInv
<1>5. Live' = Live /\ Reserved' = Reserved
  BY <1>2, <1>3 DEF Live, Reserved, Submits
<1>6. CallInv'
  <2>1. ASSUME NEW d \in Br!Callers, d # c, Waits(d)
        PROVE  /\ call[d].n \in 1 .. jobs' /\ call[d].k # "none"
               /\ call[d].n \notin Over' => [n |-> call[d].n, k |-> call[d].k, s |-> call[d].s] \in Unsettled'
               /\ IF call[d].k = "launch" THEN call[d].s = call[d].n ELSE call[d].s \in Over'
               /\ call[d].k = "teardown" /\ call[d].n \in Over' => call[d].s \notin Live'
    BY <1>2, <1>5, <2>1 DEF BrInv, CallInv
  <2>2. /\ call'[c].n \in 1 .. jobs' /\ call'[c].k # "none" /\ call'[c].s \in Over'
        /\ [n |-> call'[c].n, k |-> call'[c].k, s |-> call'[c].s] \in Unsettled' /\ call'[c].n \notin Over'
    BY <1>2 DEF Job, Submits
  <2>3. call'["supervisor"].k # "launch"
    BY SubmitQueues DEF BrInv, CallInv, Br!Callers
  <2> QED
    BY <2>1, <2>2, <2>3, SubmitQueues DEF CallInv
<1>7. LateInv'
  BY <1>2, <1>3 DEF BrInv, LateInv, Submits, Over
<1>8. SlotInv'
  BY <1>5 DEF BrInv, SlotInv
<1>9. BoundInv'
  <2>1. ASSUME NEW n \in Br!Ids, Launches(n), n \notin Over
        PROVE  Doomed(n)' = Doomed(n)
    <3>1. [n |-> n, k |-> "launch", s |-> n] \in Unsettled
      BY <2>1 DEF Launches, BrInv, CallInv, Br!Callers
    <3>2. n < Job(c)'.n
      BY <1>2, <3>1
    <3> QED
      BY <1>2, <3>2 DEF Doomed, Br!Ids
  <2> QED
    BY <1>2, <1>3, <1>5, <2>1 DEF BrInv, BoundInv
<1>10. OrphanInv'
  BY <1>2, <1>3, <1>5 DEF BrInv, OrphanInv, Submits
<1>11. EndInv'
  BY SubmitQueues DEF BrInv, EndInv, Submits, Br!Callers
<1>12. RefInv'
  BY DEF BrInv, RefInv, Br!RefsAreCurrent
<1> QED
  BY <1>1, <1>4, <1>6, <1>7, <1>8, <1>9, <1>10, <1>11, <1>12 DEF BrInv

LEMMA OpenKeeps ==
  ASSUME BrInv, Br!Open
  PROVE  BrInv'
<1> SUFFICES ASSUME NEW m, m = jobs'
             PROVE  BrInv'
  OBVIOUS
<1>1. /\ call["worker"] = Br!Free /\ Cardinality(sessions) + pending < MaxSessions
      /\ pending' = pending + 1 /\ UNCHANGED <<refs, dom, lag, acted>>
      /\ "worker" \in Br!Callers
  BY DEF Br!Open, Br!Page, Br!Callers, Br!Cardinality, Cardinality
<1>2. /\ Submits("worker")
      /\ call'["worker"].k = "launch" /\ call'["worker"].s = jobs' /\ call'["worker"].end = "free"
  <2> DEFINE r == [pc |-> "wait", n |-> jobs + 1, k |-> "launch", s |-> jobs + 1, left |-> {},
                   force |-> FALSE, end |-> "free"]
  <2>1. ~Waits("worker") /\ "launch" \in JobKinds
    BY <1>1 DEF Waits, Br!Free, Br!Rests, JobKinds
  <2>2. /\ jobs < MaxJobs /\ jobs' = jobs + 1 /\ call' = [call EXCEPT !["worker"] = r]
        /\ queue' = Append(queue, [n |-> r.n, k |-> r.k, s |-> r.s])
        /\ UNCHANGED <<sessions, alive, zombies, running, outcome, late>>
    BY DEF Br!Open, Br!Submit
  <2>3. jobs + 1 \in Br!Ids /\ jobs + 1 \in 0 .. MaxJobs
    BY <2>2, BrowserAssumption DEF BrInv, BrTypes, Br!Ids
  <2>4. r \in CallT
    BY <2>1, <2>3 DEF CallT
  <2>5. r.pc = "wait" /\ r.n = jobs + 1 /\ r.k = "launch" /\ r.s = jobs + 1 /\ r.end = "free"
    OBVIOUS
  <2> HIDE DEF r
  <2>6. Submits("worker") /\ call'["worker"] = r
    BY <1>1, <2>1, <2>2, <2>3, <2>4, <2>5, SubmitIs
  <2> QED
    BY <2>2, <2>5, <2>6
<1>3. BrTypes' /\ OrderInv'
  BY <1>1, <1>2, SubmitTyped DEF BrInv, BrTypes
<1> DEFINE J == Job("worker")'
<1>4. /\ Unsettled' = Unsettled \cup {J} /\ J \in JobT /\ jobs' = jobs + 1 /\ jobs \in Nat
      /\ \A j \in Unsettled : j.n < J.n
      /\ Over' = Over /\ Over \subseteq 1 .. jobs
      /\ J.n = jobs' /\ J.k = "launch" /\ J.s = jobs'
  BY <1>1, <1>2, SubmitQueues DEF Job, Submits, BrInv, BrTypes
<1>5. ~Waits("worker") /\ \A n : ~Launches(n)
  BY <1>2 DEF Launches, Submits
<1>6. \A n : Launches(n)' <=> n = jobs'
  BY <1>1, <1>2, SubmitQueues DEF Launches, Submits
<1> HIDE DEF J
<1>7. JobInv'
  <2>1. UNCHANGED <<sessions, alive, outcome>>
    BY <1>2 DEF Submits
  <2>2. \A i, j \in Unsettled' : i.n = j.n => i = j
    BY <1>4 DEF BrInv, JobInv
  <2>3. J.n \in 1 .. jobs' /\ J.n \notin Over'
    BY <1>4
  <2> QED
    BY <1>4, <2>1, <2>2, <2>3 DEF BrInv, JobInv
<1>8. Live' = Live /\ Live \in SUBSET Br!Ids /\ sessions \in SUBSET Br!Ids
  BY <1>2 DEF Live, Submits, BrInv, BrTypes
<1>9. /\ Reserved' = Reserved \cup {jobs'} /\ jobs' \notin Reserved
      /\ Reserved \in SUBSET Br!Ids /\ jobs' \in Br!Ids
  <2>1. jobs' \in Br!Ids
    BY <1>4 DEF JobT
  <2>2. Reserved' = Reserved \cup {jobs'}
    BY <1>4, <1>5, <1>6, <2>1 DEF Reserved
  <2>3. jobs' \notin Reserved
    BY <1>4, <1>5 DEF Reserved
  <2> QED
    BY <2>1, <2>2, <2>3 DEF Reserved
<1>10. CallInv'
  <2>1. Waits("supervisor")' <=> Waits("supervisor")
    BY <1>2, SubmitQueues DEF Br!Callers
  <2>2. call'["supervisor"] = call["supervisor"] /\ "supervisor" \in Br!Callers
    BY <1>2, SubmitQueues DEF Br!Callers
  <2>3. J = [n |-> call'["worker"].n, k |-> call'["worker"].k, s |-> call'["worker"].s]
    BY DEF J, Job
  <2>4. call'["worker"].n \in 1 .. jobs' /\ call'["worker"].n = jobs'
    BY <1>2, <1>4 DEF Submits
  <2> QED
    BY <1>1, <1>2, <1>4, <1>8, <2>1, <2>2, <2>3, <2>4 DEF BrInv, CallInv, Br!Callers
<1>11. LateInv'
  <2>1. \A n \in late : n \in Nat /\ n <= jobs
    BY DEF BrInv, BrTypes
  <2> QED
    BY <1>2, <1>4, <1>5, <1>6, <2>1 DEF BrInv, LateInv, Submits, Over
<1>12. SlotInv'
  <2>1. IsFiniteSet(Reserved) /\ Cardinality(sessions) \in Nat
    BY <1>8, <1>9, IdsFinite
  <2>2. Cardinality(Reserved') = Cardinality(Reserved) + 1
    BY <1>9, <2>1, FS_AddElement
  <2> QED
    BY <1>1, <2>1, <2>2, BrowserAssumption DEF BrInv, BrTypes, SlotInv
<1>13. BoundInv'
  <2>1. (Live' \ Doomed(m)') \subseteq sessions
    BY <1>4, <1>5, <1>8 DEF BrInv, OrphanInv, Doomed
  <2>2. Cardinality((Live' \ Doomed(m)') \cup Reserved') <= MaxSessions
    <3>1. /\ IsFiniteSet(sessions) /\ IsFiniteSet(Reserved') /\ Cardinality(sessions) \in Nat
          /\ Cardinality(Reserved') \in Nat
      BY <1>8, <1>9, IdsFinite
    <3>2. Cardinality(sessions \cup Reserved') <= Cardinality(sessions) + Cardinality(Reserved')
      <4>1. IsFiniteSet(sessions \cap Reserved') /\ Cardinality(sessions \cap Reserved') \in Nat
        BY <3>1, FS_Intersection, FS_CardinalityType
      <4>2. Cardinality(sessions \cup Reserved')
              = Cardinality(sessions) + Cardinality(Reserved') - Cardinality(sessions \cap Reserved')
        BY <3>1, FS_Union
      <4> QED
        BY <3>1, <4>1, <4>2
    <3>3. Cardinality(Reserved') = pending + 1
      BY <1>1, <1>12 DEF SlotInv
    <3>4. sessions \cup Reserved' \in SUBSET Br!Ids
      BY <1>8, <1>9
    <3>5. Cardinality((Live' \ Doomed(m)') \cup Reserved') <= Cardinality(sessions \cup Reserved')
      BY <2>1, <3>4, FewerIds
    <3>6. /\ Cardinality((Live' \ Doomed(m)') \cup Reserved') \in Nat
          /\ Cardinality(sessions \cup Reserved') \in Nat
      BY <3>4, <2>1, IdsFinite
    <3>7. pending \in Nat
      BY DEF BrInv, BrTypes
    <3> QED
      BY <1>1, <3>1, <3>2, <3>3, <3>5, <3>6, <3>7, BrowserAssumption
  <2> QED
    BY <1>6, <1>8, <2>2 DEF BrInv, BoundInv
<1>14. OrphanInv'
  BY <1>2, <1>4, <1>5, <1>8 DEF BrInv, OrphanInv, Submits
<1>15. EndInv'
  BY <1>2 DEF EndInv, Submits
<1>16. RefInv'
  BY <1>1 DEF BrInv, RefInv, Br!RefsAreCurrent
<1> QED
  BY <1>3, <1>7, <1>10, <1>11, <1>12, <1>13, <1>14, <1>15, <1>16 DEF BrInv

\* A job ends.  Whatever it was, it adds at most the browser of a launch that is waited
\* for, and a teardown leaves its browser gone or given up.
Ends(ok) ==
  /\ running # Br!NoJob /\ Br!Settle(ok) /\ late' = late
  /\ alive' \subseteq alive \cup {running.n} /\ zombies' \subseteq Br!Ids
  /\ ok \/ running.n \notin alive'
  /\ Live' \subseteq Live \cup {running.n}
  /\ (running.k = "launch" /\ running.n \notin late) \/ Live' \subseteq Live
  /\ running.k = "teardown" => running.s \notin Live'
  /\ pending' = IF running.k = "launch" /\ running.n \in late THEN pending - 1 ELSE pending

LEMMA EndIs ==
  ASSUME BrInv, NEW ok, Ends(ok)
  PROVE  /\ running \in Unsettled /\ running \in JobT /\ running.n \in 1 .. jobs /\ running.n \notin Over
         /\ Over' = Over \cup {running.n} /\ outcome'[running.n] = ok
         /\ \A n \in Over : outcome'[n] = outcome[n]
         /\ Unsettled' = Unsettled \ {running}
         /\ \A j \in Unsettled' : j.n # running.n
         /\ \A j \in Unsettled : j.n >= running.n
         /\ \A n : Launches(n)' <=> Launches(n)
         /\ \A c \in Br!Callers : Waits(c)' <=> Waits(c)
<1>1. running \in Unsettled
  BY DEF Ends, Unsettled
<1>2. running \in JobT /\ running.n \in 1 .. jobs /\ running.n \notin Over
  BY <1>1 DEF BrInv, JobInv
<1>3. /\ Over' = Over \cup {running.n} /\ outcome'[running.n] = ok
      /\ \A n \in Over : outcome'[n] = outcome[n]
  BY <1>2 DEF Ends, Br!Settle, Over
<1>4. running \notin Ran(queue)
  BY <1>2 DEF Ends, BrInv, OrderInv, JobT, Br!Ids
<1>5. Unsettled' = Unsettled \ {running}
  BY <1>4 DEF Unsettled, Ran, Ends, Br!Settle
<1>6. \A j \in Unsettled' : j.n # running.n
  BY <1>1, <1>5 DEF BrInv, JobInv
<1>7. \A j \in Unsettled : j.n >= running.n
  BY <1>2 DEF Ends, BrInv, OrderInv, JobInv, Unsettled, JobT, Br!Ids
<1>8. call' = call
  BY DEF Ends, Br!Settle
<1> QED
  BY <1>1, <1>2, <1>3, <1>5, <1>6, <1>7, <1>8 DEF Launches, Waits

LEMMA ReservedAfter ==
  ASSUME BrInv, NEW ok, Ends(ok)
  PROVE  /\ Reserved \in SUBSET Br!Ids
         /\ IF running.k = "launch" /\ running.n \in late
            THEN running.n \in Reserved /\ Reserved' = Reserved \ {running.n}
            ELSE Reserved' = Reserved
<1>1. Reserved \in SUBSET Br!Ids /\ running.n \in Br!Ids
  BY EndIs DEF Reserved, JobT
<1>2. CASE running.k = "launch" /\ running.n \in late
  <2>1. ~Launches(running.n)
    BY <1>2 DEF BrInv, LateInv
  <2>2. running.n \in Reserved
    BY <1>1, <1>2, EndIs DEF Reserved
  <2>3. Reserved' = Reserved \ {running.n}
    BY <2>1, EndIs DEF Reserved
  <2> QED
    BY <1>1, <1>2, <2>2, <2>3
<1>3. CASE ~(running.k = "launch" /\ running.n \in late)
  <2>1. running.k = "launch" => Launches(running.n)
    BY <1>3, EndIs DEF BrInv, LateInv
  <2>2. Reserved' = Reserved
    BY <2>1, EndIs DEF Reserved
  <2> QED
    BY <1>1, <1>3, <2>2
<1> QED
  BY <1>2, <1>3

\* The one launch that is waited for is the job of that number.
LEMMA LaunchOf ==
  ASSUME BrInv, NEW n, Launches(n), n \notin Over
  PROVE  [n |-> n, k |-> "launch", s |-> n] \in Unsettled
  BY DEF Launches, BrInv, CallInv, Br!Callers

LEMMA EndKeeps ==
  ASSUME BrInv, NEW ok, Ends(ok), RefInv'
  PROVE  BrInv'
<1>1. UNCHANGED <<sessions, queue, call, jobs, late>> /\ running' = Br!NoJob
  BY DEF Ends, Br!Settle
<1>2. Live \subseteq alive /\ Live \in SUBSET Br!Ids /\ alive \subseteq Over /\ sessions \subseteq Over
  BY DEF Live, BrInv, BrTypes, JobInv
<1>3. BrTypes'
  <2>1. alive' \subseteq Br!Ids
    BY EndIs DEF Ends, BrInv, BrTypes, JobT
  <2>2. pending' \in Nat
    <3>1. CASE running.k = "launch" /\ running.n \in late
      <4>1. Cardinality(Reserved) # 0
        BY <3>1, ReservedAfter, IdsFinite, FS_EmptySet
      <4> QED
        BY <3>1, <4>1 DEF Ends, BrInv, BrTypes, SlotInv
    <3>2. CASE ~(running.k = "launch" /\ running.n \in late)
      BY <3>2 DEF Ends, BrInv, BrTypes
    <3> QED
      BY <3>1, <3>2
  <2>3. Over' \subseteq 1 .. jobs
    BY EndIs DEF BrInv, BrTypes
  <2> QED
    BY <1>1, <2>1, <2>2, <2>3 DEF BrInv, BrTypes, Ends
<1>4. OrderInv'
  BY <1>1 DEF BrInv, OrderInv
<1>5. JobInv'
  BY <1>1, <1>2, EndIs DEF BrInv, JobInv, Ends
<1>6. CallInv'
  <2>1. ASSUME NEW c \in Br!Callers, Waits(c)
        PROVE  /\ call[c].n \notin Over' => [n |-> call[c].n, k |-> call[c].k, s |-> call[c].s] \in Unsettled'
               /\ IF call[c].k = "launch" THEN call[c].s = call[c].n ELSE call[c].s \in Over'
               /\ call[c].k = "teardown" /\ call[c].n \in Over' => call[c].s \notin Live'
    <3> DEFINE J == [n |-> call[c].n, k |-> call[c].k, s |-> call[c].s]
    <3>1. call[c].n \notin Over => J \in Unsettled
      BY <2>1 DEF BrInv, CallInv
    <3>2. call[c].n \notin Over' => J \in Unsettled'
      BY <3>1, EndIs
    <3>3. IF call[c].k = "launch" THEN call[c].s = call[c].n ELSE call[c].s \in Over
      BY <2>1 DEF BrInv, CallInv
    <3>4. ASSUME call[c].k = "teardown", call[c].n \in Over'
          PROVE  call[c].s \notin Live'
      <4>1. CASE call[c].n \in Over
        BY <2>1, <3>3, <3>4, <4>1, EndIs DEF BrInv, CallInv, Ends
      <4>2. CASE call[c].n = running.n
        <5>1. J = running
          BY <3>1, <4>2, EndIs DEF BrInv, JobInv
        <5> QED
          BY <3>4, <5>1 DEF Ends
      <4> QED
        BY <3>4, <4>1, <4>2, EndIs
    <3> QED
      BY <3>2, <3>3, <3>4, EndIs
  <2> QED
    BY <1>1, <2>1, EndIs DEF BrInv, CallInv
<1>7. LateInv'
  <2>1. ASSUME NEW n \in Over', Launches(n), ~outcome'[n]
        PROVE  n \notin alive'
    BY <2>1, EndIs DEF BrInv, LateInv, Ends
  <2> QED
    BY <1>1, <2>1, EndIs DEF BrInv, LateInv
<1>8. SlotInv'
  <2>1. CASE running.k = "launch" /\ running.n \in late
    <3>1. running.n \in Reserved /\ Reserved' = Reserved \ {running.n} /\ Reserved \in SUBSET Br!Ids
      BY <2>1, ReservedAfter
    <3>2. Cardinality(Reserved) \in Nat /\ Cardinality(Reserved') = Cardinality(Reserved) - 1
      BY <3>1, IdsFinite, FS_RemoveElement
    <3>3. pending' = pending - 1
      BY <2>1 DEF Ends
    <3>4. pending = Cardinality(Reserved) /\ pending <= MaxSessions
      BY DEF BrInv, SlotInv
    <3>5. pending' = Cardinality(Reserved') /\ pending' <= MaxSessions
      BY <3>2, <3>3, <3>4, BrowserAssumption
    <3> QED
      BY <3>5 DEF SlotInv
  <2>2. CASE ~(running.k = "launch" /\ running.n \in late)
    <3>1. Reserved' = Reserved
      BY <2>2, ReservedAfter
    <3>2. pending' = pending
      BY <2>2 DEF Ends
    <3> QED
      BY <3>1, <3>2 DEF BrInv, SlotInv
  <2> QED
    BY <2>1, <2>2
<1>9. BoundInv'
  <2>1. Cardinality(Live') <= MaxSessions
    <3>1. CASE Live' \subseteq Live
      <4>1. Cardinality(Live') <= Cardinality(Live) /\ Cardinality(Live) \in Nat /\ Cardinality(Live') \in Nat
        BY <1>2, <3>1, FewerIds, IdsFinite
      <4> QED
        BY <4>1, BrowserAssumption DEF BrInv, BoundInv
    <3>2. CASE running.k = "launch" /\ running.n \notin late
      <4>1. Launches(running.n) /\ running.n \in Reserved /\ running.n \in Br!Ids
        BY <3>2, EndIs DEF BrInv, LateInv, Reserved, JobT
      <4>2. Doomed(running.n) = {}
        BY EndIs DEF Doomed, BrInv, JobInv, JobT, Br!Ids
      <4>3. Live' \subseteq (Live \ Doomed(running.n)) \cup Reserved
        BY <4>1, <4>2 DEF Ends
      <4>4. (Live \ Doomed(running.n)) \cup Reserved \in SUBSET Br!Ids
        BY <1>2, ReservedAfter
      <4>5. Cardinality((Live \ Doomed(running.n)) \cup Reserved) <= MaxSessions
        BY <4>1, EndIs DEF BrInv, BoundInv
      <4>6. /\ Cardinality(Live') <= Cardinality((Live \ Doomed(running.n)) \cup Reserved)
            /\ Cardinality(Live') \in Nat /\ Cardinality((Live \ Doomed(running.n)) \cup Reserved) \in Nat
        BY <4>3, <4>4, FewerIds, IdsFinite
      <4> QED
        BY <4>5, <4>6, BrowserAssumption
    <3> QED
      BY <3>1, <3>2 DEF Ends
  <2>2. ASSUME NEW n \in Br!Ids, Launches(n), n \notin Over'
        PROVE  Cardinality((Live' \ Doomed(n)') \cup Reserved') <= MaxSessions
    <3>1. Live' \subseteq Live
      <4>1. running.k = "launch" /\ running.n \notin late => Launches(running.n)
        BY EndIs DEF BrInv, LateInv
      <4>2. Launches(running.n) => running.n = n
        BY <2>2 DEF Launches
      <4> QED
        BY <2>2, <4>1, <4>2, EndIs DEF Ends
    <3>2. Live' \ Doomed(n)' \subseteq Live \ Doomed(n)
      BY <3>1, EndIs DEF Doomed, Ends
    <3>3. Reserved' \subseteq Reserved
      BY ReservedAfter
    <3> DEFINE A == (Live \ Doomed(n)) \cup Reserved
               B == (Live' \ Doomed(n)') \cup Reserved'
    <3>4. A \in SUBSET Br!Ids /\ B \in SUBSET A
      BY <1>2, <3>2, <3>3, ReservedAfter
    <3>5. Cardinality(A) <= MaxSessions
      BY <2>2, EndIs DEF BrInv, BoundInv
    <3> HIDE DEF A, B
    <3>6. Cardinality(B) <= Cardinality(A) /\ Cardinality(A) \in Nat /\ Cardinality(B) \in Nat
      BY <3>4, FewerIds, IdsFinite
    <3>7. Cardinality(B) <= MaxSessions
      BY <3>5, <3>6, BrowserAssumption
    <3> QED
      BY <3>7 DEF B
  <2> QED
    BY <2>1, <2>2, EndIs DEF BoundInv
<1>10. OrphanInv'
  <2>1. ASSUME NEW s \in Live', s \in Live
        PROVE  s \in sessions \/ Launches(s) \/ \E j \in Unsettled' : j.k = "teardown" /\ j.s = s
    BY <2>1, EndIs DEF BrInv, OrphanInv, Ends
  <2>2. ASSUME NEW s \in Live', s \notin Live
        PROVE  Launches(s)
    BY <2>2, EndIs DEF BrInv, LateInv, Ends
  <2> QED
    BY <1>1, <2>1, <2>2, EndIs DEF OrphanInv
<1>11. EndInv'
  BY <1>1 DEF BrInv, EndInv, Waits
<1> QED
  BY <1>3, <1>4, <1>5, <1>6, <1>7, <1>8, <1>9, <1>10, <1>11 DEF BrInv

\* A caller leaves a job that is not a launch, or has nothing more to do; the sessions it
\* lets go of have no browser that nobody deals with.
Leaves(c) ==
  /\ call' = [call EXCEPT ![c] = call'[c]] /\ call'[c] \in CallT /\ call'[c].k # "launch"
  /\ ~(Waits(c)') /\ ~(Waits(c) /\ call[c].k = "launch")
  /\ sessions' \subseteq sessions
  /\ \A s \in sessions \ sessions' : s \notin Live \/ \E j \in Unsettled : j.k = "teardown" /\ j.s = s
  /\ UNCHANGED <<pending, alive, queue, running, outcome, late, zombies, jobs, refs, dom, lag, acted>>

LEMMA LeaveKeeps ==
  ASSUME BrInv, NEW c \in Br!Callers, Leaves(c), EndInv'
  PROVE  BrInv'
<1>1. /\ \A d \in Br!Callers : d # c => call'[d] = call[d]
      /\ call' \in [Br!Callers -> CallT]
  BY DEF BrInv, BrTypes, Leaves
<1>2. ~(Waits(c)') /\ \A d \in Br!Callers : d # c => (Waits(d)' <=> Waits(d))
  BY <1>1 DEF Waits, Leaves
<1>3. \A n : Launches(n)' <=> Launches(n)
  <2>1. CASE c = "worker"
    BY <1>2, <2>1 DEF Launches, Leaves
  <2>2. CASE c # "worker"
    BY <1>1, <1>2, <2>2 DEF Launches, Br!Callers
  <2> QED
    BY <2>1, <2>2
<1>4. Unsettled' = Unsettled /\ Over' = Over /\ Live' = Live
  BY DEF Unsettled, Over, Live, Ran, Leaves, Br!NoJob
<1>5. Reserved' = Reserved /\ \A n : Doomed(n)' = Doomed(n)
  BY <1>3, <1>4 DEF Reserved, Doomed
<1>6. BrTypes' /\ OrderInv'
  BY <1>1, <1>4 DEF BrInv, BrTypes, OrderInv, Leaves
<1>7. JobInv'
  BY <1>4 DEF BrInv, JobInv, Leaves
<1>8. CallInv'
  <2>1. call'["supervisor"].k # "launch"
    BY <1>1 DEF BrInv, CallInv, Leaves, Br!Callers
  <2> QED
    BY <1>1, <1>2, <1>4, <2>1 DEF BrInv, CallInv, Leaves
<1>9. LateInv'
  BY <1>3, <1>4 DEF BrInv, LateInv, Leaves
<1>10. SlotInv' /\ BoundInv'
  BY <1>3, <1>4, <1>5 DEF BrInv, SlotInv, BoundInv, Leaves
<1>11. OrphanInv'
  BY <1>3, <1>4 DEF BrInv, OrphanInv, Leaves
<1>12. RefInv'
  BY DEF BrInv, RefInv, Br!RefsAreCurrent, Leaves
<1> QED
  BY <1>6, <1>7, <1>8, <1>9, <1>10, <1>11, <1>12 DEF BrInv

\* A launch is left by its caller: settled, it is a session or a browser given up, and the
\* slot is free; unsettled, it has its callback.
LeavesLaunch(n) ==
  /\ Launches(n) /\ call' = [call EXCEPT !["worker"] = Br!Free]
  /\ late' = IF n \in Over THEN late ELSE late \cup {n}
  /\ pending' = IF n \in Over THEN pending - 1 ELSE pending
  /\ sessions \subseteq sessions' /\ sessions' \subseteq sessions \cup ({n} \cap Over)
  /\ zombies \subseteq zombies' /\ zombies' \subseteq zombies \cup {n}
  /\ n \in Over /\ outcome[n] => n \in sessions' \cup zombies'
  /\ UNCHANGED <<alive, queue, running, outcome, jobs, refs, dom, lag, acted>>

LEMMA LeaveLaunchKeeps ==
  ASSUME BrInv, NEW n, LeavesLaunch(n)
  PROVE  BrInv'
<1>1. /\ n \in 1 .. jobs /\ n \in Br!Ids
      /\ n \notin Over => [n |-> n, k |-> "launch", s |-> n] \in Unsettled
  <2>1. n \in 1 .. jobs /\ jobs \in 0 .. MaxJobs
    BY DEF LeavesLaunch, Launches, BrInv, BrTypes, CallInv, Br!Callers
  <2>2. n \in Br!Ids
    BY <2>1, BrowserAssumption DEF Br!Ids
  <2> QED
    BY <2>1, <2>2, LaunchOf DEF LeavesLaunch
<1>2. call'["worker"] = Br!Free /\ call'["supervisor"] = call["supervisor"] /\ call' \in [Br!Callers -> CallT]
  <2>1. Br!Free \in CallT
    BY BrowserAssumption DEF Br!Free, Br!Rests, CallT
  <2> QED
    BY <2>1 DEF BrInv, BrTypes, LeavesLaunch, Br!Callers
<1>3. ~(Waits("worker")') /\ (Waits("supervisor")' <=> Waits("supervisor")) /\ \A m : ~(Launches(m)')
  BY <1>2 DEF Waits, Launches, Br!Free, Br!Rests
<1>4. Unsettled' = Unsettled /\ Over' = Over /\ Live' \subseteq Live
  BY DEF Unsettled, Over, Live, Ran, LeavesLaunch, Br!NoJob
<1>5. \A m : Launches(m) => m = n
  BY DEF LeavesLaunch, Launches
<1>6. n \in Over => Reserved' = Reserved \ {n}
  <2>1. n \in Over => \A j \in Unsettled : j.n # n
    BY DEF BrInv, JobInv
  <2> QED
    BY <1>3, <1>4, <1>5, <2>1 DEF Reserved
<1>7. n \notin Over => Reserved' = Reserved
  BY <1>1, <1>3, <1>4, <1>5 DEF Reserved
<1>8. Reserved \in SUBSET Br!Ids /\ n \in Reserved
  BY <1>1 DEF Reserved, LeavesLaunch
<1>9. SlotInv' /\ pending' \in Nat
  <2>1. CASE n \in Over
    <3>1. Cardinality(Reserved) \in Nat /\ Cardinality(Reserved') = Cardinality(Reserved) - 1
      BY <1>6, <1>8, <2>1, IdsFinite, FS_RemoveElement
    <3>2. Cardinality(Reserved') \in Nat
      BY <1>6, <1>8, <2>1, IdsFinite
    <3> QED
      BY <2>1, <3>1, <3>2, BrowserAssumption DEF BrInv, SlotInv, LeavesLaunch
  <2>2. CASE n \notin Over
    BY <1>7, <2>2 DEF BrInv, BrTypes, SlotInv, LeavesLaunch
  <2> QED
    BY <2>1, <2>2
<1>10. BrTypes' /\ OrderInv'
  <2>1. late' \subseteq 1 .. jobs /\ zombies' \subseteq Br!Ids /\ sessions' \subseteq Br!Ids
    BY <1>1 DEF BrInv, BrTypes, LeavesLaunch
  <2> QED
    BY <1>2, <1>4, <1>9, <2>1 DEF BrInv, BrTypes, OrderInv, LeavesLaunch
<1>11. JobInv'
  BY <1>4 DEF BrInv, JobInv, LeavesLaunch
<1>12. CallInv'
  <2>1. call'["supervisor"].k # "launch"
    BY <1>2 DEF BrInv, CallInv
  <2>2. Waits("supervisor") =>
          /\ call["supervisor"].n \in 1 .. jobs /\ call["supervisor"].k # "none"
          /\ call["supervisor"].n \notin Over =>
               [n |-> call["supervisor"].n, k |-> call["supervisor"].k, s |-> call["supervisor"].s] \in Unsettled
          /\ IF call["supervisor"].k = "launch" THEN call["supervisor"].s = call["supervisor"].n
             ELSE call["supervisor"].s \in Over
          /\ call["supervisor"].k = "teardown" /\ call["supervisor"].n \in Over =>
               call["supervisor"].s \notin Live'
    BY <1>4 DEF BrInv, CallInv, Br!Callers
  <2>3. jobs' = jobs
    BY DEF LeavesLaunch
  <2> QED
    BY <1>2, <1>3, <1>4, <2>1, <2>2, <2>3 DEF CallInv, Br!Callers
<1>13. LateInv'
  <2>1. ASSUME NEW j \in Unsettled, j.k = "launch"
        PROVE  j.n \in late'
    BY <1>5, <2>1 DEF BrInv, LateInv, JobInv, LeavesLaunch
  <2> QED
    BY <1>3, <1>4, <2>1 DEF LateInv
<1>14. BoundInv'
  <2>1. Live \in SUBSET Br!Ids /\ Live' \in SUBSET Live
    BY <1>4 DEF Live, BrInv, BrTypes
  <2>2. Cardinality(Live') <= Cardinality(Live) /\ Cardinality(Live) \in Nat /\ Cardinality(Live') \in Nat
    BY <2>1, FewerIds, IdsFinite
  <2> QED
    BY <1>3, <2>2, BrowserAssumption DEF BrInv, BoundInv
<1>15. OrphanInv'
  <2>1. ASSUME NEW s \in Live', Launches(s)
        PROVE  s \in sessions'
    <3>1. s = n /\ s \in alive /\ s \notin zombies'
      BY <1>5, <2>1 DEF Live, LeavesLaunch
    <3>2. s \in Over
      BY <3>1 DEF BrInv, JobInv
    <3>3. outcome[s]
      BY <2>1, <3>1, <3>2 DEF BrInv, LateInv
    <3> QED
      BY <3>1, <3>2, <3>3 DEF LeavesLaunch
  <2> QED
    BY <1>4, <2>1 DEF BrInv, OrphanInv, LeavesLaunch
<1>16. EndInv'
  BY <1>2, <1>3 DEF EndInv, Br!Free, Br!Rests
<1>17. RefInv'
  BY DEF BrInv, RefInv, Br!RefsAreCurrent, LeavesLaunch
<1> QED
  BY <1>9, <1>10, <1>11, <1>12, <1>13, <1>14, <1>15, <1>16, <1>17 DEF BrInv

\* What touches neither the sessions nor the callers.
LEMMA BrStays ==
  ASSUME BrInv,
         UNCHANGED <<sessions, pending, alive, queue, running, outcome, late, call, zombies, jobs>>,
         RefInv'
  PROVE  BrInv'
<1>1. /\ Unsettled' = Unsettled /\ Over' = Over /\ Live' = Live
      /\ \A n : Launches(n)' <=> Launches(n)
      /\ \A c : Waits(c)' <=> Waits(c)
  BY DEF Unsettled, Over, Live, Ran, Launches, Waits, Br!NoJob
<1>2. Reserved' = Reserved /\ \A n : Doomed(n)' = Doomed(n)
  BY <1>1 DEF Reserved, Doomed
<1>3. BrTypes' /\ OrderInv' /\ JobInv'
  BY <1>1 DEF BrInv, BrTypes, OrderInv, JobInv
<1>4. CallInv' /\ LateInv' /\ OrphanInv'
  BY <1>1 DEF BrInv, CallInv, LateInv, OrphanInv
<1>5. SlotInv' /\ BoundInv'
  BY <1>1, <1>2 DEF BrInv, SlotInv, BoundInv
<1>6. EndInv'
  BY <1>1 DEF BrInv, EndInv
<1> QED
  BY <1>3, <1>4, <1>5, <1>6 DEF BrInv

LEMMA TakeKeeps ==
  ASSUME BrInv, Br!Take
  PROVE  BrInv'
<1>1. /\ running = Br!NoJob /\ queue # <<>> /\ running' = Head(queue) /\ queue' = Tail(queue)
      /\ UNCHANGED <<sessions, pending, alive, outcome, late, call, refs, dom, lag, zombies, acted, jobs>>
  BY DEF Br!Take, Br!Page
<1>2. /\ queue' \in Seq(JobT) /\ running' \in JobT /\ Ran(queue) = {running'} \cup Ran(queue')
      /\ Ordered(queue') /\ \A j \in Ran(queue') : running'.n < j.n
  BY <1>1, RanTail, OrderedTail DEF BrInv, BrTypes, OrderInv
<1>3. running' # Br!NoJob
  BY <1>2 DEF JobT, Br!NoJob, Br!Ids
<1>4. Unsettled' = Unsettled
  BY <1>1, <1>2, <1>3 DEF Unsettled, Br!NoJob
<1>5. /\ Over' = Over /\ Live' = Live
      /\ \A n : Launches(n)' <=> Launches(n)
      /\ \A c : Waits(c)' <=> Waits(c)
  BY <1>1 DEF Over, Live, Launches, Waits
<1>6. Reserved' = Reserved /\ \A n : Doomed(n)' = Doomed(n)
  BY <1>4, <1>5 DEF Reserved, Doomed
<1>7. BrTypes' /\ OrderInv' /\ JobInv'
  BY <1>1, <1>2, <1>4, <1>5 DEF BrInv, BrTypes, OrderInv, JobInv
<1>8. CallInv' /\ LateInv' /\ OrphanInv'
  BY <1>1, <1>4, <1>5 DEF BrInv, CallInv, LateInv, OrphanInv
<1>9. SlotInv' /\ BoundInv'
  BY <1>1, <1>5, <1>6 DEF BrInv, SlotInv, BoundInv
<1>10. EndInv' /\ RefInv'
  BY <1>1, <1>5 DEF BrInv, EndInv, RefInv, Br!RefsAreCurrent
<1> QED
  BY <1>7, <1>8, <1>9, <1>10 DEF BrInv

LEMMA TimeOutKeeps ==
  ASSUME BrInv, NEW c \in Br!Callers, Br!TimeOut(c)
  PROVE  BrInv'
<1>1. /\ call[c].pc = "wait" /\ call' = [call EXCEPT ![c].pc = "gap"]
      /\ UNCHANGED <<sessions, pending, alive, queue, running, outcome, late, refs, dom, lag, zombies,
                     acted, jobs>>
  BY DEF Br!TimeOut, Br!Page
<1>2. call \in [Br!Callers -> CallT] /\ call[c] \in CallT
  BY DEF BrInv, BrTypes
<1>3. call'[c] = [call[c] EXCEPT !.pc = "gap"] /\ \A d \in Br!Callers : d # c => call'[d] = call[d]
  BY <1>1, <1>2
<1>4. /\ call'[c] \in CallT /\ call'[c].pc = "gap" /\ call'[c].n = call[c].n /\ call'[c].k = call[c].k
      /\ call'[c].s = call[c].s /\ call'[c].left = call[c].left /\ call'[c].force = call[c].force
      /\ call'[c].end = call[c].end
  BY <1>2, <1>3 DEF CallT
<1>5. \A d \in Br!Callers : Waits(d)' <=> Waits(d)
  BY <1>1, <1>3, <1>4 DEF Waits
<1>6. \A n : Launches(n)' <=> Launches(n)
  BY <1>3, <1>4, <1>5 DEF Launches, Br!Callers
<1>7. Unsettled' = Unsettled /\ Over' = Over /\ Live' = Live
  BY <1>1 DEF Unsettled, Over, Live, Ran, Br!NoJob
<1>8. Reserved' = Reserved /\ \A n : Doomed(n)' = Doomed(n)
  BY <1>6, <1>7 DEF Reserved, Doomed
<1>9. call' \in [Br!Callers -> CallT]
  BY <1>1, <1>2, <1>3, <1>4
<1>10. BrTypes' /\ OrderInv' /\ JobInv'
  BY <1>1, <1>7, <1>9 DEF BrInv, BrTypes, OrderInv, JobInv
<1>11. CallInv'
  <2>1. \A d \in Br!Callers : /\ call'[d].n = call[d].n /\ call'[d].k = call[d].k /\ call'[d].s = call[d].s
    BY <1>3, <1>4
  <2> QED
    BY <1>1, <1>5, <1>7, <2>1 DEF BrInv, CallInv, Br!Callers
<1>12. LateInv' /\ OrphanInv'
  BY <1>1, <1>6, <1>7 DEF BrInv, LateInv, OrphanInv
<1>13. SlotInv' /\ BoundInv'
  BY <1>1, <1>6, <1>7, <1>8 DEF BrInv, SlotInv, BoundInv
<1>14. EndInv'
  <2>1. CASE c = "worker"
    BY <1>1, <1>4, <1>5, <2>1 DEF BrInv, EndInv, Waits
  <2>2. CASE c # "worker"
    BY <1>1, <1>3, <1>5, <2>2 DEF BrInv, EndInv, Br!Callers
  <2> QED
    BY <2>1, <2>2
<1>15. RefInv'
  BY <1>1 DEF BrInv, RefInv, Br!RefsAreCurrent
<1> QED
  BY <1>10, <1>11, <1>12, <1>13, <1>14, <1>15 DEF BrInv

\* The page of one session changes, or what is known of it.
LEMMA PageKeeps ==
  ASSUME RefInv, NEW s \in Br!Ids,
         \/ /\ refs' = [refs EXCEPT ![s] = 0] /\ dom' \in {dom, [dom EXCEPT ![s] = @ + 1]} /\ lag' = lag
         \/ refs' = [refs EXCEPT ![s] = dom[s]] /\ dom' = dom /\ lag' = lag \ {s}
         \/ refs' = refs /\ dom' = [dom EXCEPT ![s] = @ + 1] /\ lag' = lag \cup {s}
         \/ UNCHANGED <<refs, dom, lag>>,
         acted' = acted \/ (acted' = acted \cup Br!Used(s) /\ refs[s] # 0)
  PROVE  RefInv'
<1>1. Br!RefsAreCurrent'
  <2>1. CASE acted' = acted
    BY <2>1 DEF RefInv, Br!RefsAreCurrent
  <2>2. CASE acted' = acted \cup Br!Used(s) /\ refs[s] # 0
    BY <2>2 DEF RefInv, Br!RefsAreCurrent, Br!Used
  <2> QED
    BY <2>1, <2>2
<1>2. CASE refs' = [refs EXCEPT ![s] = 0] /\ dom' \in {dom, [dom EXCEPT ![s] = @ + 1]} /\ lag' = lag
  BY <1>1, <1>2 DEF RefInv
<1>3. CASE refs' = [refs EXCEPT ![s] = dom[s]] /\ dom' = dom /\ lag' = lag \ {s}
  BY <1>1, <1>3 DEF RefInv
<1>4. CASE refs' = refs /\ dom' = [dom EXCEPT ![s] = @ + 1] /\ lag' = lag \cup {s}
  BY <1>1, <1>4 DEF RefInv
<1>5. CASE UNCHANGED <<refs, dom, lag>>
  BY <1>1, <1>5 DEF RefInv
<1> QED
  BY <1>2, <1>3, <1>4, <1>5

LEMMA RunningIs ==
  ASSUME BrInv, running.k \in JobKinds
  PROVE  /\ running # Br!NoJob /\ running.s \in Br!Ids /\ running.n \in Br!Ids
         /\ running.n \notin Over /\ running.n \notin alive
         /\ running.k = "launch" => running.s = running.n
<1>1. running # Br!NoJob
  BY DEF Br!NoJob, JobKinds
<1>2. running \in Unsettled
  BY <1>1 DEF Unsettled
<1> QED
  BY <1>1, <1>2 DEF BrInv, JobInv, JobT

LEMMA LaunchEnds ==
  ASSUME BrInv, Br!FinishLaunch \/ Br!LaunchFails
  PROVE  BrInv'
<1>1. running.k = "launch" /\ late' = late /\ UNCHANGED <<refs, dom, lag, acted>>
  BY DEF Br!FinishLaunch, Br!LaunchFails, Br!Page
<1>2. /\ running # Br!NoJob /\ running.n \in Br!Ids /\ running.s = running.n /\ running.n \notin alive
  BY <1>1, RunningIs DEF JobKinds
<1>3. RefInv'
  BY <1>1 DEF BrInv, RefInv, Br!RefsAreCurrent
<1>4. CASE Br!FinishLaunch
  <2>1. Br!Settle(TRUE) /\ pending' = IF running.n \in late THEN pending - 1 ELSE pending
    BY <1>4 DEF Br!FinishLaunch
  <2>2. \/ alive' = alive /\ zombies' = zombies
        \/ alive' = alive \cup {running.n} /\ zombies' = zombies /\ running.n \notin late
        \/ alive' = alive \cup {running.n} /\ zombies' = zombies \cup {running.n}
    BY <1>2, <1>4 DEF Br!FinishLaunch
  <2>3. /\ alive' \subseteq alive \cup {running.n} /\ zombies' \subseteq Br!Ids
        /\ Live' \subseteq Live \cup {running.n}
        /\ (running.k = "launch" /\ running.n \notin late) \/ Live' \subseteq Live
    BY <1>1, <1>2, <2>2 DEF Live, BrInv, BrTypes
  <2>4. Ends(TRUE)
    BY <1>1, <1>2, <2>1, <2>3 DEF Ends
  <2> QED
    BY <1>3, <2>4, EndKeeps
<1>5. CASE Br!LaunchFails
  <2>1. /\ Br!Settle(FALSE) /\ pending' = IF running.n \in late THEN pending - 1 ELSE pending
        /\ alive' = alive /\ zombies' = zombies
    BY <1>5 DEF Br!LaunchFails
  <2>2. zombies' \subseteq Br!Ids /\ Live' = Live
    BY <2>1 DEF Live, BrInv, BrTypes
  <2>3. Ends(FALSE)
    BY <1>1, <1>2, <2>1, <2>2 DEF Ends
  <2> QED
    BY <1>3, <2>3, EndKeeps
<1> QED
  BY <1>4, <1>5

LEMMA TeardownEnds ==
  ASSUME BrInv, Br!FinishTeardown
  PROVE  BrInv'
<1>1. /\ running.k = "teardown" /\ late' = late /\ pending' = pending
      /\ refs' = [refs EXCEPT ![running.s] = 0] /\ UNCHANGED <<dom, lag, acted>>
  BY DEF Br!FinishTeardown
<1>2. /\ running # Br!NoJob /\ running.n \notin alive /\ running.s \in Br!Ids
  BY <1>1, RunningIs DEF JobKinds
<1>3. RefInv'
  BY <1>1, <1>2, PageKeeps DEF BrInv
<1>4. \/ Br!Settle(TRUE) /\ alive' = alive \ {running.s} /\ zombies' = zombies \ {running.s}
      \/ Br!Settle(FALSE) /\ alive' = alive /\ zombies' = zombies \cup {running.s}
  BY DEF Br!FinishTeardown
<1>5. alive' \subseteq alive /\ zombies' \subseteq Br!Ids /\ Live' \subseteq Live /\ running.s \notin Live'
  BY <1>2, <1>4 DEF Live, BrInv, BrTypes
<1>6. CASE Br!Settle(TRUE)
  <2>1. Ends(TRUE)
    BY <1>1, <1>2, <1>5, <1>6 DEF Ends
  <2> QED
    BY <1>3, <2>1, EndKeeps
<1>7. CASE Br!Settle(FALSE)
  <2>1. Ends(FALSE)
    BY <1>1, <1>2, <1>5, <1>7 DEF Ends
  <2> QED
    BY <1>3, <2>1, EndKeeps
<1> QED
  BY <1>4, <1>6, <1>7

LEMMA OperationEnds ==
  ASSUME BrInv, Br!FinishGoto \/ Br!FinishSnap \/ Br!FinishAct
  PROVE  BrInv'
<1>1. /\ running.k \in {"goto", "snap", "act"} /\ UNCHANGED <<late, pending, alive, zombies>>
  BY DEF Br!FinishGoto, Br!FinishSnap, Br!FinishAct
<1>2. running # Br!NoJob /\ running.n \notin alive /\ running.s \in Br!Ids
  BY <1>1, RunningIs DEF JobKinds
<1>3. RefInv'
  <2>1. CASE Br!FinishGoto
    BY <1>2, <2>1, PageKeeps DEF BrInv, Br!FinishGoto
  <2>2. CASE Br!FinishSnap
    BY <1>2, <2>2, PageKeeps DEF BrInv, Br!FinishSnap
  <2>3. CASE Br!FinishAct
    BY <1>2, <2>3, PageKeeps DEF BrInv, Br!FinishAct
  <2> QED
    BY <2>1, <2>2, <2>3
<1>4. Br!Settle(TRUE) \/ Br!Settle(FALSE)
  BY DEF Br!FinishGoto, Br!FinishSnap, Br!FinishAct
<1>5. Live' = Live /\ zombies' \subseteq Br!Ids
  BY <1>1 DEF Live, BrInv, BrTypes
<1>6. CASE Br!Settle(TRUE)
  <2>1. Ends(TRUE)
    BY <1>1, <1>2, <1>5, <1>6 DEF Ends
  <2> QED
    BY <1>3, <2>1, EndKeeps
<1>7. CASE Br!Settle(FALSE)
  <2>1. Ends(FALSE)
    BY <1>1, <1>2, <1>5, <1>7 DEF Ends
  <2> QED
    BY <1>3, <2>1, EndKeeps
<1> QED
  BY <1>4, <1>6, <1>7

\* On to the next session to close, or done.
LEMMA CloseNextKeeps ==
  ASSUME BrInv, NEW c \in Br!Callers, ~Waits(c), NEW rest \in SUBSET Br!Ids, NEW force \in BOOLEAN,
         NEW end \in {"free", "ended", "asleep"}, Br!CloseNext(c, rest, force, end),
         c = "worker" /\ end = "ended" => force /\ sessions \subseteq rest,
         UNCHANGED <<sessions, pending, alive, running, outcome, late, zombies, refs, dom, lag, acted>>
  PROVE  BrInv'
<1> DEFINE todo == rest \cap sessions
<1>1. CASE todo = {}
  <2>1. call' = [call EXCEPT ![c] = Br!Rests(end)] /\ UNCHANGED <<queue, jobs>>
    BY <1>1 DEF Br!CloseNext
  <2>2. /\ call'[c] = Br!Rests(end) /\ Br!Rests(end) \in CallT
        /\ \A d \in Br!Callers : d # c => call'[d] = call[d]
    BY <2>1, BrowserAssumption DEF BrInv, BrTypes, Br!Rests, CallT
  <2>3. ~(Waits(c)') /\ call'[c].k # "launch"
    BY <2>2 DEF Waits, Br!Rests
  <2>4. Leaves(c)
    BY <2>1, <2>2, <2>3 DEF Leaves
  <2>5. EndInv'
    <3>1. CASE c = "worker"
      BY <1>1, <2>2, <2>3, <3>1 DEF EndInv, Br!Rests
    <3>2. CASE c # "worker"
      BY <2>2, <3>2 DEF BrInv, EndInv, Waits, Br!Callers
    <3> QED
      BY <3>1, <3>2
  <2> QED
    BY <2>4, <2>5, LeaveKeeps
<1>2. CASE todo # {}
  <2>1. PICK s \in todo : Br!Submit(c, "teardown", s, todo \ {s}, force, end)
    BY <1>2 DEF Br!CloseNext
  <2> DEFINE r == [pc |-> "wait", n |-> jobs + 1, k |-> "teardown", s |-> s, left |-> todo \ {s},
                   force |-> force, end |-> end]
  <2>2. "teardown" \in JobKinds /\ s \in Br!Ids /\ s \in Over
    BY DEF JobKinds, BrInv, BrTypes, JobInv
  <2>3. /\ jobs < MaxJobs /\ jobs' = jobs + 1 /\ call' = [call EXCEPT ![c] = r]
        /\ queue' = Append(queue, [n |-> r.n, k |-> r.k, s |-> r.s])
        /\ UNCHANGED <<sessions, alive, zombies, running, outcome, late>>
    BY <2>1 DEF Br!Submit
  <2>4. jobs + 1 \in 0 .. MaxJobs /\ s \in 0 .. MaxJobs
    BY <2>2, <2>3, BrowserAssumption DEF BrInv, BrTypes, Br!Ids
  <2>5. r \in CallT
    BY <2>2, <2>4 DEF CallT
  <2>6. /\ r.pc = "wait" /\ r.n = jobs + 1 /\ r.k = "teardown" /\ r.s = s /\ r.left = todo \ {s}
        /\ r.force = force /\ r.end = end
    OBVIOUS
  <2> HIDE DEF r
  <2>7. Submits(c) /\ call'[c] = r
    <3>1. r.k \in JobKinds /\ r.s \in Br!Ids /\ r.n = jobs + 1 /\ r.pc = "wait"
      BY <2>2, <2>6
    <3>2. c \in Br!Callers /\ ~Waits(c)
      OBVIOUS
    <3>3. queue' = Append(queue, [n |-> r.n, k |-> r.k, s |-> r.s])
      BY <2>3
    <3> QED
      BY <2>3, <2>5, <3>1, <3>2, <3>3, SubmitIs
  <2>8. c = "worker" /\ call'[c].end = "ended" =>
          call'[c].k = "teardown" /\ call'[c].force /\ sessions \subseteq call'[c].left \cup {call'[c].s}
    BY <2>6, <2>7
  <2> QED
    BY <2>2, <2>6, <2>7, <2>8, SubmitKeeps
<1> QED
  BY <1>1, <1>2

LEMMA OperateKeeps ==
  ASSUME BrInv, Br!Operate
  PROVE  BrInv'
<1>1. PICK k \in {"goto", "snap", "act"}, s \in sessions : Br!Submit("worker", k, s, {}, FALSE, "free")
  BY DEF Br!Operate
<1> DEFINE r == [pc |-> "wait", n |-> jobs + 1, k |-> k, s |-> s, left |-> {},
                 force |-> FALSE, end |-> "free"]
<1>2. /\ "worker" \in Br!Callers /\ ~Waits("worker") /\ k \in JobKinds /\ k # "launch"
      /\ s \in Br!Ids /\ s \in Over
  BY DEF Br!Operate, Br!Callers, Waits, Br!Free, Br!Rests, JobKinds, BrInv, BrTypes, JobInv
<1>3. UNCHANGED <<sessions, pending, alive, running, outcome, late, zombies, refs, dom, lag, acted>>
  BY DEF Br!Operate, Br!Page
<1>4. /\ jobs < MaxJobs /\ jobs' = jobs + 1 /\ call' = [call EXCEPT !["worker"] = r]
      /\ queue' = Append(queue, [n |-> r.n, k |-> r.k, s |-> r.s])
  BY <1>1 DEF Br!Submit
<1>5. jobs + 1 \in 0 .. MaxJobs /\ s \in 0 .. MaxJobs
  BY <1>2, <1>4, BrowserAssumption DEF BrInv, BrTypes, Br!Ids
<1>6. r \in CallT
  BY <1>2, <1>5 DEF CallT
<1>7. r.pc = "wait" /\ r.n = jobs + 1 /\ r.k = k /\ r.s = s /\ r.end = "free"
  OBVIOUS
<1> HIDE DEF r
<1>8. Submits("worker") /\ call'["worker"] = r
  BY <1>2, <1>3, <1>4, <1>6, <1>7, SubmitIs
<1> QED
  BY <1>2, <1>3, <1>7, <1>8, SubmitKeeps

LEMMA CloseKeeps ==
  ASSUME BrInv, Br!Close \/ Br!WorkerEnds \/ Br!SupervisorCloses \/ \E c \in Br!Callers : Br!Continue(c)
  PROVE  BrInv'
<1>1. /\ sessions \in SUBSET Br!Ids /\ "worker" \in Br!Callers /\ "supervisor" \in Br!Callers
      /\ TRUE \in BOOLEAN /\ FALSE \in BOOLEAN
      /\ {"free", "ended"} \subseteq {"free", "ended", "asleep"}
      /\ \A s \in sessions : {s} \in SUBSET Br!Ids
  BY DEF BrInv, BrTypes, Br!Callers
<1>2. UNCHANGED <<sessions, pending, alive, running, outcome, late, zombies, refs, dom, lag, acted>>
  BY DEF Br!Close, Br!WorkerEnds, Br!SupervisorCloses, Br!Continue, Br!Page
<1>3. CASE Br!Close
  <2>1. ~Waits("worker")
    BY <1>3 DEF Br!Close, Waits, Br!Free, Br!Rests
  <2>2. ASSUME NEW s \in sessions, Br!CloseNext("worker", {s}, FALSE, "free")
        PROVE  BrInv'
    BY <1>1, <1>2, <2>1, <2>2, CloseNextKeeps
  <2>3. ASSUME Br!CloseNext("worker", sessions, TRUE, "free")
        PROVE  BrInv'
    BY <1>1, <1>2, <2>1, <2>3, CloseNextKeeps
  <2> QED
    BY <1>3, <2>2, <2>3 DEF Br!Close
<1>4. CASE Br!WorkerEnds
  <2>1. call["worker"] = Br!Free /\ Br!CloseNext("worker", sessions, TRUE, "ended")
    BY <1>4 DEF Br!WorkerEnds
  <2>2. ~Waits("worker")
    BY <2>1 DEF Waits, Br!Free, Br!Rests
  <2> QED
    BY <1>1, <1>2, <2>1, <2>2, CloseNextKeeps
<1>5. CASE Br!SupervisorCloses
  <2>1. ~Waits("supervisor") /\ Br!CloseNext("supervisor", sessions, TRUE, "ended")
    BY <1>5 DEF Br!SupervisorCloses, Waits
  <2> QED
    BY <1>1, <1>2, <2>1, CloseNextKeeps
<1>6. ASSUME NEW c \in Br!Callers, Br!Continue(c)
      PROVE  BrInv'
  <2>1. /\ call[c].pc = "next" /\ ~Waits(c)
        /\ Br!CloseNext(c, call[c].left, call[c].force, call[c].end)
    BY <1>6 DEF Br!Continue, Waits
  <2>2. /\ call[c].left \in SUBSET Br!Ids /\ call[c].force \in BOOLEAN
        /\ call[c].end \in {"free", "ended", "asleep"}
    BY DEF BrInv, BrTypes, CallT
  <2>3. c = "worker" /\ call[c].end = "ended" => call[c].force /\ sessions \subseteq call[c].left
    BY <2>1 DEF BrInv, EndInv
  <2> QED
    BY <1>2, <2>1, <2>2, <2>3, CloseNextKeeps
<1> QED
  BY <1>3, <1>4, <1>5, <1>6

\* A caller comes back from its job, or gives up on it.
LEMMA LaunchReturns ==
  ASSUME BrInv, NEW c \in Br!Callers, Br!OpenReturns \/ (Br!Attach(c) /\ call[c].k = "launch")
  PROVE  BrInv'
<1> DEFINE n == call["worker"].n
<1>1. CASE Br!OpenReturns
  <2>1. Launches(n) /\ n \in Over /\ call["worker"].s = n
    BY <1>1 DEF Br!OpenReturns, Launches, Waits, Over, BrInv, CallInv, Br!Callers
  <2>2. LeavesLaunch(n)
    BY <1>1, <2>1 DEF Br!OpenReturns, LeavesLaunch, Br!Page, Over
  <2> QED
    BY <2>2, LeaveLaunchKeeps
<1>2. CASE Br!Attach(c) /\ call[c].k = "launch"
  <2>1. c = "worker" /\ Waits("worker") /\ call["worker"].k = "launch" /\ call["worker"].s = n
    BY <1>2 DEF Br!Attach, Waits, BrInv, CallInv, Br!Callers
  <2>2. Launches(n)
    BY <2>1 DEF Launches
  <2>3. /\ late' = IF n \in Over THEN late ELSE late \cup {n}
        /\ pending' = IF n \in Over THEN pending - 1 ELSE pending
        /\ zombies' = IF n \in Over /\ outcome[n] THEN zombies \cup {n} ELSE zombies
        /\ call' = [call EXCEPT !["worker"] = Br!Free] /\ UNCHANGED sessions
    BY <1>2, <2>1 DEF Br!Attach, Over
  <2>4. UNCHANGED <<alive, queue, running, outcome, jobs, refs, dom, lag, acted>>
    BY <1>2 DEF Br!Attach, Br!Page
  <2> HIDE DEF n
  <2>5. LeavesLaunch(n)
    BY <2>2, <2>3, <2>4 DEF LeavesLaunch
  <2> QED
    BY <2>5, LeaveLaunchKeeps
<1> QED
  BY <1>1, <1>2

LEMMA OperationReturned ==
  ASSUME BrInv, NEW c \in Br!Callers, call' = [call EXCEPT ![c] = Br!Free],
         ~(Waits(c) /\ call[c].k = "launch"),
         UNCHANGED <<sessions, pending, alive, queue, running, outcome, late, zombies, jobs,
                     refs, dom, lag, acted>>
  PROVE  BrInv'
<1>1. call'[c] = Br!Free /\ \A d \in Br!Callers : d # c => call'[d] = call[d]
  BY DEF BrInv, BrTypes
<1>2. Br!Free \in CallT
  BY BrowserAssumption DEF Br!Free, Br!Rests, CallT
<1>3. Leaves(c)
  <2>1. call' = [call EXCEPT ![c] = call'[c]]
    BY <1>1
  <2>2. ~(Waits(c)') /\ call'[c].k # "launch"
    BY <1>1 DEF Waits, Br!Free, Br!Rests
  <2> QED
    BY <1>1, <1>2, <2>1, <2>2 DEF Leaves
<1>4. EndInv'
  <2>1. CASE c = "worker"
    BY <1>1, <2>1 DEF EndInv, Waits, Br!Free, Br!Rests
  <2>2. CASE c # "worker"
    BY <1>1, <2>2 DEF BrInv, EndInv, Waits, Br!Callers
  <2> QED
    BY <2>1, <2>2
<1> QED
  BY <1>3, <1>4, LeaveKeeps

LEMMA CloseReturned ==
  ASSUME BrInv, NEW c \in Br!Callers, Waits(c), call[c].k = "teardown", Br!GoOn(c),
         sessions' = sessions \/ sessions' = sessions \ {call[c].s},
         call[c].force => sessions' = sessions \ {call[c].s},
         UNCHANGED <<pending, alive, queue, running, outcome, late, zombies, jobs, refs, dom, lag, acted>>
  PROVE  BrInv'
<1>1. /\ call[c] \in CallT /\ call \in [Br!Callers -> CallT]
      /\ call' = [call EXCEPT ![c].pc = "next", ![c].n = 0, ![c].k = "none", ![c].s = 0]
  BY DEF BrInv, BrTypes, Br!GoOn
<1>2. /\ call'[c] = [call[c] EXCEPT !.pc = "next", !.n = 0, !.k = "none", !.s = 0]
      /\ \A d \in Br!Callers : d # c => call'[d] = call[d]
  BY <1>1
<1>3. call'[c] = [pc |-> "next", n |-> 0, k |-> "none", s |-> 0, left |-> call[c].left,
                  force |-> call[c].force, end |-> call[c].end]
  BY <1>1, <1>2 DEF CallT
<1>4. call'[c] \in CallT
  BY <1>1, <1>3, BrowserAssumption DEF CallT
<1>5. call[c].s \notin Live \/ \E j \in Unsettled : j.k = "teardown" /\ j.s = call[c].s
  BY DEF BrInv, CallInv
<1>6. call' = [call EXCEPT ![c] = call'[c]]
  BY <1>1, <1>2
<1>7. Leaves(c)
  BY <1>3, <1>4, <1>5, <1>6 DEF Leaves, Waits
<1>8. EndInv'
  <2>1. CASE c = "worker"
    BY <1>3, <2>1 DEF BrInv, EndInv, Waits
  <2>2. CASE c # "worker"
    BY <1>2, <2>2 DEF BrInv, EndInv, Waits, Br!Callers
  <2> QED
    BY <2>1, <2>2
<1> QED
  BY <1>7, <1>8, LeaveKeeps

LEMMA CallReturns ==
  ASSUME BrInv,
         \/ Br!OpenReturns \/ Br!OperationReturns
         \/ \E c \in Br!Callers : Br!CloseReturns(c) \/ Br!Attach(c)
  PROVE  BrInv'
<1>1. CASE Br!OpenReturns
  <2>1. "worker" \in Br!Callers
    BY DEF Br!Callers
  <2> QED
    BY <1>1, <2>1, LaunchReturns
<1>2. CASE Br!OperationReturns
  <2>1. "worker" \in Br!Callers
    BY DEF Br!Callers
  <2>2. /\ call' = [call EXCEPT !["worker"] = Br!Free] /\ call["worker"].k # "launch"
        /\ UNCHANGED <<sessions, pending, alive, queue, running, outcome, late, zombies, jobs,
                       refs, dom, lag, acted>>
    BY <1>2 DEF Br!OperationReturns, Br!Page
  <2> QED
    BY <2>1, <2>2, OperationReturned
<1>3. ASSUME NEW c \in Br!Callers, Br!CloseReturns(c)
      PROVE  BrInv'
  <2>1. /\ Waits(c) /\ call[c].k = "teardown" /\ Br!GoOn(c)
        /\ UNCHANGED <<pending, alive, queue, running, outcome, late, zombies, jobs, refs, dom, lag, acted>>
    BY <1>3 DEF Br!CloseReturns, Waits, Br!Page
  <2>2. /\ sessions' = sessions \/ sessions' = sessions \ {call[c].s}
        /\ call[c].force => sessions' = sessions \ {call[c].s}
    BY <1>3 DEF Br!CloseReturns, Br!Freed
  <2> QED
    BY <2>1, <2>2, CloseReturned
<1>4. ASSUME NEW c \in Br!Callers, Br!Attach(c)
      PROVE  BrInv'
  <2>1. Waits(c) /\ UNCHANGED <<alive, queue, running, outcome, jobs, refs, dom, lag, acted>>
    BY <1>4 DEF Br!Attach, Waits, Br!Page
  <2>2. CASE call[c].k = "launch"
    BY <1>4, <2>2, LaunchReturns
  <2>3. CASE call[c].k = "teardown"
    <3>1. Br!GoOn(c) /\ UNCHANGED <<late, pending, zombies>>
      BY <1>4, <2>3 DEF Br!Attach
    <3>2. /\ sessions' = sessions \/ sessions' = sessions \ {call[c].s}
          /\ call[c].force => sessions' = sessions \ {call[c].s}
      BY <1>4, <2>3 DEF Br!Attach, Br!Freed
    <3> QED
      BY <2>1, <2>3, <3>1, <3>2, CloseReturned
  <2>4. CASE call[c].k \notin {"launch", "teardown"}
    <3>1. call' = [call EXCEPT ![c] = Br!Free] /\ UNCHANGED <<late, pending, zombies, sessions>>
      BY <1>4, <2>4 DEF Br!Attach
    <3> QED
      BY <2>1, <2>4, <3>1, OperationReturned
  <2> QED
    BY <2>2, <2>3, <2>4
<1> QED
  BY <1>1, <1>2, <1>3, <1>4

LEMMA BrNext ==
  ASSUME BrInv, Br!Next
  PROVE  BrInv'
<1>1. CASE Br!Stop
  <2>1. RefInv'
    BY <1>1 DEF Br!Stop, Br!Page, BrInv, RefInv, Br!RefsAreCurrent
  <2> QED
    BY <1>1, <2>1, BrStays DEF Br!Stop
<1>2. CASE Br!PageMoves
  <2>1. PICK s \in alive : dom' = [dom EXCEPT ![s] = @ + 1] /\ lag' = lag \cup {s}
    BY <1>2 DEF Br!PageMoves
  <2>2. refs' = refs /\ acted' = acted /\ s \in Br!Ids
    BY <1>2 DEF Br!PageMoves, BrInv, BrTypes
  <2>3. RefInv'
    BY <2>1, <2>2, PageKeeps DEF BrInv
  <2> QED
    BY <1>2, <2>3, BrStays DEF Br!PageMoves
<1>3. ASSUME NEW c \in Br!Callers, Br!TimeOut(c)
      PROVE  BrInv'
  BY <1>3, TimeOutKeeps
<1> QED
  BY <1>1, <1>2, <1>3, OpenKeeps, OperateKeeps, CloseKeeps, TakeKeeps, LaunchEnds, TeardownEnds,
     OperationEnds, CallReturns DEF Br!Next

LEMMA BrIdles ==
  ASSUME BrInv, UNCHANGED brVars
  PROVE  BrInv'
<1>1. RefInv'
  BY DEF brVars, BrInv, RefInv, Br!RefsAreCurrent
<1> QED
  BY <1>1, BrStays DEF brVars

LEMMA BrGives ==
  ASSUME BrInv
  PROVE  Br!SessionsExact
<1>1. Br!Cardinality(Br!Launching) = Cardinality(Reserved)
  BY ReservedIs DEF Br!Cardinality, Cardinality
<1>2. Br!Cardinality(alive \ zombies) = Cardinality(Live)
  BY DEF Br!Cardinality, Cardinality, Live
<1>3. Br!TypeOK
  <2>1. \A i \in 1 .. Len(queue) : queue[i].n \in Br!Ids
    <3>1. queue \in Seq(JobT)
      BY DEF BrInv, BrTypes
    <3>2. \A i \in 1 .. Len(queue) : queue[i] \in JobT
      BY <3>1
    <3> QED
      BY <3>2 DEF JobT
  <2>2. Over \subseteq Br!Ids /\ late \subseteq Br!Ids
    BY BrowserAssumption DEF BrInv, BrTypes, Br!Ids
  <2>3. pending \in 0 .. MaxSessions
    BY BrowserAssumption DEF BrInv, BrTypes, SlotInv
  <2> QED
    BY <2>1, <2>2, <2>3 DEF BrInv, BrTypes, RefInv, Br!TypeOK, Over
<1>4. Br!SlotsExact /\ Br!BrowsersBounded
  BY <1>1, <1>2 DEF BrInv, SlotInv, BoundInv, Br!SlotsExact, Br!BrowsersBounded
<1>5. Br!NoOrphan
  BY DEF BrInv, OrphanInv, Br!NoOrphan, Live, Br!Launching, Launches, Waits, Unsettled, Ran,
     BrTypes, Br!NoJob
<1>6. Br!ShutdownCloses
  <2>1. ASSUME \A c \in Br!Callers : call[c] = Br!Ended, queue = <<>>, running = Br!NoJob
        PROVE  sessions = {} /\ alive \subseteq zombies
    <3>1. call["worker"].pc = "ended"
      BY <2>1 DEF Br!Callers, Br!Ended, Br!Rests
    <3>2. sessions = {}
      BY <3>1 DEF BrInv, EndInv
    <3>3. Unsettled = {} /\ \A s : ~Launches(s)
      BY <2>1, <3>1 DEF Unsettled, Ran, Launches, Waits
    <3> QED
      BY <3>2, <3>3 DEF BrInv, OrphanInv, Live
  <2> QED
    BY <2>1 DEF Br!ShutdownCloses
<1>7. Br!RefsAreCurrent
  BY DEF BrInv, RefInv
<1> QED
  BY <1>3, <1>4, <1>5, <1>6, <1>7 DEF Br!SessionsExact

\* tools/browser_sessions.py: however callers that time out, jobs that end too late or fail,
\* pages that change and a shutdown interleave, the slots reserved are those of the launches
\* under way, no more browsers run than sessions are allowed, none runs that nobody will
\* close, a shutdown leaves none, and a reference used is that of the page as it is.
THEOREM SessionsKept == RuntimeSpec => []SessionsExact
<1>1. RuntimeInit => BrInv
  BY BrInit DEF RuntimeInit
<1>2. BrInv /\ [RuntimeNext]_<<vars, focus, umVars, pvVars, brVars, sbVars, gsVars>> => BrInv'
  BY BrNext, BrIdles DEF RuntimeNext
<1>3. BrInv => SessionsExact
  BY BrGives DEF SessionsExact
<1> QED
  BY <1>1, <1>2, <1>3, PTL DEF RuntimeSpec
===============================================================================
