------------------------------ MODULE MCKeepers ------------------------------
(***************************************************************************)
(* What the host keeps for its operator: the goals ledger, which this      *)
(* module extends, and each on its own small instance identity cards,      *)
(* media, the runtime controls and the viewing set of a moment.  The       *)
(* keepers share no state; a behaviour exercises the one that focus names  *)
(* and leaves the others as they start.  Media has two instances: one with *)
(* a fault, and one with two posts.                                        *)
(***************************************************************************)
EXTENDS Goals, Sequences

CONSTANTS Low, High, MinShare, DefaultMax, HardMax, DefaultShare, Asked,
          ControlCalls, ControlFaults, ControlRestarts, ControlOverrides   \* Controls

\* The ranges of the controls, and the defaults in them.
ASSUME ControlAssumption ==
  /\ {Low, High, MinShare, DefaultMax, HardMax, DefaultShare} \subseteq Nat \ {0}
  /\ Asked \subseteq Nat
  /\ Low <= High /\ MinShare <= DefaultShare
  /\ DefaultShare <= DefaultMax /\ DefaultMax <= HardMax

VARIABLES focus,  \* the component this behaviour is about
          actor, boot, cur, draft, idMeta, files, idPc, idLoc, uses, granted,
          promoted, lives, asked, strayed, idTorn, raced, idCalls, bodies, minted,
          idFaults, idDeaths, mdBlobs, mdMeta, mirror, msgs, mdPc, mdLoc, slots,
          reset, ids, sent, left, crossed, overlap, mdTorn, mdFaults, upkeeps,
          mdResets, mem, file, ctPc, req, used, shown, unsaved, stray, ctCalls,
          ctFaults, restarts, overrides, content, store, viBlobs, moment, wake,
          viPc, viewing, dirty, wire, crumbs, here, missed, last, viCalls, viFaults,
          moments

\* Viewing: two images that together exceed the bytes, two audios for one place,
\* an overlong video and a document without text.
Kind == [d |-> "doc", i |-> "image", j |-> "image", r |-> "audio", s |-> "audio", v |-> "video"]
Size == [c \in DOMAIN Kind |-> IF c = "j" THEN 2 ELSE 1]
Parts == [image |-> 2, audio |-> 1, video |-> 1]
Bytes == [k \in DOMAIN Parts |-> 2]

Id == INSTANCE Identity WITH
  Limit <- 1, MaxBodies <- 4, MaxGrants <- 2, MaxPromotes <- 2, MaxFaults <- 1,
  MaxDeaths <- 1, meta <- idMeta, pc <- idPc, loc <- idLoc, torn <- idTorn,
  calls <- idCalls, faults <- idFaults, deaths <- idDeaths
Md == INSTANCE Media WITH
  Shas <- {"x"}, Uploaders <- {"u1"}, Slots <- 1, Budget <- 1, MaxIds <- 2, MaxMsgs <- 1,
  MaxFaults <- 1, MaxUpkeeps <- 1, MaxResets <- 1, blobs <- mdBlobs, meta <- mdMeta,
  pc <- mdPc, loc <- mdLoc, torn <- mdTorn, faults <- mdFaults, resets <- mdResets
Posts == INSTANCE Media WITH
  Shas <- {"x"}, Uploaders <- {"u1"}, Slots <- 1, Budget <- 1, MaxIds <- 2, MaxMsgs <- 2,
  MaxFaults <- 0, MaxUpkeeps <- 1, MaxResets <- 1, blobs <- mdBlobs, meta <- mdMeta,
  pc <- mdPc, loc <- mdLoc, torn <- mdTorn, faults <- mdFaults, resets <- mdResets
Ct == INSTANCE Controls WITH
  MaxCalls <- ControlCalls, MaxFaults <- ControlFaults, MaxRestarts <- ControlRestarts,
  MaxOverrides <- ControlOverrides, pc <- ctPc, calls <- ctCalls, faults <- ctFaults
Vi == INSTANCE Viewing WITH
  Contents <- DOMAIN Kind, Kind <- Kind, Size <- Size, Long <- {"v"}, Odd <- {"d"},
  MaxParts <- Parts, MaxBytes <- Bytes, Wakes <- {<<>>, <<"i", "s">>}, ViewMax <- 2,
  MaxIds <- 3, MaxCalls <- 2, MaxFaults <- 1, MaxMoments <- 2, blobs <- viBlobs,
  pc <- viPc, calls <- viCalls, faults <- viFaults

idVars ==
  <<actor, boot, cur, draft, idMeta, files, idPc, idLoc, uses, granted, promoted, lives,
    asked, strayed, idTorn, raced, idCalls, bodies, minted, idFaults, idDeaths>>
mdVars ==
  <<mdBlobs, mdMeta, mirror, msgs, mdPc, mdLoc, slots, reset, ids, sent, left, crossed,
    overlap, mdTorn, mdFaults, upkeeps, mdResets>>
ctVars ==
  <<mem, file, ctPc, req, used, shown, unsaved, stray, ctCalls, ctFaults, restarts,
    overrides>>
viVars ==
  <<content, store, viBlobs, moment, wake, viPc, viewing, dirty, wire, crumbs, here,
    missed, last, viCalls, viFaults, moments>>

KeepersInit ==
  /\ focus \in {"identity", "media", "posts", "goals", "controls", "viewing"}
  /\ Id!Init
  /\ (focus # "identity" => actor = "self")
  /\ Md!Init
  /\ Init
  /\ Ct!Init
  /\ Vi!Init

KeepersNext ==
  /\ UNCHANGED focus
  /\ \/ /\ focus = "identity" /\ Id!Next
        /\ UNCHANGED <<vars, mdVars, ctVars, viVars>>
     \/ /\ focus = "media" /\ Md!Next
        /\ UNCHANGED <<vars, idVars, ctVars, viVars>>
     \/ /\ focus = "posts" /\ Posts!Next
        /\ UNCHANGED <<vars, idVars, ctVars, viVars>>
     \/ /\ focus = "goals" /\ Next
        /\ UNCHANGED <<idVars, mdVars, ctVars, viVars>>
     \/ /\ focus = "controls" /\ Ct!Next
        /\ UNCHANGED <<vars, idVars, mdVars, viVars>>
     \/ /\ focus = "viewing" /\ Vi!Next
        /\ UNCHANGED <<vars, idVars, mdVars, ctVars>>

KeepersSpec ==
  KeepersInit /\ [][KeepersNext]_<<vars, focus, idVars, mdVars, ctVars, viVars>>

-----------------------------------------------------------------------------

(* Identity *)

\* Promotions from two stores with deaths in between keep the history of a card and
\* the files its index names, lose no draft, put live only what was approved, and
\* use no grant twice.
CardsKept == focus = "identity" => Id!CardsKept

(* Media *)

\* With uploads, posts, upkeep and a reset at work: a meta has its bytes, a blob has
\* an owner, what was sent is kept and belongs to one message, and upload slots
\* are given back.
AttachmentsKept ==
  /\ focus = "media" => Md!AttachmentsKept
  /\ focus = "posts" => Posts!AttachmentsKept

(* Controls *)

\* A control that was set is there after a restart, in its range, and the meals are
\* fed what the status shows.
ControlsHold == focus = "controls" => Ct!ControlsHold

(* Viewing *)

\* Wake and viewing set share their budgets, nothing is left out in silence, what
\* goes out is current and of this moment, and a view shows what was asked for.
ShownFaithfully == focus = "viewing" => Vi!ShownFaithfully

=============================================================================
