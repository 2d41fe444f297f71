------------------------------- MODULE Viewing -------------------------------
(***************************************************************************)
(* What the model gets to see during a moment: the tool view_media, the    *)
(* worker's moment-local viewing set with its dirty flag, the hop that     *)
(* rebuilds the outer messages, and the expansion that shares the image,   *)
(* audio and video budgets between the wake message and the viewing set.   *)
(*                                                                         *)
(* Bytes are members of Contents: the kind, the size and what a probe      *)
(* would find wrong with them are functions of the content.  An attachment *)
(* is an index of `content`; `store` holds the ones that still have a meta *)
(* and `blobs` the contents that can still be read.                        *)
(***************************************************************************)
EXTENDS Naturals, Sequences, SequencesExt, FiniteSets, FiniteSetsExt

CONSTANTS Contents, Kind, Size, \* the bytes, their kind and their size
          Long, Odd,            \* over the duration limit; a format the wire has not
          MaxParts, MaxBytes,   \* per kind: how many, how large together
          Wakes,                \* contents a wake message may carry
          ViewMax,              \* MAX_VIEWING_SET
          MaxIds, MaxCalls, MaxFaults, MaxMoments

Media == {"image", "audio", "video"}
Outside == {"none", "missing", "barred"}  \* no source, a soft miss, a refused one
NoWire == [wake |-> <<>>, view |-> <<>>, parts |-> {}, notes |-> {}, unread |-> {}]

VARIABLES content, store, blobs,  \* the media store
          moment, wake, pc,       \* the open moment: its attachments, its step
          viewing, dirty,         \* the worker's viewing set and its flag
          wire,                   \* the media of the outer messages
          crumbs,                 \* view observations kept in memory atoms
          here,                   \* bookkeeping: viewed in this moment
          missed,                 \* bookkeeping: the last rebuild failed
          last,                   \* bookkeeping: the sources of the last view
          calls, faults, moments

vars == <<content, store, blobs, moment, wake, pc, viewing, dirty, wire, crumbs, here,
          missed, last, calls, faults, moments>>
media == <<content, store, blobs>>
bouts == <<moment, wake, moments>>
notes == <<crumbs, here, last>>

Ids == DOMAIN content
KindOf(a) == Kind[content[a]]
Readable(a) == a \in store /\ content[a] \in blobs

-----------------------------------------------------------------------------
(* Expansion                                                               *)

Empty == [parts |-> <<>>, notes |-> {}, bytes |-> 0, seen |-> {}, stop |-> FALSE]
Told(acc, a) == [acc EXCEPT !.notes = @ \cup {a}]
Shown(acc, a) == [acc EXCEPT !.parts = Append(@, a), !.bytes = @ + Size[content[a]]]
Overflows(acc, a, k) == acc.bytes + Size[content[a]] > MaxBytes[k]

\* _build_image_parts: nothing is said of an image that stays out, and one that
\* does not fit ends its row.
ImagePart(acc, a) ==
  CASE acc.stop \/ Len(acc.parts) >= MaxParts["image"] -> acc
    [] ~Readable(a) -> acc
    [] Overflows(acc, a, "image") -> [acc EXCEPT !.stop = TRUE]
    [] OTHER -> Shown(acc, a)

\* _build_audio_parts: every item that stays out has a notice.
AudioPart(acc, a) ==
  IF \/ Len(acc.parts) >= MaxParts["audio"] \/ content[a] \in Odd \/ ~Readable(a)
     \/ Overflows(acc, a, "audio") \/ content[a] \in Long
  THEN Told(acc, a) ELSE Shown(acc, a)

\* _build_video_parts: likewise; a video's format is not examined.
VideoPart(acc, a) ==
  IF \/ Len(acc.parts) >= MaxParts["video"] \/ ~Readable(a)
     \/ Overflows(acc, a, "video") \/ content[a] \in Long
  THEN Told(acc, a) ELSE Shown(acc, a)

Part(acc, a) ==
  CASE KindOf(a) = "image" -> ImagePart(acc, a)
    [] KindOf(a) = "audio" -> AudioPart(acc, a)
    [] KindOf(a) = "video" -> VideoPart(acc, a)

\* One row: only attachments of the kind that no earlier row had.
Row(acc0, atts, k) ==
  FoldLeft(LAMBDA acc, a: IF KindOf(a) # k \/ a \in acc.seen THEN acc
                          ELSE [Part(acc, a) EXCEPT !.seen = @ \cup {a}],
           [acc0 EXCEPT !.stop = FALSE], atts)

\* _allocate_shared_image_parts, and its audio and video twins: first the wake
\* row, then what is left for the viewing carrier.
SharedImages(w, v) == Row(Row(Empty, w, "image"), v, "image")

SharedAudio(w, v) == Row(Row(Empty, w, "audio"), v, "audio")
SharedVideo(w, v) == Row(Row(Empty, w, "video"), v, "video")

\* extract_text_for_attachment: a text is put in the message; a document only
\* when its text can be found, which an odd one's cannot.
Extracted(a) ==
  /\ KindOf(a) \in {"text", "doc"} /\ Readable(a)
  /\ KindOf(a) = "doc" => content[a] \notin Odd

\* _needs_not_inlined_notice.
NotInlined(a) == KindOf(a) = "doc" /\ ~Extracted(a)

\* expand_meal_for_provider, with vision and av allowed: inventory of both rows,
\* parts under the shared budgets, extracts and notices.
Expand(w, v) ==
  LET all == ToSet(w) \cup ToSet(v)
      i == SharedImages(w, v)   a == SharedAudio(w, v)   d == SharedVideo(w, v)
  IN  [wake   |-> w, view |-> v,
       parts  |-> ToSet(i.parts) \cup ToSet(a.parts) \cup ToSet(d.parts)
                    \cup {x \in all : Extracted(x)},
       notes  |-> a.notes \cup d.notes \cup {x \in all : NotInlined(x)},
       unread |-> {x \in all : ~Readable(x)}]

-----------------------------------------------------------------------------
(* view_media                                                              *)

\* _get_existing_att, _read_sandbox_media_bytes: the contents the sources of a
\* call resolve to.  An id that is no member of the store is a soft miss.
Sources(i, p, u) ==
  {content[a] : a \in store \cap {i}} \cup ({p, u} \cap Contents)

\* A refused argument and any failure of the url fail the call; an id or a path
\* that is missing does so when nothing else resolves; different bytes always do.
Resolves(i, p, u) ==
  /\ p # "barred" /\ u \notin {"missing", "barred"}
  /\ Cardinality(Sources(i, p, u)) = 1

Same(c) == {a \in store : content[a] = c}

\* _materialize_path_blob, _materialize_url_blob: the first attachment stored with
\* these bytes, else a new one, which writes blob and meta.
Materialize(c, a) ==
  \/ /\ Same(c) # {} /\ a = Min(Same(c))
     /\ UNCHANGED media
  \/ /\ Same(c) = {} /\ a = Len(content) + 1 /\ a <= MaxIds
     /\ content' = Append(content, c)
     /\ store' = store \cup {a} /\ blobs' = blobs \cup {c}

\* add_viewing: a second view keeps the place; the oldest leaves a full set.
Added(v, a) ==
  IF a \in ToSet(v) THEN v
  ELSE LET w == Append(v, a) IN IF Len(w) > ViewMax THEN Tail(w) ELSE w

\* The set and the flag change under one lock; the breadcrumb comes after, is
\* kept once per moment and attachment, and its failure is swallowed.
MarkViewing(a, promoted) ==
  /\ viewing' = Added(viewing, a) /\ dirty' = TRUE
  /\ here' = here \cup {a}
  /\ crumbs' = IF promoted THEN crumbs \cup {<<moments, a>>} ELSE crumbs

InTools == moment /\ pc = "tools" /\ calls < MaxCalls

\* view_media with op view.
View(i, p, u, promoted) ==
  /\ InTools
  /\ Resolves(i, p, u)
  /\ promoted \/ faults < MaxFaults
  /\ \E a \in 1..MaxIds :
       /\ IF i \in store THEN a = i /\ UNCHANGED media
          ELSE \E c \in Sources(i, p, u) : Materialize(c, a)
       /\ MarkViewing(a, promoted)
       /\ last' = [att |-> a, of |-> Sources(i, p, u)]
  /\ calls' = calls + 1 /\ faults' = IF promoted THEN faults ELSE faults + 1
  /\ UNCHANGED <<bouts, pc, wire, missed>>

\* The call fails: nothing changes (an unsaved download included).
ViewFails(i, p, u) ==
  /\ InTools
  /\ Resolves(i, p, u) => faults < MaxFaults
  /\ faults' = IF Resolves(i, p, u) THEN faults + 1 ELSE faults
  /\ calls' = calls + 1
  /\ UNCHANGED <<media, bouts, pc, viewing, dirty, wire, notes, missed>>

\* op drop; an item that is not viewed changes nothing.
DropOne(a) ==
  /\ InTools /\ a \in ToSet(viewing)
  /\ viewing' = SelectSeq(viewing, LAMBDA x: x # a) /\ dirty' = TRUE
  /\ calls' = calls + 1
  /\ UNCHANGED <<media, bouts, pc, wire, notes, missed, faults>>

\* op clear.
ClearAll ==
  /\ InTools
  /\ viewing' = <<>> /\ dirty' = (dirty \/ viewing # <<>>)
  /\ calls' = calls + 1
  /\ UNCHANGED <<media, bouts, pc, wire, notes, missed, faults>>

-----------------------------------------------------------------------------
(* The bout                                                                *)

\* A wake with or without attachments opens a moment; the first outer is built
\* from the wake and from whatever the viewing set holds.
OpenMoment(cs) ==
  /\ ~moment /\ moments < MaxMoments
  /\ \A c \in ToSet(cs) : Same(c) # {}
  /\ moment' = TRUE /\ moments' = moments + 1 /\ pc' = "hop"
  /\ wake' = [n \in DOMAIN cs |-> Min(Same(cs[n]))]
  /\ wire' = Expand(wake', viewing)
  /\ here' = {} /\ missed' = FALSE
  /\ UNCHANGED <<media, viewing, dirty, crumbs, last, calls, faults>>

\* Before a completion: a dirty set forces a rebuild, and only its success
\* clears the flag.
Hop ==
  /\ moment /\ pc = "hop"
  /\ wire' = IF dirty THEN Expand(wake, viewing) ELSE wire
  /\ dirty' = FALSE /\ missed' = FALSE /\ pc' = "ask"
  /\ UNCHANGED <<media, bouts, viewing, notes, calls, faults>>

\* MUTANT of HopFails: the flag falls although the rebuild failed.
HopFailsClean ==
  /\ moment /\ pc = "hop" /\ dirty /\ faults < MaxFaults
  /\ faults' = faults + 1 /\ missed' = TRUE /\ pc' = "ask" /\ dirty' = FALSE
  /\ UNCHANGED <<media, bouts, viewing, wire, notes, calls>>

\* The rebuild raises (the memory meal and the glass meal behind it): the hop
\* goes on with the old prefix and the flag stays for the next one.
HopFails ==
  /\ moment /\ pc = "hop" /\ dirty /\ faults < MaxFaults
  /\ faults' = faults + 1 /\ missed' = TRUE /\ pc' = "ask"
  /\ UNCHANGED <<media, bouts, viewing, dirty, wire, notes, calls>>

\* enforce_in_turn_budget: the chain is too long; the outer is built once more,
\* whatever the flag says.
Reouter ==
  /\ moment /\ pc = "ask"
  /\ wire' = Expand(wake, viewing) /\ missed' = FALSE /\ pc' = "asked"
  /\ UNCHANGED <<media, bouts, viewing, dirty, notes, calls, faults>>

Fits ==
  /\ moment /\ pc = "ask" /\ pc' = "asked"
  /\ UNCHANGED <<media, bouts, viewing, dirty, wire, notes, missed, calls, faults>>

\* The completion asks for tools; their calls come before the next hop.
Tools ==
  /\ moment /\ pc = "asked" /\ pc' = "tools"
  /\ UNCHANGED <<media, bouts, viewing, dirty, wire, notes, missed, calls, faults>>

NextHop ==
  /\ moment /\ pc = "tools" /\ pc' = "hop"
  /\ UNCHANGED <<media, bouts, viewing, dirty, wire, notes, missed, calls, faults>>

Close ==
  /\ moment' = FALSE /\ wake' = <<>> /\ pc' = "hop" /\ wire' = NoWire
  /\ here' = {} /\ missed' = FALSE
  /\ UNCHANGED <<media, moments, crumbs, last, calls>>

\* _finalize_moment: the viewing set ends with the moment.
Finalize ==
  /\ moment /\ pc = "asked"
  /\ Close /\ viewing' = <<>> /\ dirty' = FALSE
  /\ UNCHANGED faults

\* _fail_in_flight, from any step of the bout.
FailInFlight ==
  /\ moment /\ faults < MaxFaults
  /\ Close /\ viewing' = <<>> /\ dirty' = FALSE
  /\ faults' = faults + 1

\* The upkeep of another process deletes an attachment no message carries, and
\* its bytes when nothing else has them (Media).
Vanish(a) ==
  /\ a \in store \ ToSet(wake) /\ faults < MaxFaults
  /\ store' = store \ {a}
  /\ blobs' = {content[b] : b \in store'}
  /\ faults' = faults + 1
  /\ UNCHANGED <<content, bouts, pc, viewing, dirty, wire, notes, missed, calls>>

\* A user message brings attachments while no moment looks at it.
Arrive(c) ==
  /\ ~moment /\ Len(content) < MaxIds /\ Same(c) = {}
  /\ content' = Append(content, c)
  /\ store' = store \cup {Len(content) + 1} /\ blobs' = blobs \cup {c}
  /\ UNCHANGED <<bouts, pc, viewing, dirty, wire, notes, missed, calls, faults>>

-----------------------------------------------------------------------------

Init ==
  /\ content = <<>> /\ store = {} /\ blobs = {}
  /\ moment = FALSE /\ wake = <<>> /\ pc = "hop"
  /\ viewing = <<>> /\ dirty = FALSE /\ wire = NoWire
  /\ crumbs = {} /\ here = {} /\ missed = FALSE /\ last = [att |-> 0, of |-> {}]
  /\ calls = 0 /\ faults = 0 /\ moments = 0

Next ==
  \/ \E cs \in Wakes : OpenMoment(cs)
  \/ \E c \in UNION {ToSet(cs) : cs \in Wakes} : Arrive(c)
  \/ \E i \in 0..(MaxIds + 1), p, u \in Contents \cup Outside :
       ViewFails(i, p, u) \/ \E b \in BOOLEAN : View(i, p, u, b)
  \/ \E a \in Ids : DropOne(a) \/ Vanish(a)
  \/ ClearAll \/ Hop \/ HopFails \/ Reouter \/ Fits \/ Tools \/ NextHop
  \/ Finalize \/ FailInFlight

Spec == Init /\ [][Next]_vars

-----------------------------------------------------------------------------
(* Properties                                                              *)

TypeOK ==
  /\ content \in Seq(Contents) /\ store \subseteq Ids /\ blobs \subseteq Contents
  /\ moment \in BOOLEAN /\ wake \in Seq(Ids) /\ pc \in {"hop", "ask", "asked", "tools"}
  /\ viewing \in Seq(Ids) /\ Len(viewing) <= ViewMax /\ dirty \in BOOLEAN
  /\ wire.wake \in Seq(Ids) /\ wire.view \in Seq(Ids)
  /\ wire.parts \subseteq Ids /\ wire.notes \subseteq Ids /\ wire.unread \subseteq Ids
  /\ crumbs \subseteq (1..MaxMoments) \X Ids /\ here \subseteq Ids /\ missed \in BOOLEAN
  /\ calls \in 0..MaxCalls /\ faults \in 0..MaxFaults /\ moments \in 0..MaxMoments

OnWire(k) == {a \in wire.parts : KindOf(a) = k}

\* The budgets of images, audio and video bound what one completion carries, the
\* wake message and the viewing set together.
SharedBudgets ==
  \A k \in Media :
    /\ Cardinality(OnWire(k)) <= MaxParts[k]
    /\ FoldSet(LAMBDA a, n: Size[content[a]] + n, 0, OnWire(k)) <= MaxBytes[k]

\* Nothing the model asked to see is withheld without a word: each item is on
\* the wire or has a notice, save an image that cannot be read, that comes after
\* as many images as are allowed, or in whose row the bytes ran out.
NothingSilentlyWithheld ==
  \A a \in ToSet(wire.wake) \cup ToSet(wire.view) :
    \/ a \in wire.parts \cup wire.notes
    \/ KindOf(a) = "text" /\ a \in wire.unread
    \/ /\ KindOf(a) = "image"
       /\ \/ a \in wire.unread
          \/ Cardinality(OnWire("image")) = MaxParts["image"]
          \/ \E r \in {wire.wake, wire.view}, b \in Ids :
               /\ {a, b} \subseteq ToSet(r)
               /\ KindOf(b) = "image" /\ b \notin wire.parts \cup wire.unread

\* What a completion is asked about is what is being viewed at that time, unless
\* the rebuild of this very hop failed; and then the flag still asks for one.
WireIsCurrent ==
  /\ pc = "ask" /\ moment => missed \/ wire.view = viewing
  /\ moment => dirty \/ wire.view = viewing

\* Media viewed in one moment never reaches a completion of another.
MomentLocal ==
  /\ ToSet(viewing) \subseteq here
  /\ ToSet(wire.view) \subseteq here

\* A view that names several sources only succeeds when all that resolve are the
\* same bytes, and those are the bytes of the attachment it reports.
ViewedAsAsked == last.att # 0 => last.of = {content[last.att]}

\* Wake and viewing set share their budgets, nothing is left out in silence, what
\* goes out is current and of this moment, and a view shows what was asked for.
ShownFaithfully ==
  /\ TypeOK /\ SharedBudgets /\ NothingSilentlyWithheld
  /\ WireIsCurrent /\ MomentLocal /\ ViewedAsAsked
=============================================================================
