---------------------------------- MODULE Media ----------------------------------
(***************************************************************************)
(* The media store (media/store.py) and everything that writes it: uploads *)
(* of the glass (runtime/api.py), messages that bind attachments           *)
(* (presence/worker.py), the speak tool with its clones (media/ingest.py,  *)
(* speak/transport.py), the provider file ids (media/xai_files.py), the    *)
(* start-up upkeep (media/gc.py), which `elyra auth` also runs in a second *)
(* process beside the daemon, and the full reset (runtime/reset.py).       *)
(*                                                                         *)
(* An attachment is a meta file that names its content; the content is a   *)
(* blob shared by every attachment with the same bytes.  No lock covers    *)
(* the store: every operation is the sequence of file operations it is     *)
(* made of.  `left`, `crossed`, `overlap` and `torn` are history: what a   *)
(* death, two overlapping operations or a failed bind has touched.         *)
(***************************************************************************)
EXTENDS Integers, FiniteSets, FiniteSetsExt, Functions, TLC

CONSTANTS Shas,         \* contents
          Uploaders,    \* threads of the HTTP server that may take an upload
          Slots,        \* _UPLOAD_SLOTS
          Budget,       \* UNBOUND_MAX_BYTES, in attachments
          MaxIds, MaxMsgs, MaxFaults, MaxUpkeeps, MaxResets

VARIABLES blobs,        \* contents on disk
          meta,         \* id -> [sha, by, bound, file]; bound = 0: unbound
          mirror,       \* ids projected into the sandbox
          msgs,         \* message -> ids of the attachments on its row
          pc, loc,      \* the step and the locals of every actor
          slots,        \* upload slots in hand
          reset,        \* "none", "first", "second": phase of a full reset
          ids, sent,    \* ids and messages minted so far
          left, crossed, overlap, torn,
          faults, upkeeps, resets

vars == <<blobs, meta, mirror, msgs, pc, loc, slots, reset, ids, sent,
          left, crossed, overlap, torn, faults, upkeeps, resets>>

Actors == Uploaders \cup {"chat", "work", "gc"}
Ids == 1..MaxIds
Free == [sha |-> "none", id |-> 0, msg |-> 0, todo |-> {},
         snap |-> <<>>, next |-> "idle"]
hist == <<left, crossed, overlap, torn>>
bounds == <<upkeeps, resets>>

Init ==
  /\ blobs = {} /\ meta = <<>> /\ mirror = {} /\ msgs = <<>>
  /\ pc = [p \in Actors |-> "idle"] /\ loc = [p \in Actors |-> Free]
  /\ slots = Slots /\ reset = "none" /\ ids = 0 /\ sent = 0
  /\ left = {} /\ crossed = {} /\ overlap = {} /\ torn = {}
  /\ faults = 0 /\ upkeeps = 0 /\ resets = 0

Unbound == {i \in DOMAIN meta : meta[i].bound = 0}
(* Who has read the meta of attachment i and has yet to write or unlink it. *)
Holds(p, i) == \/ /\ pc[p] \in {"relink", "bindw", "setw"}
                  /\ loc[p].id = i
               \/ /\ pc[p] = "project" /\ loc[p].next = "relink"
                  /\ loc[p].id = i
               \/ p = "gc" /\ i \in loc[p].todo
HeldByOther(p, i) == \E q \in Actors \ {p} : Holds(q, i)
(* Who counts on the blob of content s without a meta that says so. *)
Putting(s) == \E p \in Actors : pc[p] = "meta" /\ loc[p].sha = s

Goto(p, l, r) == /\ pc' = [pc EXCEPT ![p] = l]
                 /\ loc' = [loc EXCEPT ![p] = r]
(* An actor is done; an uploader gives its slot back. *)
Done(p) == /\ Goto(p, "idle", Free)
           /\ slots' = IF p \in Uploaders THEN slots + 1 ELSE slots
(* Bounds: an id or a message is left for whoever starts to make one. *)
IdLeft == ids + Cardinality({p \in Actors : pc[p] \in {"blob", "meta"}}) < MaxIds
MsgLeft == sent + Cardinality({p \in Actors :
             \/ pc[p] = "append"
             \/ p = "work" /\ loc[p].next \in {"deliver", "relink"}
                /\ pc[p] # "bind" /\ pc[p] # "bindw"}) < MaxMsgs
Fault == faults < MaxFaults /\ faults' = faults + 1

(***************************************************************************)
(* put_bytes: the blob unless it is there, then the meta, then the mirror. *)
(***************************************************************************)
PutBlob(p) ==
  /\ pc[p] = "blob"
  /\ \/ /\ blobs' = blobs \cup {loc[p].sha}
        /\ Goto(p, "meta", loc[p])
        /\ UNCHANGED <<faults, slots>>
     \/ Fault /\ Done(p) /\ UNCHANGED blobs
  /\ UNCHANGED <<meta, mirror, msgs, reset, ids, sent, hist, bounds>>

PutMeta(p) ==
  /\ pc[p] = "meta"
  /\ ids' = ids + 1
  /\ \/ /\ meta' = [i \in {ids'} |-> [sha |-> loc[p].sha, by |-> p,
                                       bound |-> 0, file |-> FALSE]] @@ meta
        /\ Goto(p, "project", [loc[p] EXCEPT !.id = ids'])
        /\ crossed' = IF pc["gc"] = "unblob" /\ loc["gc"].sha = loc[p].sha
                      THEN crossed \cup {loc[p].sha} ELSE crossed
        /\ UNCHANGED <<faults, slots, left>>
     \/ /\ Fault /\ Done(p) /\ left' = left \cup {loc[p].sha}
        /\ UNCHANGED <<meta, crossed>>
  /\ UNCHANGED <<blobs, mirror, msgs, reset, sent, overlap, torn, bounds>>

(* _best_effort_project: a failure is logged. *)
Project(p) ==
  /\ pc[p] = "project"
  /\ \/ /\ mirror' = IF loc[p].sha \in blobs THEN mirror \cup {loc[p].id}
                                             ELSE mirror
        /\ UNCHANGED faults
     \/ Fault /\ UNCHANGED mirror
  /\ LET next == loc[p].next
     IN IF next = "idle" THEN Done(p)
        ELSE Goto(p, next, loc[p]) /\ UNCHANGED slots
  /\ UNCHANGED <<blobs, meta,  msgs, reset, ids, sent, hist, bounds>>

(***************************************************************************)
(* POST /api/media: a slot or a refusal; every way out returns the slot.   *)
(* A request of several files stores one after the other; the handler does *)
(* not ask whether a reset is running.                                     *)
(***************************************************************************)
Upload(u, s, more) ==
  /\ IdLeft /\ pc[u] = "idle" /\ slots > 0 /\ slots' = slots - 1
  /\ Goto(u, "blob", [Free EXCEPT !.sha = s,
                        !.next = IF more THEN "more" ELSE "idle"])
  /\ UNCHANGED <<blobs, meta, mirror, msgs, reset, ids, sent, hist,
                 faults, bounds>>

UploadMore(u, s) ==
  /\ IdLeft /\ pc[u] = "more"
  /\ Goto(u, "blob", [Free EXCEPT !.sha = s])
  /\ UNCHANGED <<blobs, meta, mirror, msgs, slots, reset, ids, sent, hist,
                 faults, bounds>>

(* A file the handler refuses: too large, or rejected by the store. *)
UploadReject(u) ==
  /\ pc[u] = "more" /\ Done(u)
  /\ UNCHANGED <<blobs, meta, mirror, msgs, reset, ids, sent, hist, faults, bounds>>

(***************************************************************************)
(* POST /api/messages: append_message_if_allowed, under the worker's lock, *)
(* which the store does not know: all are there and unbound, then the row, *)
(* then one bind after the other.                                          *)
(***************************************************************************)
(* The glass knows the ids its uploads have returned. *)
Returned(a) == meta[a].by \in Uploaders /\ pc[meta[a].by] = "idle"

Post(as) ==
  /\ MsgLeft /\ pc["chat"] = "idle" /\ reset = "none"
  /\ as # {} /\ as \subseteq Unbound /\ \A a \in as : Returned(a)
  /\ Goto("chat", "append", [Free EXCEPT !.todo = as])
  /\ UNCHANGED <<blobs, meta, mirror, msgs, slots, reset, ids, sent, hist,
                 faults, bounds>>

(* The row of a message, by the chat handler or by SpeakTransport.deliver. *)
Append(p) ==
  /\ pc[p] = "append"
  /\ \/ /\ sent' = sent + 1
        /\ msgs' = [m \in {sent'} |-> loc[p].todo] @@ msgs
        /\ Goto(p, "bind", [loc[p] EXCEPT !.msg = sent'])
        /\ UNCHANGED faults
     \/ Fault /\ Goto(p, "idle", Free) /\ UNCHANGED <<msgs, sent>>
  /\ UNCHANGED <<blobs, meta, mirror,  slots, reset, ids, hist, bounds>>

(* bind_message reads: absent or bound elsewhere ends the request, the row *)
(* stays.                                                                  *)
BindGet(p, a) ==
  /\ pc[p] = "bind" /\ a \in loc[p].todo
  /\ IF a \in DOMAIN meta /\ meta[a].bound = 0
     THEN /\ Goto(p, "bindw", [loc[p] EXCEPT !.id = a, !.snap = meta[a]])
          /\ overlap' = IF HeldByOther(p, a) THEN overlap \cup {a} ELSE overlap
          /\ UNCHANGED torn
     ELSE /\ Goto(p, "idle", Free)
          /\ torn' = torn \cup {loc[p].msg}
          /\ UNCHANGED overlap
  /\ UNCHANGED <<blobs, meta, mirror, msgs, slots, reset, ids, sent, left,
                 crossed, faults, bounds>>

BindWrite(p) ==
  /\ pc[p] = "bindw"
  /\ LET a == loc[p].id
         rest == loc[p].todo \ {a}
     IN \/ /\ meta' = [i \in {a} |-> [loc[p].snap EXCEPT !.bound = loc[p].msg]]
                        @@ meta
           /\ IF rest = {} THEN Goto(p, "idle", Free)
              ELSE Goto(p, "bind", [loc[p] EXCEPT !.todo = rest])
           /\ UNCHANGED <<torn, faults>>
        \/ /\ Fault /\ Goto(p, "idle", Free) /\ UNCHANGED meta
           /\ torn' = torn \cup {loc[p].msg}
  /\ UNCHANGED <<blobs, mirror, msgs, slots, reset, ids, sent, left,
                 crossed, overlap, bounds>>

(***************************************************************************)
(* The worker's tools, in a moment and so never during a reset.  speak     *)
(* clones an attachment, or ingests a sandbox file; fetch stores a page    *)
(* unless an attachment already has its bytes.                             *)
(***************************************************************************)
Working == pc["work"] = "idle" /\ reset = "none"
StartPut(r) == /\ IdLeft /\ Goto("work", "blob", r)
               /\ UNCHANGED <<blobs, meta, mirror, msgs, slots, reset, ids,
                              sent, hist, faults, bounds>>

CloneAttachment(a) ==
  /\ MsgLeft /\ Working /\ a \in DOMAIN meta /\ meta[a].sha \in blobs
  /\ StartPut([Free EXCEPT !.sha = meta[a].sha, 
                 !.next = IF meta[a].bound # 0 THEN "relink" ELSE "deliver"])

IngestPath(s) == MsgLeft /\ Working
                 /\ StartPut([Free EXCEPT !.sha = s, !.next = "deliver"])

Fetch(s) == /\ Working /\ \A i \in DOMAIN meta : meta[i].sha # s
            /\ StartPut([Free EXCEPT !.sha = s])

(* The clone of a sent attachment is written a second time, from memory.   *)
Relink ==
  /\ pc["work"] = "relink"
  /\ meta' = [i \in {loc["work"].id} |->
               [sha |-> loc["work"].sha, by |-> "work", bound |-> 0,
                file |-> FALSE]] @@ meta
  /\ Goto("work", "deliver", loc["work"])
  /\ UNCHANGED <<blobs, mirror, msgs, slots, reset, ids, sent, hist, faults,
                 bounds>>

Deliver ==
  /\ pc["work"] = "deliver"
  /\ Goto("work", "append", [loc["work"] EXCEPT !.todo = {loc["work"].id}])
  /\ UNCHANGED <<blobs, meta, mirror, msgs, slots, reset, ids, sent, hist,
                 faults, bounds>>

(* ensure_xai_file_id for an attachment of a message in the meal: nothing  *)
(* to do, no bytes, an upload that fails (all three: no change) or an id   *)
(* to keep.                                                                *)
EnsureFile(a) ==
  /\ Working /\ \E m \in DOMAIN msgs : a \in msgs[m]
  /\ a \in DOMAIN meta /\ ~meta[a].file /\ meta[a].sha \in blobs
  /\ Goto("work", "set", [Free EXCEPT !.id = a])
  /\ UNCHANGED <<blobs, meta, mirror, msgs, slots, reset, ids, sent, hist,
                 faults, bounds>>

SetGet ==
  /\ pc["work"] = "set"
  /\ LET a == loc["work"].id
     IN IF a \in DOMAIN meta
        THEN /\ Goto("work", "setw", [loc["work"] EXCEPT !.snap = meta[a]])
             /\ overlap' = IF HeldByOther("work", a) THEN overlap \cup {a}
                                                     ELSE overlap
        ELSE Goto("work", "idle", Free) /\ UNCHANGED overlap
  /\ UNCHANGED <<blobs, meta, mirror, msgs, slots, reset, ids, sent, left,
                 crossed, torn, faults, bounds>>

SetWrite ==
  /\ pc["work"] = "setw"
  /\ \/ /\ meta' = [i \in {loc["work"].id} |->
                     [loc["work"].snap EXCEPT !.file = TRUE]] @@ meta
        /\ UNCHANGED faults
     \/ Fault /\ UNCHANGED meta
  /\ Goto("work", "idle", Free)
  /\ UNCHANGED <<blobs, mirror, msgs, slots, reset, ids, sent, hist, bounds>>

(***************************************************************************)
(* ensure_media: mirrors that are missing are projected again, then the    *)
(* unbound attachments that are too old, and the oldest of the others      *)
(* beyond the budget, are deleted: mirror, meta, and the blob when no      *)
(* other meta names it.                                                    *)
(***************************************************************************)
Victims(aged) ==        \* the attachments up to id `aged` are too old
  LET young == {i \in Unbound : i > aged}
      over == Cardinality(young) - Budget
  IN (Unbound \ young)
     \cup {i \in young : Cardinality({j \in young : j < i}) < over}

NextVictim(todo) == IF todo = {} THEN Goto("gc", "idle", Free)
               ELSE Goto("gc", "mirror", [Free EXCEPT !.todo = todo])

Reconciled == mirror \cup {i \in DOMAIN meta : meta[i].sha \in blobs}

Upkeep(aged) ==
  /\ pc["gc"] = "idle" /\ upkeeps < MaxUpkeeps /\ upkeeps' = upkeeps + 1
  /\ mirror' = Reconciled
  /\ LET taken == {i \in Victims(aged) : HeldByOther("gc", i)}
     IN overlap' = overlap \cup taken
  /\ NextVictim(Victims(aged))
  /\ UNCHANGED <<blobs, meta,  msgs, slots, reset, ids, sent, left, crossed,
                 torn, faults, resets>>

(* delete_unbound_attachment looks at the copy it listed, not at the file. *)
GcMirror ==
  /\ pc["gc"] = "mirror"
  /\ LET i == Min(loc["gc"].todo)
     IN \/ /\ mirror' = mirror \ {i}
           /\ Goto("gc", "unmeta", [loc["gc"] EXCEPT !.id = i])
           /\ UNCHANGED faults
        \/ Fault /\ NextVictim(loc["gc"].todo \ {i}) /\ UNCHANGED mirror
  /\ UNCHANGED <<blobs, meta,  msgs, slots, reset, ids, sent, hist, bounds>>

(* delete_attachment: gone already, or the meta is unlinked.               *)
GcUnmeta ==
  /\ pc["gc"] = "unmeta"
  /\ LET i == loc["gc"].id
         rest == loc["gc"].todo \ {i}
     IN IF i \notin DOMAIN meta THEN NextVictim(rest) /\ UNCHANGED <<meta, overlap>>
        ELSE /\ meta' = Restrict(meta, DOMAIN meta \ {i})
             /\ overlap' = IF HeldByOther("gc", i) THEN overlap \cup {i}
                                                  ELSE overlap
             /\ Goto("gc", "check", [loc["gc"] EXCEPT !.sha = meta[i].sha,
                                                      !.todo = rest])
  /\ UNCHANGED <<blobs, mirror, msgs, slots, reset, ids, sent, left, crossed,
                 torn, faults, bounds>>

\* MUTANT of GcCheck
GcCheckNothing ==
  /\ pc["gc"] = "check"
  /\ Goto("gc", "unblob", loc["gc"])
  /\ UNCHANGED <<blobs, meta, mirror, msgs, slots, reset, ids, sent, hist, faults,
                 bounds>>

GcCheck ==
  /\ pc["gc"] = "check"
  /\ IF \E j \in DOMAIN meta : meta[j].sha = loc["gc"].sha
     THEN NextVictim(loc["gc"].todo)
     ELSE Goto("gc", "unblob", loc["gc"])
  /\ UNCHANGED <<blobs, meta, mirror, msgs, slots, reset, ids, sent, hist,
                 faults, bounds>>

GcUnblob ==
  /\ pc["gc"] = "unblob"
  /\ LET s == loc["gc"].sha
     IN /\ blobs' = blobs \ {s}
        /\ crossed' = IF Putting(s) THEN crossed \cup {s} ELSE crossed
  /\ NextVictim(loc["gc"].todo)
  /\ UNCHANGED <<meta, mirror, msgs, slots, reset, ids, sent, left, overlap,
                 torn, faults, bounds>>

(***************************************************************************)
(* The full reset: the worker is idle and stays so, messages are refused;  *)
(* the rows and the media are cleared once without the lock and once more  *)
(* under it, so not while the chat handler holds it.                       *)
(***************************************************************************)
ClearAll ==
  /\ msgs' = <<>> /\ blobs' = {} /\ meta' = <<>> /\ mirror' = {}
  /\ crossed' = crossed \cup {loc[p].sha : p \in {q \in Actors : pc[q] = "meta"}}
  /\ overlap' = overlap \cup {i \in Ids : \E p \in Actors : Holds(p, i)}

ResetBegin ==
  /\ reset = "none" /\ pc["work"] = "idle" /\ pc["chat"] = "idle"
  /\ resets < MaxResets /\ resets' = resets + 1
  /\ reset' = "first"
  /\ UNCHANGED <<blobs, meta, mirror, msgs, pc, loc, slots, ids, sent, hist,
                 faults, upkeeps>>

ResetClear ==
  /\ reset # "none"
  /\ ClearAll
  /\ reset' = IF reset = "first" THEN "second" ELSE "none"
  /\ UNCHANGED <<pc, loc, slots, ids, sent, left, torn, faults, bounds>>

(***************************************************************************)
(* A process dies: the daemon with all its threads, or the upkeep.         *)
(***************************************************************************)
Die(ps) ==
  /\ Fault
  /\ \E p \in ps : pc[p] # "idle"
  /\ pc' = [p \in Actors |-> IF p \in ps THEN "idle" ELSE pc[p]]
  /\ loc' = [p \in Actors |-> IF p \in ps THEN Free ELSE loc[p]]
  /\ left' = left \cup {loc[p].sha : p \in {q \in ps :
                          pc[q] \in {"meta", "check", "unblob"}}}
  /\ torn' = torn \cup {loc[p].msg : p \in {q \in ps :
                          pc[q] \in {"bind", "bindw"}}}
  /\ IF "work" \in ps THEN slots' = Slots /\ reset' = "none"
     ELSE UNCHANGED <<slots, reset>>
  /\ UNCHANGED <<blobs, meta, mirror, msgs, ids, sent, crossed, overlap,
                 upkeeps, resets>>

Next ==
  \/ \E p \in Actors : PutBlob(p) \/ PutMeta(p) \/ Project(p)
  \/ \E u \in Uploaders, s \in Shas : \/ \E more \in BOOLEAN : Upload(u, s, more)
                                      \/ UploadMore(u, s)
  \/ \E u \in Uploaders : UploadReject(u)
  \/ \E as \in SUBSET Ids : Post(as)
  \/ \E p \in {"chat", "work"} : Append(p) \/ BindWrite(p)
                                 \/ \E a \in Ids : BindGet(p, a)
  \/ \E a \in Ids : CloneAttachment(a) \/ EnsureFile(a)
  \/ \E s \in Shas : IngestPath(s) \/ Fetch(s)
  \/ Relink \/ Deliver \/ SetGet \/ SetWrite
  \/ \E aged \in 0..ids : Upkeep(aged)
  \/ GcMirror \/ GcUnmeta \/ GcCheck \/ GcUnblob
  \/ ResetBegin \/ ResetClear
  \/ Die({"gc"}) \/ Die(Actors \ {"gc"})

Spec == Init /\ [][Next]_vars
----------------------------------------------------------------------------
(* Types of the store and of the actors. *)
TypeOK ==
  /\ blobs \subseteq Shas /\ mirror \subseteq Ids
  /\ DOMAIN meta \subseteq Ids /\ DOMAIN msgs \subseteq 1..MaxMsgs
  /\ \A i \in DOMAIN meta : /\ meta[i].sha \in Shas
                            /\ meta[i].bound \in 0..MaxMsgs
                            /\ meta[i].file \in BOOLEAN
  /\ slots \in 0..Slots /\ reset \in {"none", "first", "second"}
  /\ ids \in 0..MaxIds /\ sent \in 0..MaxMsgs

(***************************************************************************)
(* An attachment that is on record has its bytes: no deletion takes a blob *)
(* another attachment still names.  Only a put that found the blob while   *)
(* the upkeep or a reset was removing it, or a write back of a meta that   *)
(* was unlinked in between, leaves a meta without bytes.                   *)
(***************************************************************************)
BytesBehindMeta ==
  \A i \in DOMAIN meta :
    meta[i].sha \notin blobs => meta[i].sha \in crossed \/ i \in overlap

(***************************************************************************)
(* No blob outlives its attachments: content on disk is named by a meta or *)
(* is in the hands of a put or of the upkeep, unless a death or a failed   *)
(* write left it (nothing ever looks for such a blob again).               *)
(***************************************************************************)
BlobsAreOwned ==
  \A s \in blobs :
    \/ \E i \in DOMAIN meta : meta[i].sha = s
    \/ s \in left \cup crossed
    \/ \E p \in Actors : /\ pc[p] \in {"meta", "check", "unblob"}
                         /\ loc[p].sha = s

\* A message whose attachments are being bound.
Binding(m) == \E p \in Actors : pc[p] \in {"bind", "bindw"} /\ loc[p].msg = m

(***************************************************************************)
(* What was sent stays: once a message has bound its attachments each of   *)
(* them is on record and bound to it, whatever the upkeep, a later message *)
(* and the provider's file ids do, unless two actors held the same meta.   *)
(***************************************************************************)
SentIsKept ==
  \A m \in DOMAIN msgs : \A a \in msgs[m] :
    m \in torn \/ Binding(m) \/ a \in overlap
    \/ (IF a \in DOMAIN meta THEN meta[a].bound = m ELSE FALSE)

(***************************************************************************)
(* An attachment belongs to one message: a later message cannot take it,   *)
(* not even when its own bind would fail, and speak sends copies; only a   *)
(* message that was cut short before its bind leaves it free.              *)
(***************************************************************************)
OneMessage ==
  \A m, n \in DOMAIN msgs :
    m < n => \A a \in msgs[m] \cap msgs[n] : m \in torn \/ a \in overlap

(***************************************************************************)
(* The upload slots are exact: every slot is in hand or with a running     *)
(* upload, so a failed upload never shrinks the number that may run.       *)
(***************************************************************************)
SlotsExact == slots + Cardinality({u \in Uploaders : pc[u] # "idle"}) = Slots

\* With uploads, posts, upkeep and a reset at work: a meta has its bytes, a blob has
\* an owner, what was sent is kept and belongs to one message, and upload slots
\* are given back.
AttachmentsKept ==
  TypeOK /\ BytesBehindMeta /\ BlobsAreOwned /\ SentIsKept /\ OneMessage /\ SlotsExact
==================================================================================
