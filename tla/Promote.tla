------------------------------- MODULE Promote -------------------------------
(***************************************************************************)
(* From tape beats to memory atoms (memory/promote.py, memory/parcel.py):  *)
(* which beats become atoms, once each; the sequential weave of prev/next  *)
(* links; and the parcels an oversized body is split into.                 *)
(*                                                                         *)
(* Beats are promoted by one thread.  A store write may raise and the      *)
(* process may die between two of them; the per-bout PromoteState is then  *)
(* gone, the atoms are not.  An atom is named by its place in the store.   *)
(***************************************************************************)
EXTENDS Integers, Sequences, FiniteSets, FiniteSetsExt

CONSTANTS
  Beats,       \* tape beats: [name, kind, moment, text, says, ok, chunks]
  ToolCap,     \* max_tool_atoms_per_moment
  MaxFaults,   \* bound on writes that raise and on process deaths
  MaxOffers    \* bound on the times beats are offered

Weave == {"observation", "speak", "model", "tool", "ledger"}
SpeakSources == {"speak", "wake"}

VARIABLES
  store,     \* the atoms, in the order they were put
  work,      \* the promotion in progress
  seenKeys,  \* PromoteState.seen_keys
  toolAtoms, \* PromoteState.tool_atoms
  recalls,   \* beats whose recall job was enqueued
  unlinked,  \* history: atoms whose update_links did not happen
  unmarked,  \* history: parents that could not be told of missing parcels
  faults, offers   \* bounds

vars == <<store, work, seenKeys, toolAtoms, recalls, unlinked, unmarked, faults, offers>>

NoWork == [at |-> "idle"]
Idle == work = NoWork

Woven(ids) == {n \in ids : store[n].kind \in Weave}
All == DOMAIN store
Of(parent) == {n \in All : store[n].parent = parent}

-----------------------------------------------------------------------------
(* Which beats are promoted                                                *)

\* _key_seen: this bout's keys, or an atom of the moment with the key.
KeySeen(b) ==
  b.name \in seenKeys \/ \E n \in All : store[n].beat = b.name /\ store[n].kind # "parcel"

\* _obs_dedupe_hit: the same text in the same moment within two seconds (beats
\* of one text are that close here).
ObsDedupeHit(b) ==
  \E n \in Woven(All) : store[n].kind = "observation" /\ store[n].moment = b.moment
                        /\ store[n].text = b.text

\* One operator per kind of beat; says: there is content enough to keep.
SpeakKept(b)  == ~KeySeen(b)
LedgerKept(b) == ~KeySeen(b)
ModelKept(b)  == b.says /\ ~KeySeen(b)
WakeKept(b)   == b.says /\ ~ObsDedupeHit(b) /\ ~KeySeen(b)
InterjectionKept(b) == b.says /\ ~ObsDedupeHit(b) /\ ~KeySeen(b)
\* The first view of the media in a moment; its key is all that counts.
ViewKept(b)   == ~KeySeen(b)
\* Past the cap only failures are kept.
ToolKept(b)   == b.says /\ ~(toolAtoms >= ToolCap /\ b.ok) /\ ~KeySeen(b)

\* promote_beat and its two siblings; control beats are never promoted.
Memorable(b) ==
  \/ b.kind = "speak" /\ SpeakKept(b)
  \/ b.kind = "ledger" /\ LedgerKept(b)
  \/ b.kind = "model" /\ ModelKept(b)
  \/ b.kind = "tool" /\ ToolKept(b)
  \/ b.kind = "interjection" /\ InterjectionKept(b)
  \/ b.kind = "wake" /\ WakeKept(b)
  \/ b.kind = "view" /\ ViewKept(b)

AtomKind(b) == IF b.kind \in {"wake", "interjection", "view"} THEN "observation" ELSE b.kind

-----------------------------------------------------------------------------
(* Tails                                                                   *)

\* The newest of the open ends, or of all when none is open.
TailOf(ids) ==
  LET open == {n \in ids : store[n].next = 0}
      pool == IF open = {} THEN ids ELSE open
  IN  IF pool = {} THEN 0 ELSE Max(pool)

TailWithParcels(m) == TailOf(All)   \* mutant: parcels are not kept out of the weave

\* moment_tail and, across moments, global_tail.
MomentTail(m) ==
  LET mine == Woven({n \in All : store[n].moment = m})
  IN  IF mine # {} THEN TailOf(mine) ELSE TailOf(Woven(All))

-----------------------------------------------------------------------------
(* The steps of a promotion                                                *)

Atom(b, kind, prev, parent, parcels, short) ==
  [beat |-> b.name, kind |-> kind, moment |-> b.moment, text |-> b.text, prev |-> prev,
   next |-> 0, parent |-> parent, parcels |-> parcels, short |-> short]

\* A beat is offered, of this moment or a later one; one that is not memorable
\* leaves everything as it is.
Offer(b) ==
  /\ Idle /\ offers < MaxOffers /\ offers' = offers + 1
  /\ \A n \in All : store[n].moment <= b.moment
  /\ work' = IF Memorable(b)
             THEN [at |-> "put", beat |-> b, split |-> b.chunks > 1, id |-> 0, done |-> 0]
             ELSE NoWork
  /\ UNCHANGED <<store, seenKeys, toolAtoms, recalls, unlinked, unmarked, faults>>

\* _link_and_put up to put_atom; the body is the first chunk, or cut short when
\* it was not split although it is too long.
PutAtom ==
  /\ work.at = "put"
  /\ LET b == work.beat
         n == Len(store) + 1
     IN  /\ store' = Append(store, Atom(b, AtomKind(b), MomentTail(b.moment), 0,
                                        IF work.split THEN b.chunks - 1 ELSE 0,
                                        ~work.split /\ b.chunks > 1))
         /\ work' = [work EXCEPT !.at = "link", !.id = n]
  /\ UNCHANGED <<seenKeys, toolAtoms, recalls, unlinked, unmarked, faults, offers>>

\* put_atom raises: with parcels, try again without; else promote nothing.
PutFails ==
  /\ work.at = "put" /\ faults < MaxFaults /\ faults' = faults + 1
  /\ work' = IF work.split THEN [work EXCEPT !.split = FALSE] ELSE NoWork
  /\ UNCHANGED <<store, seenKeys, toolAtoms, recalls, unlinked, unmarked, offers>>

AfterLink(w) == [w EXCEPT !.at = IF w.split THEN "parcel" ELSE "end"]

\* update_links of the previous tail; an error is logged.
Link ==
  /\ work.at = "link"
  /\ work' = AfterLink(work)
  /\ LET prev == store[work.id].prev
     IN  IF prev = 0 THEN UNCHANGED <<store, unlinked, faults>>
         ELSE \/ store' = [store EXCEPT ![prev].next = work.id] /\ UNCHANGED <<unlinked, faults>>
              \/ /\ faults < MaxFaults /\ faults' = faults + 1
                 /\ unlinked' = unlinked \cup {prev} /\ UNCHANGED store
  /\ UNCHANGED <<seenKeys, toolAtoms, recalls, unmarked, offers>>

\* _put_parcel_children, one child: put it, then link the one before it.
PutParcel ==
  /\ work.at = "parcel" /\ work.done < work.beat.chunks - 1
  /\ LET n    == Len(store) + 1
         last == IF work.done = 0 THEN 0 ELSE Max(Of(work.id))
         more == Append(store, Atom(work.beat, "parcel", last, work.id, work.beat.chunks - 1,
                                    FALSE))
     IN  \/ /\ store' = IF last = 0 THEN more ELSE [more EXCEPT ![last].next = n]
            /\ UNCHANGED <<unlinked, faults>>
         \/ /\ last # 0 /\ faults < MaxFaults /\ faults' = faults + 1
            /\ store' = more /\ unlinked' = unlinked \cup {last}
  /\ work' = [work EXCEPT !.done = @ + 1]
  /\ UNCHANGED <<seenKeys, toolAtoms, recalls, unmarked, offers>>

ParcelFails ==
  /\ work.at = "parcel" /\ work.done < work.beat.chunks - 1
  /\ faults < MaxFaults /\ faults' = faults + 1
  /\ work' = [work EXCEPT !.at = "reconcile"]
  /\ UNCHANGED <<store, seenKeys, toolAtoms, recalls, unlinked, unmarked, offers>>

\* _reconcile_parent_parcel_meta: the parent is rewritten; then the children,
\* each from the row its put returned, which has no next link yet.
Reconcile ==
  /\ work.at = "reconcile"
  /\ work' = [work EXCEPT !.at = "end"]
  /\ LET kids   == Of(work.id)
         marked == [store EXCEPT ![work.id].parcels = work.done, ![work.id].short = TRUE]
     IN  \/ /\ faults < MaxFaults /\ faults' = faults + 1
            /\ unmarked' = unmarked \cup {work.id} /\ UNCHANGED store
         \/ /\ store' = [n \in All |->
                           IF n \in kids THEN [marked[n] EXCEPT !.parcels = work.done,
                                                                !.next = 0, !.short = TRUE]
                           ELSE marked[n]]
            /\ UNCHANGED <<unmarked, faults>>
         \/ /\ faults < MaxFaults /\ faults' = faults + 1 /\ kids # {}
            /\ store' = marked /\ UNCHANGED unmarked
  /\ UNCHANGED <<seenKeys, toolAtoms, recalls, unlinked, offers>>

\* The key is remembered, the tool counted, the recall job of a speak enqueued.
Finish ==
  /\ work.at = "end" \/ (work.at = "parcel" /\ work.done = work.beat.chunks - 1)
  /\ seenKeys' = seenKeys \cup {work.beat.name}
  /\ toolAtoms' = IF work.beat.kind = "tool" THEN toolAtoms + 1 ELSE toolAtoms
  /\ recalls' = IF work.beat.kind \in SpeakSources THEN Append(recalls, work.beat.name)
                ELSE recalls
  /\ work' = NoWork
  /\ UNCHANGED <<store, unlinked, unmarked, faults, offers>>

-----------------------------------------------------------------------------
(* A new bout, and a death                                                 *)

NewBout ==
  /\ Idle /\ seenKeys # {}
  /\ seenKeys' = {} /\ toolAtoms' = 0
  /\ UNCHANGED <<store, work, recalls, unlinked, unmarked, faults, offers>>

Dies ==
  /\ faults < MaxFaults /\ faults' = faults + 1
  /\ seenKeys' = {} /\ toolAtoms' = 0 /\ recalls' = <<>> /\ work' = NoWork
  /\ unlinked' = IF work.at = "link" THEN unlinked \cup {store[work.id].prev} ELSE unlinked
  /\ unmarked' = IF work.at \in {"link", "parcel", "reconcile"} /\ work.split
                 THEN unmarked \cup {work.id} ELSE unmarked
  /\ UNCHANGED <<store, offers>>

-----------------------------------------------------------------------------
Init ==
  /\ store = <<>> /\ work = NoWork /\ seenKeys = {} /\ toolAtoms = 0 /\ recalls = <<>>
  /\ unlinked = {} /\ unmarked = {} /\ faults = 0 /\ offers = 0

Next ==
  \/ \E b \in Beats : Offer(b)
  \/ PutAtom \/ PutFails \/ Link \/ PutParcel \/ ParcelFails \/ Reconcile \/ Finish
  \/ NewBout \/ Dies

Spec == Init /\ [][Next]_vars

-----------------------------------------------------------------------------
(* Properties                                                              *)

\* The state is well formed; links lead to atoms.
TypeOK ==
  /\ \A n \in All : {store[n].prev, store[n].next} \subseteq All \cup {0}
  /\ toolAtoms \in 0 .. MaxOffers

\* A beat becomes one atom at most, however often it is offered, across bouts
\* and deaths, and also when the split of its body failed and was retried.
OncePerBeat ==
  \A m, n \in Woven(All) : store[m].beat = store[n].beat => m = n

\* R7: the weave is one line.  No two atoms follow the same one, parcels are
\* not part of it, and a missing next link is one whose update did not happen.
WeaveIsOneLine ==
  /\ \A m, n \in Woven(All) : store[m].prev = store[n].prev => m = n
  /\ \A n \in Woven(All) : store[n].prev # 0 =>
       LET p == store[n].prev
       IN  /\ store[p].kind \in Weave
           /\ store[p].next = n \/ p \in unlinked \/ (work.at = "link" /\ work.id = n)

\* KD21: no text is silently lost.  Parent and parcels hold every chunk, or the
\* parent says that it is short and of how many parcels, unless it could not be
\* told (its rewrite raised, or the process died first).
TextIsWholeOrMarked ==
  Idle => \A n \in Woven(All) \ unmarked :
    LET b == CHOOSE b \in Beats : b.name = store[n].beat
    IN  /\ store[n].parcels = Cardinality(Of(n))
        /\ store[n].short \/ Cardinality(Of(n)) = b.chunks - 1

\* _put_parcel_children: "Put parcel children with sequential prev/next among
\* parcels only."  Each stored parcel but the last leads to the next one.
ParcelsLinked ==
  Idle => \A n \in All : \A k \in Of(n) :
    k + 1 \in Of(n) => store[k].next = k + 1 \/ k \in unlinked

\* However often a beat is offered, a write fails or the process dies: a beat is
\* one atom at most, the atoms of a moment are one line of links, and a split body
\* is whole or says that it is short.
PromotedOnceAndWhole == TypeOK /\ OncePerBeat /\ WeaveIsOneLine /\ TextIsWholeOrMarked
=============================================================================
