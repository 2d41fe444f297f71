------------------------------- MODULE Edges --------------------------------
(***************************************************************************)
(* Durable edges of one atom (memory/edges.py).  put_edge and delete_edge  *)
(* hold the store's lock; put_edge_with_budget does not: it puts, lists    *)
(* what leaves the atom, deletes what is over the caps one by one, and for *)
(* created_with puts an edge to the hour's summary instead.  The presence  *)
(* thread, the encode worker and the operator's backfill do so at once.    *)
(***************************************************************************)
EXTENDS Integers, Sequences, FiniteSets, FiniteSetsExt

CONSTANTS
  Dsts,        \* atoms a created_with or recalls edge may lead to
  Tips,        \* Dsts -> its 1h tip, or NoTip
  NoTip,
  Channels,    \* has_channel destinations
  Cap,         \* kind -> its outgoing cap
  CapTotal,    \* edge_max_per_atom
  MaxOps,      \* bound on operations begun
  MaxFaults    \* bound on writes that fail and on deaths

Hub == "hub"
Kinds == {"with", "recalls", "moment", "channel"}
Writers == {"presence", "encoder", "operator"}

VARIABLES
  edges,     \* _by_id: records [id, at, dst, kind]
  disk,      \* what a reload would give
  job,       \* put_edge_with_budget in progress, per writer
  deferred,  \* speak recalls waiting for an idle tick
  aged,      \* history: created_with targets dropped by a trim that retargets
  unkept,    \* history: created_with targets dropped by a trim that does not
  lapsed,    \* history: a trim that did not run to its end
  made,      \* edges ever made, which orders them
  ops, faults   \* bounds

bounds == <<made, ops, faults>>
vars == <<edges, disk, job, deferred, aged, unkept, lapsed, bounds>>

Off == [at |-> "off"]

\* Time, as far as it orders edges: operations that begin with no edge made
\* between them may carry the same stamp.
Now == made

-----------------------------------------------------------------------------
(* What is over the caps                                                   *)

\* fifo_sort_key: by created_at, then by id (random; the order of making here).
Before(e, f) == e.at < f.at \/ (e.at = f.at /\ e.id < f.id)

\* select_fifo_overflow: all but the newest n.
Overflow(S, n) == {e \in S : Cardinality({f \in S : Before(e, f)}) >= n}

OfKind(S, k) == {e \in S : e.kind = k}

\* plan_budget_drops: each kind's window first, then the total.
PlanBudgetDrops(S) ==
  LET over == UNION {Overflow(OfKind(S, k), Cap[k]) : k \in Kinds}
  IN  over \cup Overflow(S \ over, CapTotal)

-----------------------------------------------------------------------------
(* The store                                                               *)

\* put_edge: the edge that is there keeps its id and its created_at.
Existing(dst, kind) == {e \in edges : e.dst = dst /\ e.kind = kind}

NewEdge(dst, kind, at) ==
  IF Existing(dst, kind) # {} THEN Existing(dst, kind)
  ELSE {[id |-> i, at |-> at, dst |-> dst, kind |-> kind] : i \in {made + 1}}

PutRow(e) == disk' = disk \cup {e} /\ edges' = edges \cup {e} /\ made' = Max({made, e.id})

-----------------------------------------------------------------------------
(* put_edge_with_budget                                                    *)

Begin(w, kind, todo) ==
  /\ job[w] = Off /\ ops < MaxOps /\ ops' = ops + 1
  /\ job' = [job EXCEPT ![w] = [at |-> "put", kind |-> kind, todo |-> todo, stamp |-> Now,
                                plan |-> {}, dropped |-> {}, pending |-> {}, seen |-> {}]]

\* The caller's next edge; when there is none the job ends.
NextEdge(j) ==
  IF Len(j.todo) <= 1 THEN Off
  ELSE [j EXCEPT !.at = "put", !.todo = Tail(@), !.plan = {}, !.dropped = {},
                 !.pending = {}, !.seen = {}]

Put(w) ==
  /\ job[w].at = "put"
  /\ \E e \in NewEdge(Head(job[w].todo), job[w].kind, job[w].stamp) : PutRow(e)
  /\ job' = [job EXCEPT ![w].at = "list"]
  /\ UNCHANGED <<deferred, aged, unkept, lapsed, ops, faults>>

\* The row cannot be written: the caller logs it and goes on with its next edge.
PutFails(w) ==
  /\ job[w].at = "put" /\ faults < MaxFaults /\ faults' = faults + 1
  /\ job' = [job EXCEPT ![w] = NextEdge(@)]
  /\ UNCHANGED <<edges, disk, deferred, aged, unkept, lapsed, made, ops>>

\* enforce_outgoing_budgets lists and plans; others may write meanwhile.
List(w) ==
  /\ job[w].at = "list"
  /\ job' = [job EXCEPT ![w].at = "trim", ![w].plan = PlanBudgetDrops(edges), ![w].dropped = {}]
  /\ UNCHANGED <<edges, disk, deferred, aged, unkept, lapsed, bounds>>

Oldest(S) == CHOOSE e \in S : \A f \in S \ {e} : Before(e, f)

\* Only the promote path hands over the atom store, without which nothing is
\* retargeted.
Retargets(w) == w = "presence" /\ job[w].kind = "with"

\* delete_edge: an edge that another writer deleted is not counted as dropped.
Delete(w) ==
  /\ job[w].at = "trim" /\ job[w].plan # {}
  /\ LET e == Oldest(job[w].plan)
         there == e \in edges
     IN  /\ edges' = edges \ {e} /\ disk' = IF there THEN disk \ {e} ELSE disk
         /\ job' = [job EXCEPT ![w].plan = @ \ {e},
                               ![w].dropped = IF there /\ e.kind = "with" THEN @ \cup {e} ELSE @]
         /\ LET gone == IF there /\ e.kind = "with" THEN {e.dst} ELSE {}
            IN  IF Retargets(w) THEN aged' = aged \cup gone /\ unkept' = unkept
                ELSE unkept' = unkept \cup gone /\ aged' = aged
  /\ UNCHANGED <<deferred, lapsed, bounds>>

\* The row cannot be written, after the index has dropped the edge: it comes
\* back with the next reload.  The exception ends this edge's trim.
DeleteFails(w) ==
  /\ job[w].at = "trim" /\ job[w].plan \cap edges # {} /\ Oldest(job[w].plan) \in edges
  /\ faults < MaxFaults /\ faults' = faults + 1
  /\ edges' = edges \ {Oldest(job[w].plan)}
  /\ lapsed' = TRUE
  /\ job' = [job EXCEPT ![w] = NextEdge(@)]
  /\ UNCHANGED <<disk, deferred, aged, unkept, made, ops>>

TrimmedOnce(w) ==   \* mutant: what a retarget pushes out is not retargeted
  /\ job[w].at = "trim" /\ job[w].plan = {}
  /\ LET j == job[w]
         pending == IF j.seen = {} THEN {e.dst : e \in j.dropped} ELSE {}
     IN  job' = [job EXCEPT ![w] =
                   IF Retargets(w) /\ pending # {}
                   THEN [j EXCEPT !.at = "retarget", !.pending = pending] ELSE NextEdge(j)]
  /\ UNCHANGED <<edges, disk, deferred, aged, unkept, lapsed, bounds>>

\* The trim is done: created_with drops are retargeted, once per target.
Trimmed(w) ==
  /\ job[w].at = "trim" /\ job[w].plan = {}
  /\ LET j == job[w]
         pending == (j.pending \cup {e.dst : e \in j.dropped}) \ j.seen
     IN  job' = [job EXCEPT ![w] =
                   IF Retargets(w) /\ pending # {}
                   THEN [j EXCEPT !.at = "retarget", !.pending = pending] ELSE NextEdge(j)]
  /\ UNCHANGED <<edges, disk, deferred, aged, unkept, lapsed, bounds>>

\* retarget_created_with_edge: an edge to the target's 1h tip, stamped now.
Retarget(w) ==
  /\ job[w].at = "retarget"
  /\ \E d \in job[w].pending :
       LET tip == IF d \in DOMAIN Tips THEN Tips[d] ELSE NoTip
           j   == [job[w] EXCEPT !.pending = @ \ {d}, !.seen = @ \cup {d}, !.dropped = {}]
       IN  IF tip = NoTip \/ tip = d
           THEN /\ job' = [job EXCEPT ![w] = IF j.pending = {} THEN NextEdge(j) ELSE j]
                /\ UNCHANGED <<edges, disk, made>>
           ELSE /\ \E e \in NewEdge(tip, "with", Now) : PutRow(e)
                /\ job' = [job EXCEPT ![w] = [j EXCEPT !.at = "list"]]
  /\ UNCHANGED <<deferred, aged, unkept, lapsed, ops, faults>>

\* The tip's row cannot be written: this target is given up.
RetargetFails(w) ==
  /\ job[w].at = "retarget" /\ faults < MaxFaults /\ faults' = faults + 1
  /\ \E d \in job[w].pending :
       LET j == [job[w] EXCEPT !.pending = @ \ {d}, !.seen = @ \cup {d}, !.dropped = {}]
       IN  job' = [job EXCEPT ![w] = IF j.pending = {} THEN NextEdge(j) ELSE j]
  /\ lapsed' = TRUE
  /\ UNCHANGED <<edges, disk, deferred, aged, unkept, made, ops>>

-----------------------------------------------------------------------------
(* The writers                                                             *)

Lists(S) == {<<d>> : d \in S} \cup {ds \in S \X S : ds[1] # ds[2]}

\* _maybe_write_promote_edges: the moment's hub, and the context of the meal.
WriteInMoment ==
  /\ Begin("presence", "moment", <<Hub>>)
  /\ UNCHANGED <<edges, disk, deferred, aged, unkept, lapsed, made, faults>>

WriteCreatedWith ==
  /\ \E ds \in Lists(Dsts) : Begin("presence", "with", ds)
  /\ UNCHANGED <<edges, disk, deferred, aged, unkept, lapsed, made, faults>>

\* enqueue_deferred_recalls: dropped when the queue is full.
EnqueueRecalls ==
  /\ ~deferred /\ deferred' = TRUE
  /\ UNCHANGED <<edges, disk, job, aged, unkept, lapsed, bounds>>

\* _idle_deferred_recalls: the job is taken whether or not it can be done.
SkipRecalls ==
  /\ deferred /\ job["presence"] = Off /\ deferred' = FALSE
  /\ UNCHANGED <<edges, disk, job, aged, unkept, lapsed, bounds>>

WriteRecalls ==
  /\ deferred /\ deferred' = FALSE
  /\ \E d \in Dsts : Begin("presence", "recalls", <<d>>)
  /\ UNCHANGED <<edges, disk, aged, unkept, lapsed, made, faults>>

\* write_has_channel_edges, after an encode.
WriteHasChannel ==
  /\ \E d \in Channels : Begin("encoder", "channel", <<d>>)
  /\ UNCHANGED <<edges, disk, deferred, aged, unkept, lapsed, made, faults>>

\* backfill_durable_edges: only an atom that has no edge to its moment.
Backfill ==
  /\ Existing(Hub, "moment") = {}
  /\ Begin("operator", "moment", <<Hub>>)
  /\ UNCHANGED <<edges, disk, deferred, aged, unkept, lapsed, made, faults>>

\* The process dies and the store is opened again.
Reopen ==
  /\ faults < MaxFaults /\ faults' = faults + 1
  /\ edges' = disk /\ deferred' = FALSE
  /\ lapsed' = (lapsed \/ \E w \in Writers : job[w] # Off)
  /\ job' = [w \in Writers |-> Off]
  /\ UNCHANGED <<disk, aged, unkept, made, ops>>

-----------------------------------------------------------------------------
Init ==
  /\ edges = {} /\ disk = {} /\ job = [w \in Writers |-> Off] /\ deferred = FALSE
  /\ aged = {} /\ unkept = {} /\ lapsed = FALSE /\ made = 0 /\ ops = 0 /\ faults = 0

Next ==
  \/ WriteInMoment \/ WriteCreatedWith \/ EnqueueRecalls \/ SkipRecalls \/ WriteRecalls
  \/ WriteHasChannel \/ Backfill \/ Reopen
  \/ \E w \in Writers : \/ Put(w) \/ PutFails(w) \/ List(w) \/ Delete(w) \/ DeleteFails(w)
                        \/ Trimmed(w) \/ Retarget(w) \/ RetargetFails(w)

Spec == Init /\ [][Next]_vars

-----------------------------------------------------------------------------
(* Properties                                                              *)

\* Edges are of known kinds and one pair has one edge of a kind.
TypeOK ==
  /\ \A e \in edges \cup disk : e.kind \in Kinds/\ e.id \in 1 .. made
  /\ \A e, f \in edges : e.dst = f.dst /\ e.kind = f.kind => e = f

\* However writers interleave, a kind is over its cap by no more than the
\* edges of writers that have put one and not finished trimming.
BudgetHeld ==
  lapsed \/ LET busy == {w \in Writers : job[w].at \in {"list", "trim"}}
            IN  /\ \A k \in Kinds : Cardinality(OfKind(edges, k)) <= Cap[k] + Cardinality(busy)
                /\ Cardinality(edges) <= CapTotal + Cardinality(busy)

\* A created_with target that ages out stays reachable through its 1h tip,
\* also when the edge to the tip pushed it out, until the tip itself ages out
\* or is dropped by a writer that retargets nothing.
AgedOutReachable ==
  lapsed \/ job["presence"] # Off \/
    \A d \in aged : \/ d \notin DOMAIN Tips \/ Tips[d] \in {NoTip, d}
                    \/ Existing(d, "with") # {} \/ Existing(Tips[d], "with") # {}
                    \/ Tips[d] \in aged \cup unkept

\* What the store serves is on disk: a row that could not be written is not
\* in the index either.
ServedIsStored == edges \subseteq disk

\* With three writers on one atom: the caps hold once all of them are done, what
\* aged out can be reached through its hour, and no edge is served that is not
\* stored.
EdgesHold == TypeOK /\ BudgetHeld /\ AgedOutReachable /\ ServedIsStored
=============================================================================
