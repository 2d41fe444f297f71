---------------------------- MODULE DoLoopProofs ----------------------------
(***************************************************************************)
(* One moment of the do-loop is sound for any calls, limits, thresholds    *)
(* and interjections: the chain that is sent is complete, trimming loses   *)
(* nothing that was said, and nobody is left without an answer unreminded. *)
(***************************************************************************)
EXTENDS DoLoop, FiniteSetTheorems, WellFoundedInduction, TLAPS

Spans == HostLines \cup {"open", "batch", "user"}

-----------------------------------------------------------------------------
(* Induction over the naturals, in the form the provers can use            *)

LEMMA LeastNat ==
  ASSUME NEW T \in SUBSET Nat, T # {}
  PROVE  \E n \in T : \A m \in T : n <= m
<1> DEFINE R == {ss \in Nat \X Nat : ss[1] < ss[2]}
<1>1. OpToRel(<, Nat) = R
  BY DEF OpToRel
<1>2. IsWellFoundedOn(R, Nat)
  BY <1>1, NatLessThanWellFounded
<1> HIDE DEF R
<1>3. PICK n \in T : \A m \in T : ~(<<m, n>> \in R)
  BY <1>2, WFMin
<1>4. \A m \in T : ~(m < n)
  BY <1>3 DEF R
<1> QED
  BY <1>3, <1>4

\* What holds of 0 and is passed on to the next number holds of every number.
LEMMA SetInduction ==
  ASSUME NEW Good, 0 \in Good, \A n \in Nat : n \in Good => n + 1 \in Good
  PROVE  Nat \subseteq Good
<1> SUFFICES ASSUME Nat \ Good # {} PROVE FALSE
  OBVIOUS
<1>1. PICK n \in Nat \ Good : \A m \in Nat \ Good : n <= m
  BY LeastNat
<1>2. n # 0 /\ n - 1 \in Nat /\ (n - 1) + 1 = n
  BY <1>1
<1>3. n - 1 \in Good
  BY <1>1, <1>2
<1> QED
  BY <1>1, <1>2, <1>3

-----------------------------------------------------------------------------
(* Counting the spans of a chain                                           *)

LEMMA CountType ==
  ASSUME NEW S, NEW c \in Seq(S), NEW k
  PROVE  IsFiniteSet({i \in DOMAIN c : c[i] = k}) /\ Count(c, k) \in Nat
<1>1. IsFiniteSet(1 .. Len(c)) /\ DOMAIN c = 1 .. Len(c)
  BY FS_Interval
<1>2. IsFiniteSet({i \in DOMAIN c : c[i] = k})
  BY <1>1, FS_Subset
<1> QED
  BY <1>2, FS_CardinalityType DEF Count

LEMMA CountZero ==
  ASSUME NEW S, NEW c \in Seq(S), NEW k
  PROVE  Count(c, k) = 0 <=> \A i \in DOMAIN c : c[i] # k
<1>1. IsFiniteSet({i \in DOMAIN c : c[i] = k})
  BY CountType
<1>2. Count(c, k) = 0 <=> {i \in DOMAIN c : c[i] = k} = {}
  BY <1>1, FS_EmptySet DEF Count
<1> QED
  BY <1>2

LEMMA CountAppend ==
  ASSUME NEW S, NEW c \in Seq(S), NEW x, NEW k
  PROVE  Count(Append(c, x), k) = Count(c, k) + (IF x = k THEN 1 ELSE 0)
<1> DEFINE d == Append(c, x)
           I == {i \in DOMAIN c : c[i] = k}
           J == {i \in DOMAIN d : d[i] = k}
<1>1. /\ DOMAIN c = 1 .. Len(c) /\ DOMAIN d = 1 .. Len(c) + 1 /\ Len(c) \in Nat
      /\ d[Len(c) + 1] = x /\ \A i \in 1 .. Len(c) : d[i] = c[i]
  OBVIOUS
<1>2. IsFiniteSet(I) /\ Cardinality(I) \in Nat
  BY CountType, FS_CardinalityType
<1>3. Count(c, k) = Cardinality(I) /\ Count(d, k) = Cardinality(J)
  BY DEF Count
<1>4. x = k => J = I \cup {Len(c) + 1} /\ Len(c) + 1 \notin I
  BY <1>1
<1>5. x # k => J = I
  BY <1>1
<1> HIDE DEF I, J
<1>6. CASE x = k
  BY <1>2, <1>3, <1>4, <1>6, FS_AddElement
<1>7. CASE x # k
  BY <1>2, <1>3, <1>5, <1>7
<1> QED
  BY <1>6, <1>7

LEMMA CountEmpty == \A k : Count(<<>>, k) = 0
  BY FS_EmptySet DEF Count

LEMMA CountConcat ==
  ASSUME NEW S, NEW c \in Seq(S), NEW d \in Seq(S), NEW k
  PROVE  Count(c \o d, k) = Count(c, k) + Count(d, k)
<1> DEFINE Good == {n \in Nat : \A e \in Seq(S) :
                      Len(e) = n => Count(c \o e, k) = Count(c, k) + Count(e, k)}
<1>1. 0 \in Good
  <2> SUFFICES ASSUME NEW e \in Seq(S), Len(e) = 0
               PROVE  Count(c \o e, k) = Count(c, k) + Count(e, k)
    OBVIOUS
  <2>1. e = <<>> /\ c \o e = c
    OBVIOUS
  <2>2. Count(c \o e, k) = Count(c, k) /\ Count(e, k) = 0 /\ Count(c, k) \in Nat
    BY <2>1, CountEmpty, CountType
  <2> QED
    BY <2>2
<1>2. ASSUME NEW n \in Nat, n \in Good PROVE n + 1 \in Good
  <2> SUFFICES ASSUME NEW e \in Seq(S), Len(e) = n + 1
               PROVE  Count(c \o e, k) = Count(c, k) + Count(e, k)
    OBVIOUS
  <2> DEFINE f == [i \in 1 .. n |-> e[i]]
  <2>1. f \in Seq(S) /\ Len(f) = n /\ e[n + 1] \in S
    BY <1>2
  <2>2. e = Append(f, e[n + 1])
    BY <1>2, <2>1
  <2>3. c \o e = Append(c \o f, e[n + 1])
    BY <1>2, <2>1, <2>2
  <2>a. c \o f \in Seq(S)
    BY <1>2, <2>1
  <2>4. Count(c \o f, k) = Count(c, k) + Count(f, k)
    BY <1>2, <2>1
  <2> HIDE DEF f
  <2> DEFINE one == IF e[n + 1] = k THEN 1 ELSE 0
  <2>b. \A g \in Seq(S) : Count(Append(g, e[n + 1]), k) = Count(g, k) + one
    BY CountAppend
  <2>5. Count(Append(c \o f, e[n + 1]), k) = Count(c \o f, k) + one
    BY <2>a, <2>b, Zenon
  <2>6. Count(Append(f, e[n + 1]), k) = Count(f, k) + one
    BY <2>1, CountAppend
  <2>7. Count(c \o e, k) = Count(c \o f, k) + one /\ Count(e, k) = Count(f, k) + one
    BY <2>2, <2>3, <2>a, <2>5, <2>6, Zenon
  <2>8. Count(c, k) \in Nat /\ Count(f, k) \in Nat /\ one \in Nat
    BY <2>1, CountType
  <2> QED
    BY <2>4, <2>7, <2>8
<1>3. Nat \subseteq Good
  <2> HIDE DEF Good
  <2> QED
    BY <1>1, <1>2, SetInduction
<1>4. Len(d) \in Nat
  OBVIOUS
<1> QED
  BY <1>3, <1>4

LEMMA CountLine == \A x, k : Count(<<x>>, k) = IF x = k THEN 1 ELSE 0
<1> TAKE x, k
<1>1. DOMAIN <<x>> = {1} /\ <<x>>[1] = x
  OBVIOUS
<1>2. {i \in DOMAIN <<x>> : <<x>>[i] = k} = IF x = k THEN {1} ELSE {}
  BY <1>1
<1> QED
  BY <1>2, FS_EmptySet, FS_Singleton DEF Count

\* What two numbers have as their greater and their smaller one.
LEMMA MaxMinTwo ==
  ASSUME NEW a \in Int, NEW b \in Int
  PROVE  /\ Max({a, b}) \in {a, b} /\ Max({a, b}) >= a /\ Max({a, b}) >= b
         /\ Min({a, b}) \in {a, b} /\ Min({a, b}) <= a /\ Min({a, b}) <= b
<1>1. \E x \in {a, b} : \A y \in {a, b} : x >= y
  OBVIOUS
<1>2. \E x \in {a, b} : \A y \in {a, b} : x =< y
  OBVIOUS
<1>3. Max({a, b}) \in {a, b} /\ \A y \in {a, b} : Max({a, b}) >= y
  BY <1>1 DEF Max
<1>4. Min({a, b}) \in {a, b} /\ \A y \in {a, b} : Min({a, b}) =< y
  BY <1>2 DEF Min
<1> QED
  BY <1>3, <1>4

LEMMA ConcatParts ==
  ASSUME NEW S, NEW a \in Seq(S), NEW b \in Seq(S)
  PROVE  /\ a \o b \in Seq(S) /\ Len(a \o b) = Len(a) + Len(b)
         /\ \A i \in 1 .. Len(a) : (a \o b)[i] = a[i]
         /\ \A i \in 1 .. Len(b) : (a \o b)[Len(a) + i] = b[i]
OBVIOUS

LEMMA SameSeq ==
  ASSUME NEW S, NEW a \in Seq(S), NEW b \in Seq(S), Len(a) = Len(b),
         \A i \in 1 .. Len(a) : a[i] = b[i]
  PROVE a = b
OBVIOUS

LEMMA Split ==
  ASSUME NEW S, NEW c \in Seq(S), NEW p \in 1 .. Len(c)
  PROVE  c = (SubSeq(c, 1, p - 1) \o <<c[p]>>) \o SubSeq(c, p + 1, Len(c))
<1> DEFINE a == SubSeq(c, 1, p - 1)
           b == SubSeq(c, p + 1, Len(c))
           l == <<c[p]>>
<1>1. /\ a \in Seq(S) /\ b \in Seq(S) /\ l \in Seq(S)
      /\ p \in Nat /\ p >= 1 /\ Len(c) \in Nat
  OBVIOUS
<1>2. /\ Len(a) = p - 1 /\ Len(l) = 1 /\ Len(b) = Len(c) - p
      /\ \A i \in 1 .. p - 1 : a[i] = c[i]
      /\ l[1] = c[p]
      /\ \A i \in 1 .. Len(c) - p : b[i] = c[p + i]
  OBVIOUS
<1> HIDE DEF a, b, l
<1> DEFINE d == a \o l
<1>3. d \in Seq(S) /\ Len(d) = p
  <2>1. d \in Seq(S) /\ Len(d) = Len(a) + Len(l)
    BY <1>1, ConcatParts
  <2> HIDE DEF d
  <2> QED
    BY <1>1, <1>2, <2>1
<1>4. \A i \in 1 .. p : d[i] = c[i]
  <2>1. \A i \in 1 .. Len(a) : d[i] = a[i]
    BY <1>1, ConcatParts
  <2>2. d[Len(a) + 1] = l[1]
    BY <1>1, <1>2, ConcatParts
  <2> HIDE DEF d
  <2>3. \A i \in 1 .. p - 1 : d[i] = c[i]
    BY <2>1, <1>2
  <2>4. d[p] = c[p]
    BY <2>2, <1>1, <1>2
  <2> QED
    BY <2>3, <2>4, <1>1
<1> HIDE DEF d
<1> DEFINE e == d \o b
<1>5. e \in Seq(S) /\ Len(e) = Len(d) + Len(b)
  BY <1>1, <1>3, ConcatParts
<1>6. /\ \A i \in 1 .. Len(d) : e[i] = d[i]
      /\ \A i \in 1 .. Len(b) : e[Len(d) + i] = b[i]
  BY <1>1, <1>3, ConcatParts
<1> HIDE DEF e
<1>7. ASSUME NEW i \in 1 .. Len(c), ~(i <= p)
      PROVE e[i] = c[i]
  <2>1. i - p \in 1 .. Len(c) - p /\ p + (i - p) = i
    BY <1>1, <1>7
  <2> QED
    BY <2>1, <1>2, <1>3, <1>6
<1>8. \A i \in 1 .. Len(c) : e[i] = c[i]
  BY <1>1, <1>3, <1>4, <1>6, <1>7
<1>9. Len(e) = Len(c)
  BY <1>1, <1>2, <1>3, <1>5
<1>10. e = c
  BY <1>5, <1>8, <1>9, SameSeq
<1> QED
  BY <1>10 DEF a, b, d, e, l

LEMMA SetOfConcat ==
  ASSUME NEW S, NEW c \in Seq(S), NEW d \in Seq(S)
  PROVE  ToSet(c \o d) = ToSet(c) \cup ToSet(d)
<1> DEFINE e == c \o d
<1>1. /\ DOMAIN c = 1 .. Len(c) /\ DOMAIN d = 1 .. Len(d) /\ Len(c) \in Nat /\ Len(d) \in Nat
      /\ DOMAIN e = 1 .. Len(c) + Len(d)
      /\ \A i \in 1 .. Len(c) : e[i] = c[i]
      /\ \A i \in 1 .. Len(d) : e[Len(c) + i] = d[i]
  OBVIOUS
<1> HIDE DEF e
<1>2. ASSUME NEW i \in DOMAIN e PROVE e[i] \in ToSet(c) \cup ToSet(d)
  <2>1. CASE i \in 1 .. Len(c)
    BY <1>1, <2>1 DEF ToSet
  <2>2. CASE i \notin 1 .. Len(c)
    <3>1. i - Len(c) \in 1 .. Len(d) /\ i = Len(c) + (i - Len(c))
      BY <1>1, <1>2, <2>2
    <3>2. e[i] = d[i - Len(c)]
      BY <1>1, <3>1
    <3> QED
      BY <1>1, <3>1, <3>2 DEF ToSet
  <2> QED
    BY <2>1, <2>2
<1>3. \A i \in DOMAIN c : i \in DOMAIN e /\ e[i] = c[i]
  BY <1>1
<1>4. \A i \in DOMAIN d : Len(c) + i \in DOMAIN e /\ e[Len(c) + i] = d[i]
  BY <1>1
<1>5. ToSet(e) = ToSet(c) \cup ToSet(d)
  BY <1>2, <1>3, <1>4 DEF ToSet
<1> QED
  BY <1>5 DEF e

-----------------------------------------------------------------------------
(* Trimming drops batches and nothing else                                 *)

LEMMA DropKeeps ==
  ASSUME NEW S, NEW c \in Seq(S)
  PROVE  /\ DropOldestBatch(c) \in Seq(S)
         /\ \A k : k # "batch" => Count(DropOldestBatch(c), k) = Count(c, k)
<1> DEFINE I == {i \in 1 .. Len(c) : c[i] = "batch"}
           p == SelectInSeq(c, LAMBDA m : m = "batch")
<1>1. p = IF I # {} THEN Min(I) ELSE 0
  BY DEF SelectInSeq
<1>2. DropOldestBatch(c) = SubSeq(c, 1, p - 1) \o SubSeq(c, p + 1, Len(c))
  BY DEF DropOldestBatch, RemoveAt
<1> HIDE DEF p
<1>3. CASE I = {}
  <2>1. p = 0
    BY <1>1, <1>3
  <2>2. SubSeq(c, 1, 0 - 1) = <<>> /\ SubSeq(c, 0 + 1, Len(c)) = c
    OBVIOUS
  <2>3. DropOldestBatch(c) = c
    BY <1>2, <2>1, <2>2
  <2> QED
    BY <2>3
<1>4. CASE I # {}
  <2>0. I \in SUBSET Nat
    OBVIOUS
  <2>1. \E x \in I : \A y \in I : x =< y
    BY <1>4, <2>0, LeastNat
  <2>2. p \in I
    BY <1>1, <1>4, <2>1 DEF Min
  <2> DEFINE a == SubSeq(c, 1, p - 1)
             b == SubSeq(c, p + 1, Len(c))
             l == <<"batch">>
  <2>i. p \in 1 .. Len(c) /\ c[p] = "batch" /\ "batch" \in S /\ p \in Nat /\ Len(c) \in Nat
    BY <2>2
  <2>j. a \in Seq(S) /\ b \in Seq(S) /\ l \in Seq(S)
    BY <2>i
  <2>k. \A d, e \in Seq(S) : d \o e \in Seq(S)
    BY ConcatParts, Zenon
  <2>4. c = (a \o l) \o b
    BY <2>i, Split
  <2> HIDE DEF a, b, l
  <2>3. a \in Seq(S) /\ b \in Seq(S) /\ l \in Seq(S) /\ a \o l \in Seq(S)
    BY <2>j, <2>k, Zenon
  <2>5. a \o b \in Seq(S)
    BY <2>3
  <2>6. ASSUME NEW k, k # "batch" PROVE Count(a \o b, k) = Count(c, k)
    <3>1. Count(a \o b, k) = Count(a, k) + Count(b, k)
      BY <2>3, CountConcat
    <3>2. Count((a \o l) \o b, k) = Count(a \o l, k) + Count(b, k)
      BY <2>3, CountConcat
    <3>3. Count(a \o l, k) = Count(a, k) + Count(l, k)
      BY <2>3, CountConcat
    <3>4. Count(l, k) = 0
      BY <2>6, CountLine DEF l
    <3>5. Count(a, k) \in Nat /\ Count(b, k) \in Nat
      BY <2>3, CountType
    <3>6. Count(c, k) = Count(a, k) + 0 + Count(b, k)
      BY <2>4, <3>2, <3>3, <3>4, Zenon
    <3> QED
      BY <3>1, <3>5, <3>6
  <2>7. DropOldestBatch(c) = a \o b
    BY <1>2 DEF a, b
  <2> QED
    BY <2>5, <2>6, <2>7
<1> QED
  BY <1>3, <1>4

\* The recursive function of Trimmed has a value.
LEMMA DroppedExists ==
  ASSUME NEW c, NEW n \in Nat
  PROVE  \E f : f = [k \in 0 .. n |-> IF k = 0 THEN c ELSE DropOldestBatch(f[k - 1])]
<1> DEFINE Good == {m \in Nat : \E f : f = [k \in 0 .. m |-> IF k = 0 THEN c
                                                      ELSE DropOldestBatch(f[k - 1])]}
<1>1. 0 \in Good
  <2> DEFINE f == [k \in 0 .. 0 |-> c]
  <2>1. f = [k \in 0 .. 0 |-> IF k = 0 THEN c ELSE DropOldestBatch(f[k - 1])]
    OBVIOUS
  <2> QED
    BY <2>1
<1>2. ASSUME NEW m \in Nat, m \in Good PROVE m + 1 \in Good
  <2>1. PICK f : f = [k \in 0 .. m |-> IF k = 0 THEN c ELSE DropOldestBatch(f[k - 1])]
    BY <1>2
  <2> DEFINE g == [k \in 0 .. m + 1 |-> IF k = m + 1 THEN DropOldestBatch(f[m]) ELSE f[k]]
  <2>2. \A k \in 0 .. m + 1 : g[k] = IF k = 0 THEN c ELSE DropOldestBatch(g[k - 1])
    <3> SUFFICES ASSUME NEW k \in 0 .. m + 1
                 PROVE  g[k] = IF k = 0 THEN c ELSE DropOldestBatch(g[k - 1])
      OBVIOUS
    <3>1. CASE k = m + 1
      <4>1. k - 1 = m /\ m \in 0 .. m + 1 /\ m # m + 1 /\ k # 0
        BY <1>2, <3>1
      <4>2. g[k - 1] = f[m] /\ g[k] = DropOldestBatch(f[m])
        BY <3>1, <4>1
      <4> QED
        BY <4>1, <4>2
    <3>2. CASE k # m + 1
      <4>1. k \in 0 .. m /\ g[k] = f[k]
        BY <3>2
      <4>2. f[k] = IF k = 0 THEN c ELSE DropOldestBatch(f[k - 1])
        BY <2>1, <4>1
      <4>3. k # 0 => k - 1 \in 0 .. m + 1 /\ k - 1 # m + 1
        BY <4>1
      <4>4. k # 0 => g[k - 1] = f[k - 1]
        BY <4>3
      <4> QED
        BY <4>1, <4>2, <4>4
    <3> QED
      BY <3>1, <3>2
  <2>3. g = [k \in 0 .. m + 1 |-> IF k = 0 THEN c ELSE DropOldestBatch(g[k - 1])]
    BY <2>2
  <2> HIDE DEF g
  <2> QED
    BY <2>3
<1>3. Nat \subseteq Good
  <2> HIDE DEF Good
  <2> QED
    BY <1>1, <1>2, SetInduction
<1> QED
  BY <1>3

\* Whatever trimming leaves of a chain has every HOST line and every interjection
\* of it (_drop_oldest_batch).
LEMMA TrimKeeps ==
  ASSUME NEW S, NEW c \in Seq(S), NEW t \in Trimmed(c)
  PROVE  t \in Seq(S) /\ \A k : k # "batch" => Count(t, k) = Count(c, k)
<1> DEFINE most == Max({Count(c, "batch") - 1, 0} \cap Nat)
           dropped[k \in 0 .. most] == IF k = 0 THEN c ELSE DropOldestBatch(dropped[k - 1])
<1>1. most \in Nat
  <2>1. Count(c, "batch") \in Nat
    BY CountType
  <2>2. {Count(c, "batch") - 1, 0} \cap Nat = IF Count(c, "batch") = 0 THEN {0}
                                              ELSE {Count(c, "batch") - 1, 0}
    BY <2>1
  <2>3. \E x \in {Count(c, "batch") - 1, 0} \cap Nat :
          \A y \in {Count(c, "batch") - 1, 0} \cap Nat : x >= y
    BY <2>1, <2>2
  <2> QED
    BY <2>3 DEF Max
<1>2. \E k \in 0 .. most : t = dropped[k]
  BY DEF Trimmed
<1> HIDE DEF most
<1>3. dropped = [k \in 0 .. most |-> IF k = 0 THEN c ELSE DropOldestBatch(dropped[k - 1])]
  <2>1. \E f : f = [k \in 0 .. most |-> IF k = 0 THEN c ELSE DropOldestBatch(f[k - 1])]
    BY <1>1, DroppedExists
  <2> QED
    BY <2>1
<1> HIDE DEF dropped
<1> DEFINE Kept(d) == d \in Seq(S) /\ \A k : k # "batch" => Count(d, k) = Count(c, k)
           Good == {n \in Nat : n <= most => Kept(dropped[n])}
<1>4. 0 \in Good
  <2>1. dropped[0] = c
    BY <1>1, <1>3
  <2> QED
    BY <2>1
<1>5. ASSUME NEW n \in Nat, n \in Good PROVE n + 1 \in Good
  <2> SUFFICES ASSUME n + 1 <= most PROVE Kept(dropped[n + 1])
    OBVIOUS
  <2>1. n + 1 \in 0 .. most /\ n + 1 # 0 /\ (n + 1) - 1 = n /\ n <= most
    BY <1>1
  <2>2. dropped[n + 1] = DropOldestBatch(dropped[n])
    BY <1>3, <2>1
  <2>3. Kept(dropped[n])
    BY <1>5, <2>1
  <2> QED
    BY <2>2, <2>3, DropKeeps
<1>6. Nat \subseteq Good
  <2> HIDE DEF Good
  <2> QED
    BY <1>4, <1>5, SetInduction
<1>7. PICK k \in 0 .. most : t = dropped[k]
  BY <1>2
<1>8. Kept(dropped[k])
  BY <1>1, <1>6, <1>7
<1> QED
  BY <1>7, <1>8

-----------------------------------------------------------------------------
(* Lines that are each said once                                           *)

Once(l) == \A k \in Spans : Count(l, k) = IF k \in ToSet(l) THEN 1 ELSE 0

LEMMA OptionalLine ==
  ASSUME NEW due \in BOOLEAN, NEW kind \in HostLines,
         NEW l, l = IF due THEN <<kind>> ELSE <<>>
  PROVE  l \in Seq(HostLines) /\ Once(l) /\ ToSet(l) = IF due THEN {kind} ELSE {}
<1>1. CASE due
  <2>1. l = <<kind>>
    BY <1>1
  <2>2. DOMAIN l = {1} /\ l[1] = kind /\ l \in Seq(HostLines)
    BY <2>1
  <2>3. ToSet(l) = {kind}
    BY <2>2 DEF ToSet
  <2>4. \A k \in Spans : Count(l, k) = IF k = kind THEN 1 ELSE 0
    BY <2>1, CountLine
  <2> QED
    BY <1>1, <2>2, <2>3, <2>4 DEF Once
<1>2. CASE ~due
  <2>1. l = <<>>
    BY <1>2
  <2>2. DOMAIN l = {} /\ l \in Seq(HostLines)
    BY <2>1
  <2>3. ToSet(l) = {}
    BY <2>2 DEF ToSet
  <2>4. \A k \in Spans : Count(l, k) = 0
    BY <2>1, CountEmpty
  <2> QED
    BY <1>2, <2>2, <2>3, <2>4 DEF Once
<1> QED
  BY <1>1, <1>2

LEMMA HostSpans == \A l \in Seq(HostLines) : l \in Seq(Spans)
BY DEF Spans

LEMMA OnceConcat ==
  ASSUME NEW l \in Seq(HostLines), NEW m \in Seq(HostLines), Once(l), Once(m),
         ToSet(l) \cap ToSet(m) = {}
  PROVE  l \o m \in Seq(HostLines) /\ Once(l \o m) /\ ToSet(l \o m) = ToSet(l) \cup ToSet(m)
<1> DEFINE n == l \o m
<1>1. n \in Seq(HostLines)
  BY ConcatParts
<1>2. ToSet(n) = ToSet(l) \cup ToSet(m)
  BY SetOfConcat
<1>3. \A k : Count(n, k) = Count(l, k) + Count(m, k)
  BY CountConcat
<1> HIDE DEF n
<1>4. \A k \in Spans : /\ Count(l, k) = IF k \in ToSet(l) THEN 1 ELSE 0
                       /\ Count(m, k) = IF k \in ToSet(m) THEN 1 ELSE 0
  BY DEF Once
<1>5. Once(n)
  BY <1>2, <1>3, <1>4 DEF Once
<1> QED
  BY <1>1, <1>2, <1>5 DEF n

LEMMA DrainedCount ==
  ASSUME NEW n \in Nat
  PROVE  /\ [i \in 1 .. n |-> "user"] \in Seq(Spans)
         /\ \A k : Count([i \in 1 .. n |-> "user"], k) = IF k = "user" THEN n ELSE 0
<1> DEFINE d == [i \in 1 .. n |-> "user"]
<1>1. d \in Seq(Spans) /\ DOMAIN d = 1 .. n /\ \A i \in 1 .. n : d[i] = "user"
  BY DEF Spans
<1> HIDE DEF d
<1>2. {i \in DOMAIN d : d[i] = "user"} = 1 .. n
  BY <1>1
<1>3. Cardinality(1 .. n) = n
  BY FS_Interval
<1>4. Count(d, "user") = n
  BY <1>2, <1>3 DEF Count
<1>5. ASSUME NEW k, k # "user" PROVE Count(d, k) = 0
  BY <1>1, <1>5, CountZero
<1> QED
  BY <1>1, <1>4, <1>5 DEF d

-----------------------------------------------------------------------------
(* The invariant                                                           *)

\* The tool results that are missing are those of the last batch of the chain
\* (_handle_tool_batch).
BatchInv ==
  /\ pc = "call" => hop < MaxHops
  /\ pc = "batch" => /\ chain # <<>>
                     /\ (left > 0) <=> (chain[Len(chain)] = "open")

Inv == LoopIsSound /\ BatchInv

LEMMA SpansType == TypeOK => /\ chain \in Seq(Spans) /\ DOMAIN said = HostLines
                             /\ \A k \in HostLines : said[k] \in Nat
BY DEF TypeOK, Spans

LEMMA HostLinesAre ==
  HostLines = {"skill_commit", "no_speak", "answer_speak", "work_continue",
               "continue", "thrash", "lesson_request", "lesson_pin"}
BY DEF HostLines, FreeTextNudges

LEMMA StreakTop == Max({FailStreak, OkStreak}) \in Nat \ {0}
<1>1. FailStreak \in Int /\ OkStreak \in Int /\ {FailStreak, OkStreak} \subseteq Nat \ {0}
  BY DoLoopOK
<1>2. Max({FailStreak, OkStreak}) \in {FailStreak, OkStreak}
  BY <1>1, MaxMinTwo
<1> QED
  BY <1>1, <1>2

\* Saying lines once each, after a chain that has all that was said before.
LEMMA SaidOnce ==
  ASSUME TypeOK, NothingSaidIsLost, NEW l \in Seq(HostLines), Once(l)
  PROVE  /\ chain \o l \in Seq(Spans)
         /\ \A k \in HostLines : Count(chain \o l, k) = Saying(ToSet(l))[k]
         /\ Count(chain \o l, "user") = heard
         /\ Count(chain \o l, "open") = Count(chain, "open")
<1>1. chain \in Seq(Spans) /\ l \in Seq(Spans)
  BY SpansType, HostSpans
<1>2. \A k : Count(chain \o l, k) = Count(chain, k) + Count(l, k)
  BY <1>1, CountConcat
<1>3. chain \o l \in Seq(Spans)
  BY <1>1, ConcatParts
<1>4. HostLines \subseteq Spans /\ {"user", "open"} \subseteq Spans
      /\ {"user", "open"} \cap HostLines = {}
  BY HostLinesAre DEF Spans
<1>5. ToSet(l) \subseteq HostLines
  BY DEF ToSet
<1>6. \A k \in Spans : Count(l, k) = IF k \in ToSet(l) THEN 1 ELSE 0
  BY DEF Once
<1>7. \A k \in HostLines : said[k] \in Nat /\ Count(chain, k) = said[k]
  BY SpansType DEF NothingSaidIsLost
<1>8. \A k \in HostLines : Saying(ToSet(l))[k] = said[k] + (IF k \in ToSet(l) THEN 1 ELSE 0)
  BY DEF Saying
<1>9. Count(l, "user") = 0 /\ Count(l, "open") = 0
  BY <1>4, <1>5, <1>6
<1>10. Count(chain, "user") \in Nat /\ Count(chain, "open") \in Nat
  BY <1>1, CountType
<1>11. \A k \in HostLines : Count(chain \o l, k) = Saying(ToSet(l))[k]
  BY <1>2, <1>4, <1>6, <1>7, <1>8
<1>12. Count(chain \o l, "user") = heard /\ Count(chain \o l, "open") = Count(chain, "open")
  BY <1>2, <1>9, <1>10 DEF NothingSaidIsLost
<1> QED
  BY <1>3, <1>11, <1>12

-----------------------------------------------------------------------------
(* Initial states                                                          *)

LEMMA InitInv == Init => Inv
<1> SUFFICES ASSUME Init PROVE Inv
  OBVIOUS
<1>1. TypeOK
  <2>1. Max({FailStreak, OkStreak}) \in Nat
    BY StreakTop
  <2>2. MaxHops \in Nat /\ MaxCalls \in Nat /\ WallClock \in Nat /\ MaxInterjections \in Nat
        /\ SynthStreak \in Nat
    BY DoLoopOK
  <2>3. stop = None /\ pc = "top" /\ text = None /\ pending = None
    BY DEF Init
  <2>4. /\ thrash \in [fp : Calls \cup {None}, ok : BOOLEAN,
                 streak : 0..Max({FailStreak, OkStreak})]
        /\ lesson \in [fp : Calls \cup {None}, fails : 0..SynthStreak]
    BY <2>1, <2>2 DEF Init
  <2>5. said \in [HostLines -> Nat] /\ chain \in Seq(HostLines \cup {"open", "batch", "user"})
    BY DEF Init
  <2>6. wake \in Wakes /\ {spoke, fresh, ran, mutated} \subseteq BOOLEAN
    BY DEF Init
  <2>7. now = 0 /\ active = 0 /\ hop = 0 /\ left = 0 /\ heard = 0
    BY DEF Init
  <2>8. /\ now \in 0..WallClock /\ active \in 0..now
        /\ hop \in 0..MaxHops /\ left \in 0..MaxCalls /\ heard \in 0..MaxInterjections
    BY <2>2, <2>7
  <2> QED
    BY <2>3, <2>4, <2>5, <2>6, <2>8 DEF TypeOK
<1>2. SilenceWasNudged /\ ResultWasNudged
  BY DEF Init, SilenceWasNudged, ResultWasNudged, None
<1>3. chain = <<>> /\ DOMAIN chain = {} /\ pc = "top"
  BY DEF Init
<1>4. ChainIsComplete
  BY <1>3, CountEmpty DEF ChainIsComplete
<1>5. NothingSaidIsLost
  BY <1>3, CountEmpty DEF NothingSaidIsLost, Init
<1>6. BatchInv
  BY <1>3 DEF BatchInv
<1> QED
  BY <1>1, <1>2, <1>4, <1>5, <1>6 DEF Inv, LoopIsSound

-----------------------------------------------------------------------------
(* Types                                                                   *)

LEMMA Numbers ==
  /\ MaxHops \in Nat /\ MaxCalls \in Nat \ {0} /\ WallClock \in Nat
  /\ MaxInterjections \in Nat /\ SynthStreak \in Nat \ {0} /\ Failing \subseteq Calls
BY DoLoopOK

LEMMA SayingType == TypeOK => \A ks : Saying(ks) \in [HostLines -> Nat]
BY DEF TypeOK, Saying

\* What trimming leaves is a chain, and the pin is never written twice.
LEMMA PreparedChain ==
  ASSUME TypeOK, NothingSaidIsLost, NEW due \in BOOLEAN,
         NEW full, full = IF due THEN Say(chain, "continue") ELSE chain,
         NEW c \in Trimmed(full)
  PROVE  LET sent == Saying(IF due THEN {"continue"} ELSE {})
         IN  /\ EnsureLessonPin(c) = c
             /\ c \in Seq(Spans)
             /\ \A k \in HostLines : Count(c, k) = sent[k]
             /\ Count(c, "user") = heard
             /\ Count(c, "open") = Count(chain, "open")
<1> DEFINE l == IF due THEN <<"continue">> ELSE <<>>
           sent == Saying(IF due THEN {"continue"} ELSE {})
<1>1. l \in Seq(HostLines) /\ Once(l) /\ ToSet(l) = IF due THEN {"continue"} ELSE {}
  BY OptionalLine, HostLinesAre
<1>2. full = chain \o l
  <2>1. chain \in Seq(Spans) /\ "continue" \in Spans
    BY SpansType, HostLinesAre DEF Spans
  <2>2. Append(chain, "continue") = chain \o <<"continue">> /\ chain = chain \o <<>>
    BY <2>1
  <2> QED
    BY <2>2 DEF Say
<1> HIDE DEF l
<1>a. sent = Saying(ToSet(l))
  BY <1>1
<1> HIDE DEF sent
<1>b. /\ chain \o l \in Seq(Spans)
      /\ \A k \in HostLines : Count(chain \o l, k) = Saying(ToSet(l))[k]
      /\ Count(chain \o l, "user") = heard
      /\ Count(chain \o l, "open") = Count(chain, "open")
  BY <1>1, SaidOnce
<1>3. /\ full \in Seq(Spans) /\ \A k \in HostLines : Count(full, k) = sent[k]
      /\ Count(full, "user") = heard /\ Count(full, "open") = Count(chain, "open")
  BY <1>a, <1>b, <1>2, Zenon
<1>4. c \in Seq(Spans) /\ \A k : k # "batch" => Count(c, k) = Count(full, k)
  BY <1>3, TrimKeeps
<1>5. "batch" \notin HostLines /\ "lesson_pin" \in HostLines /\ "lesson_pin" # "continue"
  BY HostLinesAre
<1>6. \A k \in HostLines : Count(c, k) = sent[k]
  BY <1>3, <1>4, <1>5
<1>7. Sent("lesson_pin") => Count(c, "lesson_pin") # 0
  BY <1>5, <1>6, SpansType DEF Saying, Sent, sent
<1> QED
  BY <1>3, <1>4, <1>6, <1>7 DEF EnsureLessonPin, sent

LEMMA StreakType ==
  ASSUME TypeOK, NEW call \in Calls, NEW ok \in BOOLEAN
  PROVE  /\ UpdatedStreak(call, ok) \in [fp : Calls \cup {None}, ok : BOOLEAN,
                                         streak : 0..Max({FailStreak, OkStreak})]
         /\ UpdatedLesson(call, ok) \in [fp : Calls \cup {None}, fails : 0..SynthStreak]
<1> DEFINE top == Max({FailStreak, OkStreak})
<1>1. top \in Nat \ {0} /\ SynthStreak \in Nat \ {0}
  BY StreakTop, Numbers
<1>2. /\ thrash \in [fp : Calls \cup {None}, ok : BOOLEAN, streak : 0..top]
      /\ lesson \in [fp : Calls \cup {None}, fails : 0..SynthStreak]
  BY DEF TypeOK
<1>3. \A a \in Nat, b \in Nat \ {0} : Min({a + 1, b}) \in 0 .. b
  <2> TAKE a \in Nat, b \in Nat \ {0}
  <2>1. a + 1 \in Int /\ b \in Int
    OBVIOUS
  <2>2. Min({a + 1, b}) \in {a + 1, b} /\ Min({a + 1, b}) <= b
    BY <2>1, MaxMinTwo
  <2> QED
    BY <2>2
<1> HIDE DEF top
<1>4. thrash.streak \in Nat /\ lesson.fails \in Nat
  BY <1>1, <1>2
<1>5. Min({thrash.streak + 1, top}) \in 0 .. top /\ 1 \in 0 .. top
  BY <1>1, <1>3, <1>4
<1>6. Min({lesson.fails + 1, SynthStreak}) \in 0 .. SynthStreak
      /\ 1 \in 0 .. SynthStreak /\ 0 \in 0 .. SynthStreak
  BY <1>1, <1>3, <1>4
<1>7. UpdatedStreak(call, ok) \in [fp : Calls \cup {None}, ok : BOOLEAN, streak : 0..top]
  BY <1>5 DEF UpdatedStreak, top
<1>8. UpdatedLesson(call, ok) \in [fp : Calls \cup {None}, fails : 0..SynthStreak]
  BY <1>2, <1>6 DEF UpdatedLesson
<1> QED
  BY <1>7, <1>8 DEF top

-----------------------------------------------------------------------------
(* Every step keeps the invariant                                          *)

\* Only the acceptance of a stop without tools can break the promises about nudges.
LEMMA OnlyNoTools == stop' # "no_tools" => SilenceWasNudged' /\ ResultWasNudged'
BY DEF SilenceWasNudged, ResultWasNudged

LEMMA NoneOpen ==
  ASSUME NEW c \in Seq(Spans)
  PROVE  Count(c, "open") = 0 <=> \A i \in DOMAIN c : c[i] # "open"
BY CountZero

LEMMA HostStopInv == Inv /\ HostStop => Inv'
<1> SUFFICES ASSUME Inv, HostStop PROVE Inv'
  OBVIOUS
<1>1. stop' \in Stops \ {"no_tools", None} /\ pc' = "done"
  BY DEF HostStop, Finish, PrecheckStop, Stops, None
<1>2. UNCHANGED <<wake, now, active, hop, chain, said, heard, left, progress, pending, streaks, text>>
  BY DEF HostStop, clock
<1>3. TypeOK'
  BY <1>1, <1>2 DEF Inv, LoopIsSound, TypeOK, progress, streaks
<1>4. SilenceWasNudged' /\ ResultWasNudged'
  BY <1>1, OnlyNoTools
<1>5. ChainIsComplete' /\ NothingSaidIsLost' /\ BatchInv'
  BY <1>1, <1>2 DEF Inv, LoopIsSound, ChainIsComplete, NothingSaidIsLost, BatchInv, Count
<1> QED
  BY <1>3, <1>4, <1>5 DEF Inv, LoopIsSound

LEMMA CallFailsInv == Inv /\ CallFails => Inv'
<1> SUFFICES ASSUME Inv, CallFails PROVE Inv'
  OBVIOUS
<1>1. stop' \in Stops \ {"no_tools", None} /\ pc' = "done"
  BY DEF CallFails, Finish, Stops, None
<1>2. UNCHANGED <<wake, now, active, hop, chain, said, heard, left, progress, pending, streaks, text>>
  BY DEF CallFails, clock
<1>3. TypeOK'
  BY <1>1, <1>2 DEF Inv, LoopIsSound, TypeOK, progress, streaks
<1>4. SilenceWasNudged' /\ ResultWasNudged'
  BY <1>1, OnlyNoTools
<1>5. ChainIsComplete' /\ NothingSaidIsLost' /\ BatchInv'
  BY <1>1, <1>2 DEF Inv, LoopIsSound, ChainIsComplete, NothingSaidIsLost, BatchInv, Count
<1> QED
  BY <1>3, <1>4, <1>5 DEF Inv, LoopIsSound

LEMMA TickInv == Inv /\ Tick => Inv'
<1> SUFFICES ASSUME Inv, Tick PROVE Inv'
  OBVIOUS
<1>1. UNCHANGED <<pc, wake, active, hop, chain, said, heard, left, progress,
                 pending, streaks, text, stop>>
  BY DEF Tick
<1>2. now' \in 0 .. WallClock /\ active' \in 0 .. now'
  BY <1>1, Numbers DEF Tick, Inv, LoopIsSound, TypeOK
<1>3. TypeOK'
  BY <1>1, <1>2 DEF Inv, LoopIsSound, TypeOK, progress, streaks
<1>4. SilenceWasNudged' /\ ResultWasNudged'
  BY <1>1 DEF Inv, LoopIsSound, SilenceWasNudged, ResultWasNudged, Sent, progress
<1>5. ChainIsComplete' /\ NothingSaidIsLost' /\ BatchInv'
  BY <1>1 DEF Inv, LoopIsSound, ChainIsComplete, NothingSaidIsLost, BatchInv, Count
<1> QED
  BY <1>3, <1>4, <1>5 DEF Inv, LoopIsSound

LEMMA PrepareInv == Inv /\ Prepare => Inv'
<1> SUFFICES ASSUME Inv, Prepare PROVE Inv'
  OBVIOUS
<1> DEFINE due == ShouldInjectContinue
           full == IF due THEN Say(chain, "continue") ELSE chain
           sent == Saying(IF due THEN {"continue"} ELSE {})
<1>1. pc = "top" /\ pc' = "call" /\ said' = sent /\ PrecheckStop = None
  BY DEF Prepare
<1>2. UNCHANGED <<wake, now, hop, heard, left, progress, pending, streaks, text, stop>>
  BY DEF Prepare
<1>3. active' \in {active, now}
  BY DEF Prepare
<1>4. TypeOK /\ NothingSaidIsLost /\ ChainIsComplete
  BY DEF Inv, LoopIsSound
<1>5. PICK c \in Trimmed(full) : chain' = EnsureLessonPin(c)
  BY DEF Prepare
<1>6. due \in BOOLEAN
  BY DEF ShouldInjectContinue, Idle
<1>7. /\ EnsureLessonPin(c) = c /\ c \in Seq(Spans)
      /\ \A k \in HostLines : Count(c, k) = sent[k]
      /\ Count(c, "user") = heard
      /\ Count(c, "open") = Count(chain, "open")
  <2> HIDE DEF due
  <2> QED
    BY <1>4, <1>5, <1>6, PreparedChain
<1>8. chain' = c
  BY <1>5, <1>7
<1>9. said' \in [HostLines -> Nat]
  BY <1>1, <1>4, SayingType
<1>10. stop # "no_tools" /\ stop = None
  BY <1>1, <1>4 DEF TypeOK, None
<1> HIDE DEF due, full, sent
<1>11. TypeOK'
  <2>1. active' \in 0 .. now'
    BY <1>2, <1>3, <1>4 DEF TypeOK
  <2>2. chain' \in Seq(HostLines \cup {"open", "batch", "user"})
    BY <1>7, <1>8 DEF Spans
  <2> QED
    BY <2>1, <2>2, <1>1, <1>2, <1>4, <1>9, <1>10 DEF TypeOK, progress, streaks
<1>12. SilenceWasNudged' /\ ResultWasNudged'
  BY <1>2, <1>10, OnlyNoTools
<1>13. NothingSaidIsLost'
  BY <1>1, <1>2, <1>7, <1>8 DEF NothingSaidIsLost
<1>14. Count(chain', "open") = 0
  BY <1>1, <1>4, <1>7, <1>8 DEF ChainIsComplete
<1>15. ChainIsComplete'
  BY <1>7, <1>8, <1>14, NoneOpen DEF ChainIsComplete
<1>16. BatchInv'
  <2>1. hop < MaxHops
    BY <1>1, <1>4, Numbers DEF PrecheckStop, None, TypeOK
  <2> QED
    BY <2>1, <1>1, <1>2 DEF BatchInv
<1> QED
  BY <1>11, <1>12, <1>13, <1>15, <1>16 DEF Inv, LoopIsSound

LEMMA CompletionWithToolsInv == Inv /\ CompletionWithTools => Inv'
<1> SUFFICES ASSUME Inv, CompletionWithTools PROVE Inv'
  OBVIOUS
<1>1. pc = "call" /\ pc' = "batch" /\ chain' = Append(chain, "open") /\ hop' = hop + 1
  BY DEF CompletionWithTools
<1>2. UNCHANGED <<wake, now, active, said, heard, progress, pending, streaks, text, stop>>
  BY DEF CompletionWithTools, clock
<1>3. left' \in 1 .. MaxCalls
  BY DEF CompletionWithTools
<1>4. TypeOK /\ NothingSaidIsLost /\ ChainIsComplete /\ BatchInv
  BY DEF Inv, LoopIsSound
<1>5. chain \in Seq(Spans) /\ "open" \in Spans /\ "open" \notin HostLines /\ "open" # "user"
  BY <1>4, SpansType, HostLinesAre DEF Spans
<1>6. /\ chain' \in Seq(Spans) /\ Len(chain') = Len(chain) + 1 /\ chain'[Len(chain')] = "open"
      /\ chain' # <<>> /\ \A i \in DOMAIN chain' : i = Len(chain') \/ i \in DOMAIN chain
      /\ \A i \in DOMAIN chain : chain'[i] = chain[i]
  BY <1>1, <1>5
<1>7. \A k : Count(Append(chain, "open"), k) = Count(chain, k) + (IF "open" = k THEN 1 ELSE 0)
  BY <1>5, CountAppend
<1>8. \A k : k # "open" => Count(chain', k) = Count(chain, k)
  <2> SUFFICES ASSUME NEW k, k # "open" PROVE Count(chain', k) = Count(chain, k)
    OBVIOUS
  <2>1. Count(chain, k) \in Nat /\ Count(chain', k) = Count(chain, k) + 0
    BY <1>1, <1>5, <1>7, CountType
  <2> QED
    BY <2>1
<1>9. stop # "no_tools" /\ stop = None
  BY <1>1, <1>4 DEF TypeOK, None
<1>10. hop' \in 0 .. MaxHops
  BY <1>1, <1>4, Numbers DEF TypeOK, BatchInv
<1>11. TypeOK'
  <2>1. chain' \in Seq(HostLines \cup {"open", "batch", "user"})
    BY <1>6 DEF Spans
  <2>2. left' \in 0 .. MaxCalls
    BY <1>3
  <2> QED
    BY <2>1, <2>2, <1>1, <1>2, <1>4, <1>9, <1>10 DEF TypeOK, progress, streaks
<1>12. SilenceWasNudged' /\ ResultWasNudged'
  BY <1>2, <1>9, OnlyNoTools
<1>13. NothingSaidIsLost'
  BY <1>2, <1>4, <1>5, <1>8 DEF NothingSaidIsLost
<1>14. ChainIsComplete'
  <2>1. \A i \in DOMAIN chain : chain[i] # "open"
    BY <1>1, <1>4, <1>5, NoneOpen DEF ChainIsComplete
  <2> QED
    BY <2>1, <1>1, <1>6 DEF ChainIsComplete
<1>15. BatchInv'
  BY <1>1, <1>3, <1>6 DEF BatchInv
<1> QED
  BY <1>11, <1>12, <1>13, <1>14, <1>15 DEF Inv, LoopIsSound

LEMMA ToolCallInv ==
  ASSUME Inv, NEW call \in Calls, NEW ok \in BOOLEAN, ToolCall(call, ok)
  PROVE  Inv'
<1>1. /\ pc = "batch" /\ left > 0 /\ left' = left - 1
      /\ chain' = IF left = 1 THEN [chain EXCEPT ![Len(chain)] = "batch"] ELSE chain
  BY DEF ToolCall
<1>2. UNCHANGED <<wake, now, hop, said, heard, text>>
  BY DEF ToolCall
<1>3. thrash' = UpdatedStreak(call, ok) /\ lesson' = UpdatedLesson(call, ok)
  BY DEF ToolCall
<1>4. TypeOK /\ NothingSaidIsLost /\ ChainIsComplete /\ BatchInv
  BY DEF Inv, LoopIsSound
<1>5. stop = None
  BY <1>1, <1>4 DEF TypeOK
<1>6. \/ pc' = "done" /\ stop' = "wait"
      \/ pc' = "batch" /\ stop' = None
  BY <1>1, <1>5 DEF ToolCall, Finish
<1>7. /\ chain \in Seq(Spans) /\ "batch" \in Spans /\ Len(chain) \in Nat \ {0}
      /\ DOMAIN chain = 1 .. Len(chain) /\ chain[Len(chain)] = "open"
  <2>1. chain \in Seq(Spans) /\ "batch" \in Spans
    BY <1>4, SpansType DEF Spans
  <2>2. chain # <<>> /\ chain[Len(chain)] = "open"
    BY <1>1, <1>4 DEF BatchInv
  <2> QED
    BY <2>1, <2>2
<1>8. /\ chain' \in Seq(Spans) /\ Len(chain') = Len(chain) /\ DOMAIN chain' = DOMAIN chain
      /\ \A i \in DOMAIN chain : i # Len(chain) => chain'[i] = chain[i]
      /\ chain'[Len(chain)] = IF left = 1 THEN "batch" ELSE "open"
      /\ chain' # <<>>
  BY <1>1, <1>7
<1>9. \A i \in DOMAIN chain' : chain'[i] = "open" => i = Len(chain')
  BY <1>4, <1>7, <1>8 DEF ChainIsComplete
<1>10. \A k : k \notin {"open", "batch"} => Count(chain', k) = Count(chain, k)
  <2> SUFFICES ASSUME NEW k, k \notin {"open", "batch"} PROVE Count(chain', k) = Count(chain, k)
    OBVIOUS
  <2>1. {i \in DOMAIN chain' : chain'[i] = k} = {i \in DOMAIN chain : chain[i] = k}
    BY <1>7, <1>8
  <2> QED
    BY <2>1 DEF Count
<1>11. left \in Nat /\ left <= MaxCalls
  BY <1>4, Numbers DEF TypeOK
<1>12. TypeOK'
  <2>1. chain' \in Seq(HostLines \cup {"open", "batch", "user"})
    BY <1>8 DEF Spans
  <2>2. left' \in 0 .. MaxCalls
    BY <1>1, <1>11, Numbers
  <2>3. /\ thrash' \in [fp : Calls \cup {None}, ok : BOOLEAN,
                 streak : 0..Max({FailStreak, OkStreak})]
        /\ lesson' \in [fp : Calls \cup {None}, fails : 0..SynthStreak]
    BY <1>3, <1>4, StreakType
  <2>4. pending' \in {None, "work", "talk"}
    BY <1>4 DEF ToolCall, Armed, TypeOK
  <2>5. {spoke', fresh', ran', mutated'} \subseteq BOOLEAN
    <3>1. {spoke, fresh, ran, mutated} \subseteq BOOLEAN
      BY <1>4 DEF TypeOK
    <3>2. spoke' \in BOOLEAN /\ ran' \in BOOLEAN /\ mutated' \in BOOLEAN
      BY DEF ToolCall, Progressed
    <3>3. fresh' \in BOOLEAN
      BY <3>1 DEF ToolCall, Progressed
    <3> QED
      BY <3>2, <3>3
  <2>6. now' \in 0 .. WallClock /\ active' \in 0 .. now'
    BY <1>2, <1>4, Numbers DEF TypeOK, ToolCall, Progressed
  <2>7. pc' \in {"top", "call", "batch", "done"} /\ stop' \in Stops \cup {None}
        /\ ((stop' = None) <=> (pc' # "done"))
    BY <1>6 DEF Stops, None
  <2>8. /\ wake' \in Wakes /\ hop' \in 0..MaxHops /\ heard' \in 0..MaxInterjections
        /\ said' \in [HostLines -> Nat] /\ text' \in Texts \cup {None}
    BY <1>2, <1>4 DEF TypeOK
  <2> QED
    BY <2>1, <2>2, <2>3, <2>4, <2>5, <2>6, <2>7, <2>8 DEF TypeOK
<1>13. SilenceWasNudged' /\ ResultWasNudged'
  BY <1>6, OnlyNoTools DEF None
<1>14. NothingSaidIsLost'
  <2>1. {"open", "batch"} \cap HostLines = {}
    BY HostLinesAre
  <2> QED
    BY <2>1, <1>2, <1>4, <1>10 DEF NothingSaidIsLost
<1>15. ChainIsComplete'
  BY <1>6, <1>9 DEF ChainIsComplete
<1>16. BatchInv'
  BY <1>1, <1>6, <1>8, <1>11 DEF BatchInv
<1> QED
  BY <1>12, <1>13, <1>14, <1>15, <1>16 DEF Inv, LoopIsSound

LEMMA CompletionWithoutToolsInv ==
  ASSUME Inv, NEW t \in Texts, CompletionWithoutTools(t)
  PROVE  Inv'
<1> DEFINE pin == IF CapturesLesson(t) THEN <<"lesson_pin">> ELSE <<>>
           nudge == IF Nudge(t) # None THEN <<Nudge(t)>> ELSE <<>>
           lines == pin \o nudge
<1>1. /\ pc = "call" /\ hop' = hop + 1
      /\ text' = IF Nudge(t) = None THEN t ELSE text
      /\ chain' = chain \o lines /\ said' = Saying(ToSet(lines))
      /\ pending' = IF Nudge(t) = "skill_commit" THEN None ELSE pending
  BY DEF CompletionWithoutTools
<1>2. UNCHANGED <<wake, now, active, heard, left, progress, streaks>>
  BY DEF CompletionWithoutTools, clock
<1>3. TypeOK /\ NothingSaidIsLost /\ ChainIsComplete /\ BatchInv
  BY DEF Inv, LoopIsSound
<1>4. stop = None
  BY <1>1, <1>3 DEF TypeOK
<1>5. \/ Nudge(t) = None /\ pc' = "done" /\ stop' = "no_tools"
      \/ Nudge(t) # None /\ pc' = "top" /\ stop' = None
  BY <1>4 DEF CompletionWithoutTools, Finish
<1>6. Nudge(t) \in FreeTextNudges \cup {None}
  BY DEF Nudge, FreeTextNudges
<1>7. lines \in Seq(HostLines) /\ Once(lines)
  <2> DEFINE given == Nudge(t)
             kind == IF given # None THEN given ELSE "no_speak"
  <2>1. CapturesLesson(t) \in BOOLEAN
    BY DEF CapturesLesson, Sent
  <2>2. pin \in Seq(HostLines) /\ Once(pin) /\ ToSet(pin) \subseteq {"lesson_pin"}
    BY <2>1, OptionalLine, HostLinesAre
  <2>3. kind \in FreeTextNudges /\ kind \in HostLines /\ kind # "lesson_pin"
    BY <1>6 DEF FreeTextNudges, HostLines
  <2>4. nudge = IF given # None THEN <<kind>> ELSE <<>>
    OBVIOUS
  <2> HIDE DEF given, kind, nudge, pin
  <2>5. nudge \in Seq(HostLines) /\ Once(nudge) /\ ToSet(nudge) \subseteq {kind}
    BY <2>3, <2>4, OptionalLine
  <2>6. ToSet(pin) \cap ToSet(nudge) = {}
    BY <2>2, <2>3, <2>5
  <2> QED
    BY <2>2, <2>5, <2>6, OnceConcat
<1> HIDE DEF lines
<1>8. /\ chain' \in Seq(Spans)
      /\ \A k \in HostLines : Count(chain', k) = said'[k]
      /\ Count(chain', "user") = heard /\ Count(chain', "open") = Count(chain, "open")
  BY <1>1, <1>3, <1>7, SaidOnce
<1>9. hop' \in 0 .. MaxHops
  BY <1>1, <1>3, Numbers DEF TypeOK, BatchInv
<1>10. TypeOK'
  <2>1. chain' \in Seq(HostLines \cup {"open", "batch", "user"})
    BY <1>8 DEF Spans
  <2>2. said' \in [HostLines -> Nat]
    BY <1>1, <1>3, SayingType
  <2>3. text' \in Texts \cup {None} /\ pending' \in {None, "work", "talk"}
    BY <1>1, <1>3 DEF TypeOK
  <2>4. pc' \in {"top", "call", "batch", "done"} /\ stop' \in Stops \cup {None}
        /\ ((stop' = None) <=> (pc' # "done"))
    BY <1>5 DEF Stops, None
  <2> QED
    BY <2>1, <2>2, <2>3, <2>4, <1>2, <1>3, <1>9 DEF TypeOK, progress, streaks
<1>11. \A k \in HostLines : Sent(k) => Sent(k)'
  <2>1. \A k \in HostLines : said[k] \in Nat /\ said'[k] >= said[k]
    BY <1>1, <1>3, SpansType DEF Saying
  <2>2. \A k \in HostLines : said'[k] \in Nat
    BY <1>1, <1>3, SpansType DEF Saying
  <2> QED
    BY <2>1, <2>2 DEF Sent
<1>12. "no_speak" \in HostLines /\ "answer_speak" \in HostLines
  BY HostLinesAre
<1>13. ASSUME stop' = "no_tools" PROVE SilenceWasNudged' /\ ResultWasNudged'
  <2>1. Nudge(t) = None /\ text' = t
    BY <1>1, <1>5, <1>13 DEF None
  <2>2. ~ShouldSkillCommit /\ ~ShouldAllowNoSpeak /\ ~ShouldAnswerSpeak(t)
    BY <2>1 DEF Nudge, None
  <2>3. ~(pending = "work" /\ ~Sent("skill_commit"))
    BY <2>2 DEF ShouldSkillCommit, None
  <2>4. wake.social /\ ~spoke => Sent("no_speak")
    BY <2>2, <2>3 DEF ShouldAllowNoSpeak
  <2>5. wake.social /\ spoke /\ ran /\ ~fresh /\ t = "answer" => Sent("answer_speak")
    BY <2>2, <2>3 DEF ShouldAnswerSpeak
  <2>6. SilenceWasNudged'
    BY <2>4, <1>2, <1>11, <1>12 DEF SilenceWasNudged, progress
  <2>7. ResultWasNudged'
    BY <2>1, <2>5, <1>2, <1>11, <1>12 DEF ResultWasNudged, progress
  <2> QED
    BY <2>6, <2>7
<1>14. SilenceWasNudged' /\ ResultWasNudged'
  BY <1>13, OnlyNoTools
<1>15. NothingSaidIsLost'
  BY <1>2, <1>8 DEF NothingSaidIsLost
<1>16. ChainIsComplete'
  <2>1. Count(chain', "open") = 0
    BY <1>1, <1>3, <1>8 DEF ChainIsComplete
  <2> QED
    BY <2>1, <1>8, NoneOpen DEF ChainIsComplete
<1>17. BatchInv'
  BY <1>5 DEF BatchInv
<1> QED
  BY <1>10, <1>14, <1>15, <1>16, <1>17 DEF Inv, LoopIsSound

LEMMA EndBatchInv == Inv /\ EndBatch => Inv'
<1> SUFFICES ASSUME Inv, EndBatch PROVE Inv'
  OBVIOUS
<1> DEFINE drained(n) == [i \in 1 .. n |-> "user"]
           host    == ShouldInjectThrashHost
           ask     == (host \/ Sent("thrash")) /\ ~Sent("lesson_request")
           counted == IF ask THEN [fp |-> thrash.fp, fails |-> 0] ELSE lesson
           synth   == /\ (ask \/ Sent("lesson_request")) /\ ~Sent("lesson_pin")
                      /\ counted.fails >= SynthStreak
           first   == IF host THEN <<"thrash">> ELSE <<>>
           second  == IF ask THEN <<"lesson_request">> ELSE <<>>
           third   == IF synth THEN <<"lesson_pin">> ELSE <<>>
           lines   == first \o second \o third
<1>1. pc = "batch" /\ left = 0 /\ pc' = "top"
  BY DEF EndBatch, BatchOver
<1>2. UNCHANGED <<wake, now, active, hop, left, progress, pending, thrash, text, stop>>
  BY DEF EndBatch, clock
<1>3. PICK n \in 0 .. (MaxInterjections - heard) :
        /\ heard' = heard + n
        /\ chain' = chain \o drained(n) \o lines
        /\ said' = Saying(ToSet(lines))
        /\ lesson' = counted
  BY DEF EndBatch
<1>4. TypeOK /\ NothingSaidIsLost /\ ChainIsComplete /\ BatchInv
  BY DEF Inv, LoopIsSound
<1>5. n \in Nat /\ heard \in Nat /\ heard' \in 0 .. MaxInterjections
  BY <1>3, <1>4, Numbers DEF TypeOK
<1>6. lines \in Seq(HostLines) /\ Once(lines)
  <2>1. host \in BOOLEAN /\ ask \in BOOLEAN /\ synth \in BOOLEAN
    BY DEF ShouldInjectThrashHost, Sent
  <2>2. {"thrash", "lesson_request", "lesson_pin"} \subseteq HostLines
    BY HostLinesAre
  <2> HIDE DEF host, ask, synth
  <2>3. first \in Seq(HostLines) /\ Once(first) /\ ToSet(first) \subseteq {"thrash"}
    BY <2>1, <2>2, OptionalLine
  <2>4. second \in Seq(HostLines) /\ Once(second) /\ ToSet(second) \subseteq {"lesson_request"}
    BY <2>1, <2>2, OptionalLine
  <2>5. third \in Seq(HostLines) /\ Once(third) /\ ToSet(third) \subseteq {"lesson_pin"}
    BY <2>1, <2>2, OptionalLine
  <2> HIDE DEF first, second, third
  <2> DEFINE two == first \o second
  <2>6. ToSet(first) \cap ToSet(second) = {}
    BY <2>3, <2>4
  <2>7. two \in Seq(HostLines) /\ Once(two) /\ ToSet(two) = ToSet(first) \cup ToSet(second)
    BY <2>3, <2>4, <2>6, OnceConcat
  <2> HIDE DEF two
  <2>8. ToSet(two) \cap ToSet(third) = {}
    BY <2>3, <2>4, <2>5, <2>7
  <2>9. two \o third \in Seq(HostLines) /\ Once(two \o third)
    BY <2>5, <2>7, <2>8, OnceConcat
  <2> QED
    BY <2>9 DEF two
<1>7. lesson' \in [fp : Calls \cup {None}, fails : 0..SynthStreak]
  BY <1>3, <1>4, Numbers DEF TypeOK
<1> HIDE DEF drained, lines, counted
<1>8. /\ chain \in Seq(Spans) /\ lines \in Seq(Spans) /\ drained(n) \in Seq(Spans)
      /\ \A k : Count(drained(n), k) = IF k = "user" THEN n ELSE 0
  BY <1>4, <1>5, <1>6, SpansType, HostSpans, DrainedCount DEF drained
<1> DEFINE heardOut == chain \o drained(n)
<1>9. heardOut \in Seq(Spans)
  BY <1>8, ConcatParts
<1>10. \A k : Count(heardOut, k) = Count(chain, k) + Count(drained(n), k)
  BY <1>8, CountConcat
<1> HIDE DEF heardOut
<1>11. chain' = heardOut \o lines
  BY <1>3 DEF heardOut
<1> DEFINE whole == heardOut \o lines
<1>12. whole \in Seq(Spans)
  BY <1>8, <1>9, ConcatParts
<1>13. \A k : Count(whole, k) = Count(heardOut, k) + Count(lines, k)
  BY <1>8, <1>9, CountConcat
<1> HIDE DEF whole
<1>14. chain' = whole
  BY <1>11 DEF whole
<1>15. \A k : Count(chain', k) = Count(chain, k) + (IF k = "user" THEN n ELSE 0) + Count(lines, k)
  <2> TAKE k
  <2>1. /\ Count(chain', k) = Count(heardOut, k) + Count(lines, k)
        /\ Count(heardOut, k) = Count(chain, k) + (IF k = "user" THEN n ELSE 0)
    BY <1>8, <1>10, <1>13, <1>14
  <2> QED
    BY <2>1
<1>16. HostLines \subseteq Spans /\ {"user", "open"} \subseteq Spans
       /\ {"user", "open"} \cap HostLines = {}
  BY HostLinesAre DEF Spans
<1>17. \A k \in Spans : Count(lines, k) = IF k \in ToSet(lines) THEN 1 ELSE 0
  BY <1>6 DEF Once
<1>18. ToSet(lines) \subseteq HostLines
  BY <1>6 DEF ToSet
<1>19. \A k \in HostLines : Count(chain', k) = said'[k]
  <2> TAKE k \in HostLines
  <2>1. said[k] \in Nat /\ Count(chain, k) = said[k] /\ k # "user" /\ k \in Spans
    BY <1>4, <1>16, SpansType DEF NothingSaidIsLost
  <2>2. said'[k] = said[k] + (IF k \in ToSet(lines) THEN 1 ELSE 0)
    BY <1>3 DEF Saying
  <2> QED
    BY <2>1, <2>2, <1>15, <1>17
<1>20. Count(lines, "user") = 0 /\ Count(lines, "open") = 0
  BY <1>16, <1>17, <1>18
<1>21. Count(chain', "user") = heard'
  <2>1. Count(chain, "user") = heard
    BY <1>4 DEF NothingSaidIsLost
  <2> QED
    BY <2>1, <1>3, <1>5, <1>15, <1>20
<1>22. Count(chain', "open") = 0
  <2>1. chain # <<>> /\ chain[Len(chain)] # "open"
    BY <1>1, <1>4 DEF BatchInv
  <2>2. \A i \in DOMAIN chain : chain[i] # "open"
    BY <2>1, <1>4 DEF ChainIsComplete
  <2>3. Count(chain, "open") = 0
    BY <2>2, <1>8, NoneOpen
  <2> QED
    BY <2>3, <1>15, <1>20
<1>23. stop = None
  BY <1>1, <1>4 DEF TypeOK
<1>24. TypeOK'
  <2>1. chain' \in Seq(HostLines \cup {"open", "batch", "user"})
    BY <1>12, <1>14 DEF Spans
  <2>2. said' \in [HostLines -> Nat]
    BY <1>3, <1>4, SayingType
  <2> QED
    BY <2>1, <2>2, <1>1, <1>2, <1>4, <1>5, <1>7, <1>23 DEF TypeOK, progress
<1>25. SilenceWasNudged' /\ ResultWasNudged'
  BY <1>2, <1>23, OnlyNoTools DEF None
<1>26. NothingSaidIsLost'
  BY <1>19, <1>21 DEF NothingSaidIsLost
<1>27. ChainIsComplete'
  BY <1>12, <1>14, <1>22, NoneOpen DEF ChainIsComplete
<1>28. BatchInv'
  BY <1>1 DEF BatchInv
<1> QED
  BY <1>24, <1>25, <1>26, <1>27, <1>28 DEF Inv, LoopIsSound

LEMMA InvStep == Inv /\ [Next]_vars => Inv'
<1> SUFFICES ASSUME Inv, [Next]_vars PROVE Inv'
  OBVIOUS
<1>1. ASSUME NEW call \in Calls, ToolCall(call, TRUE) PROVE Inv'
  BY <1>1, ToolCallInv
<1>2. ASSUME NEW call \in Failing, ToolCall(call, FALSE) PROVE Inv'
  BY <1>2, ToolCallInv, Numbers
<1>3. ASSUME NEW t \in Texts, CompletionWithoutTools(t) PROVE Inv'
  BY <1>3, CompletionWithoutToolsInv
<1>4. ASSUME UNCHANGED vars PROVE Inv'
  BY <1>4 DEF vars, clock, progress, streaks, Inv, LoopIsSound, TypeOK, SilenceWasNudged,
       ResultWasNudged, ChainIsComplete, NothingSaidIsLost, BatchInv, Count, Sent
<1> QED
  BY <1>1, <1>2, <1>3, <1>4, HostStopInv, PrepareInv, CallFailsInv, CompletionWithToolsInv,
     EndBatchInv, TickInv DEF Next, Step, Done

-----------------------------------------------------------------------------
\* Whatever the model says and calls and whenever users interject: every chain that
\* is sent is complete, trimming it loses nothing that the host or a user said, and a
\* user's moment never ends by itself in silence, or with its result unseen, without
\* having been reminded (run_doloop).
THEOREM LoopHolds == Spec => []LoopIsSound
<1>1. Inv => LoopIsSound
  BY DEF Inv
<1> QED
  BY <1>1, InitInv, InvStep, PTL DEF Spec
=============================================================================
