---------------------------- MODULE StoresProofs ----------------------------
(***************************************************************************)
(* Theorems about the memory stores.  The durability of the atom stores    *)
(* is proved for any atoms, bodies and versions, any sequence of           *)
(* operations, and deaths and failing writes between any two of their      *)
(* steps; that a beat is promoted once and whole, for any beats, sizes,    *)
(* retries and faults of the component the composition exercises.          *)
(***************************************************************************)
EXTENDS MCStores, FiniteSetTheorems, SequenceTheorems, WellFoundedInduction, TLAPS

Bodies == Texts \cup {"", "part"}
Vers   == Versions \cup {0}
Names  == Ids \cup {0}
Atom   == [text : Bodies, ref : {"none", "inline", "blob"}, ver : Vers]
Row    == [id : Names, atom : Atom]
Op     == [kind : {"none", "put", "links", "delete"},
           at : {"done", "blob", "row", "index", "down"}, id : Names, atom : Atom]

-----------------------------------------------------------------------------
(* Least, greatest, and induction over the naturals                        *)

LEMMA LeastNat ==
  ASSUME NEW T \in SUBSET Nat, T # {}
  PROVE  \E n \in T : \A m \in T : n <= m
<1> DEFINE R == {ss \in Nat \X Nat : ss[1] < ss[2]}
<1>1. OpToRel(<, Nat) = R
  BY DEF OpToRel
<1>2. IsWellFoundedOn(R, Nat)
  BY <1>1, NatLessThanWellFounded
<1> HIDE DEF R
<1>3. PICK n \in T : \A m \in T : ~(<<m, n>> \in R)
  BY <1>2, WFMin
<1>4. \A m \in T : ~(m < n)
  BY <1>3 DEF R
<1> QED
  BY <1>3, <1>4

\* What holds of 0 and is passed on to the next number holds of every number.
LEMMA SetInduction ==
  ASSUME NEW Good, 0 \in Good, \A n \in Nat : n \in Good => n + 1 \in Good
  PROVE  Nat \subseteq Good
<1> SUFFICES ASSUME Nat \ Good # {} PROVE FALSE
  OBVIOUS
<1>1. PICK n \in Nat \ Good : \A m \in Nat \ Good : n <= m
  BY LeastNat
<1>2. n # 0 /\ n - 1 \in Nat /\ (n - 1) + 1 = n
  BY <1>1
<1>3. n - 1 \in Good
  BY <1>1, <1>2
<1> QED
  BY <1>1, <1>2, <1>3

LEMMA MaxIn ==
  ASSUME NEW n \in Nat, NEW T \in SUBSET (0 .. n), T # {}
  PROVE  Max(T) \in T /\ \A k \in T : k <= Max(T)
<1> DEFINE D == {n - k : k \in T}
<1>a. \A k \in T : k \in 0 .. n
  OBVIOUS
<1>b. \A k \in T : n - k \in Nat
  BY <1>a
<1>1. D \in SUBSET Nat /\ D # {}
  BY <1>b
<1>2. PICK d \in D : \A e \in D : d <= e
  BY <1>1, LeastNat
<1>3. PICK m \in T : d = n - m
  BY <1>2
<1>4. \A k \in T : m >= k
  <2> SUFFICES ASSUME NEW k \in T PROVE m >= k
    OBVIOUS
  <2>0. k \in Int /\ m \in Int
    BY <1>a
  <2>1. n - k \in D
    OBVIOUS
  <2>2. n - m <= n - k
    BY <1>2, <1>3, <2>1
  <2> QED
    BY <2>0, <2>2
<1>5. Max(T) \in T /\ \A k \in T : Max(T) >= k
  BY <1>4 DEF Max
<1> QED
  BY <1>5

LEMMA MaxIs ==
  ASSUME NEW T \in SUBSET Int, NEW m \in T, \A k \in T : k <= m
  PROVE  Max(T) = m
<1>1. \A k \in T : m >= k
  OBVIOUS
<1>2. Max(T) \in T /\ \A k \in T : Max(T) >= k
  BY <1>1 DEF Max
<1>3. Max(T) \in Int /\ m \in Int /\ Max(T) >= m /\ m >= Max(T)
  BY <1>1, <1>2
<1> QED
  BY <1>3

-----------------------------------------------------------------------------
(* The newest summary                                                      *)

Newer(am, i, j) == am[i].ver > am[j].ver \/ (am[i].ver = am[j].ver /\ i > j)

LEMMA Integers == Vers \subseteq Int /\ Names \subseteq Int /\ Ids \subseteq Int /\ 0 \notin Ids
BY AtomStoreOK DEF Vers, Names

LEMMA Orders ==
  ASSUME NEW am \in [Ids -> Atom]
  PROVE  /\ \A i, j \in Ids : i = j \/ Newer(am, i, j) \/ Newer(am, j, i)
         /\ \A i, j \in Ids : ~(Newer(am, i, j) /\ Newer(am, j, i))
         /\ \A i, j, k \in Ids : Newer(am, i, j) /\ Newer(am, j, k) => Newer(am, i, k)
<1> DEFINE v == [i \in Ids |-> am[i].ver]
<1>1. v \in [Ids -> Vers] /\ \A i \in Ids : v[i] = am[i].ver
  BY DEF Atom
<1>2. \A i, j \in Ids : Newer(am, i, j) <=> v[i] > v[j] \/ (v[i] = v[j] /\ i > j)
  BY <1>1, Zenon DEF Newer
<1> HIDE DEF v
<1>3. \A i \in Ids : v[i] \in Int /\ i \in Int
  BY <1>1, Integers
<1>4. ASSUME NEW i \in Ids, NEW j \in Ids
      PROVE  /\ i = j \/ Newer(am, i, j) \/ Newer(am, j, i)
             /\ ~(Newer(am, i, j) /\ Newer(am, j, i))
  <2>1. v[i] \in Int /\ v[j] \in Int /\ i \in Int /\ j \in Int
    BY <1>3
  <2>2. /\ i = j \/ (v[i] > v[j] \/ (v[i] = v[j] /\ i > j)) \/ (v[j] > v[i] \/ (v[j] = v[i] /\ j > i))
        /\ ~((v[i] > v[j] \/ (v[i] = v[j] /\ i > j)) /\ (v[j] > v[i] \/ (v[j] = v[i] /\ j > i)))
    BY <2>1, Z3
  <2> QED
    BY <1>2, <2>2, Zenon
<1>5. ASSUME NEW i \in Ids, NEW j \in Ids, NEW k \in Ids, Newer(am, i, j), Newer(am, j, k)
      PROVE  Newer(am, i, k)
  <2>1. /\ v[i] \in Int /\ v[j] \in Int /\ v[k] \in Int
        /\ i \in Int /\ j \in Int /\ k \in Int
    BY <1>3
  <2>2. /\ v[i] > v[j] \/ (v[i] = v[j] /\ i > j)
        /\ v[j] > v[k] \/ (v[j] = v[k] /\ j > k)
    BY <1>2, <1>5, Zenon
  <2>3. v[i] > v[k] \/ (v[i] = v[k] /\ i > k)
    BY <2>1, <2>2, Z3
  <2> QED
    BY <1>2, <2>3, Zenon
<1> QED
  BY <1>4, <1>5

\* Finitely many atoms have a newest one.
LEMMA HasNewest ==
  ASSUME NEW am \in [Ids -> Atom], NEW S \in SUBSET Ids, S # {}
  PROVE  \E i \in S : \A j \in S \ {i} : Newer(am, i, j)
<1> DEFINE Top(T) == \E i \in T : \A j \in T \ {i} : Newer(am, i, j)
           Good == {n \in Nat : \A T \in SUBSET Ids : T # {} /\ Cardinality(T) = n => Top(T)}
<1>1. \A T \in SUBSET Ids : IsFiniteSet(T) /\ Cardinality(T) \in Nat
  BY AtomStoreOK, FS_Subset, FS_CardinalityType
<1>2. 0 \in Good
  BY <1>1, FS_EmptySet
<1>3. ASSUME NEW n \in Nat, n \in Good PROVE n + 1 \in Good
  <2>0. n + 1 \in Nat
    OBVIOUS
  <2> SUFFICES ASSUME NEW T \in SUBSET Ids, T # {}, Cardinality(T) = n + 1 PROVE Top(T)
    BY <2>0, Zenon
  <2>1. PICK x \in T : TRUE
    OBVIOUS
  <2> DEFINE U == T \ {x}
  <2>2. U \in SUBSET Ids /\ Cardinality(U) = n
    BY <1>1, <2>1, FS_RemoveElement
  <2>3. CASE U = {}
    BY <2>1, <2>3
  <2>4. CASE U # {}
    <3>1. PICK y \in U : \A j \in U \ {y} : Newer(am, y, j)
      BY <1>3, <2>2, <2>4
    <3>2. x \in Ids /\ y \in Ids /\ x # y
      BY <2>1, <3>1
    <3>3. CASE Newer(am, y, x)
      BY <3>1, <3>3
    <3>4. CASE Newer(am, x, y)
      <4>1. \A j \in U : Newer(am, x, j)
        BY <3>1, <3>2, <3>4, Orders
      <4> QED
        BY <2>1, <4>1
    <3> QED
      BY <3>2, <3>3, <3>4, Orders
  <2> QED
    BY <2>3, <2>4
<1>4. Nat \subseteq Good
  <2> HIDE DEF Good
  <2> QED
    BY <1>2, <1>3, SetInduction
<1> QED
  BY <1>1, <1>4

LEMMA NewestIs ==
  ASSUME NEW am \in [Ids -> Atom], NEW i \in Ids, am[i] # NoAtom,
         \A j \in Ids \ {i} : am[j] # NoAtom => Newer(am, i, j)
  PROVE  Newest(am) = i
<1> DEFINE live == {j \in Ids : am[j] # NoAtom}
<1>1. i \in live /\ \A j \in live \ {i} : Newer(am, i, j)
  OBVIOUS
<1>2. Newest(am) = CHOOSE k \in live : \A j \in live \ {k} : Newer(am, k, j)
  BY <1>1 DEF Newest, Newer
<1>3. Newest(am) \in live /\ \A j \in live \ {Newest(am)} : Newer(am, Newest(am), j)
  BY <1>1, <1>2
<1> QED
  BY <1>1, <1>3, Orders

LEMMA NewestFound ==
  ASSUME NEW am \in [Ids -> Atom]
  PROVE  \/ Newest(am) = 0 /\ \A i \in Ids : am[i] = NoAtom
         \/ /\ Newest(am) \in Ids /\ am[Newest(am)] # NoAtom
            /\ \A j \in Ids \ {Newest(am)} : am[j] # NoAtom => Newer(am, Newest(am), j)
<1> DEFINE live == {j \in Ids : am[j] # NoAtom}
<1>1. CASE live = {}
  BY <1>1 DEF Newest
<1>2. CASE live # {}
  <2>1. \E k \in live : \A j \in live \ {k} : Newer(am, k, j)
    BY <1>2, HasNewest
  <2>2. Newest(am) = CHOOSE k \in live : \A j \in live \ {k} : Newer(am, k, j)
    BY <1>2 DEF Newest, Newer
  <2>3. Newest(am) \in live /\ \A j \in live \ {Newest(am)} : Newer(am, Newest(am), j)
    BY <2>1, <2>2
  <2> QED
    BY <2>3
<1> QED
  BY <1>1, <1>2

-----------------------------------------------------------------------------
(* What a reload makes of a log or a table                                 *)

RowsIn(rs, i) == {n \in DOMAIN rs : rs[n].id = i}
Filled(b, a) == IF a.ref = "blob" /\ b # "" THEN [a EXCEPT !.text = b] ELSE a
LoadedIn(rs, b, i) ==
  IF RowsIn(rs, i) = {} THEN NoAtom ELSE Filled(b, rs[Max(RowsIn(rs, i))].atom)

SameRows(qs, rs, i) ==
  RowsIn(qs, i) = RowsIn(rs, i) /\ \A n \in RowsIn(rs, i) : qs[n].atom = rs[n].atom

\* A table has one row of an atom; the row of a spilled atom has no body.
Once(rs) == \A m, n \in DOMAIN rs : rs[m].id = rs[n].id => m = n
Bare(rs) == \A n \in DOMAIN rs : rs[n].atom.ref = "blob" => rs[n].atom.text = ""

LEMMA LoadedUnfolds ==
  /\ \A i \in Ids : Loaded(i) = LoadedIn(rows, blob[i], i)
  /\ \A i \in Ids : Loaded(i)' = LoadedIn(rows', blob'[i], i)
BY DEF Loaded, LoadedIn, RowsOf, RowsIn, Hydrate, Filled

LEMMA RowMax ==
  ASSUME NEW rs \in Seq(Row), NEW i, RowsIn(rs, i) # {}
  PROVE  /\ Max(RowsIn(rs, i)) \in RowsIn(rs, i)
         /\ \A n \in RowsIn(rs, i) : n <= Max(RowsIn(rs, i))
<1>1. Len(rs) \in Nat /\ RowsIn(rs, i) \in SUBSET (0 .. Len(rs))
  BY DEF RowsIn
<1> QED
  BY <1>1, MaxIn

LEMMA RowBounds ==
  ASSUME NEW rs \in Seq(Row), NEW i
  PROVE  Len(rs) \in Nat /\ RowsIn(rs, i) \in SUBSET (1 .. Len(rs))
BY DEF RowsIn

\* The last row of an atom counts.
LEMMA LoadedAt ==
  ASSUME NEW rs \in Seq(Row), NEW b, NEW i, NEW n \in RowsIn(rs, i),
         \A m \in RowsIn(rs, i) : m <= n
  PROVE  LoadedIn(rs, b, i) = Filled(b, rs[n].atom)
<1>1. RowsIn(rs, i) \in SUBSET Int
  BY DEF RowsIn
<1>2. Max(RowsIn(rs, i)) = n
  BY <1>1, MaxIs
<1> QED
  BY <1>2 DEF LoadedIn

SameLoad(qs, rs, i) == \A b : LoadedIn(qs, b, i) = LoadedIn(rs, b, i)

LEMMA LoadedKept ==
  \A rs, qs \in Seq(Row) : \A i : SameRows(qs, rs, i) => SameLoad(qs, rs, i)
<1> SUFFICES ASSUME NEW rs \in Seq(Row), NEW qs \in Seq(Row), NEW b, NEW i, SameRows(qs, rs, i)
             PROVE  LoadedIn(qs, b, i) = LoadedIn(rs, b, i)
  BY DEF SameLoad
<1>1. CASE RowsIn(rs, i) = {}
  BY <1>1 DEF LoadedIn, SameRows
<1>2. CASE RowsIn(rs, i) # {}
  <2>1. Max(RowsIn(rs, i)) \in RowsIn(rs, i)
    BY <1>2, RowMax
  <2> QED
    BY <1>2, <2>1 DEF LoadedIn, SameRows
<1> QED
  BY <1>1, <1>2

LEMMA LoadedTyped ==
  ASSUME NEW rs \in Seq(Row), NEW b \in Bodies, NEW i
  PROVE  /\ LoadedIn(rs, b, i) \in Atom
         /\ Bare(rs) /\ LoadedIn(rs, b, i).ref = "blob" => LoadedIn(rs, b, i).text = b
<1>1. CASE RowsIn(rs, i) = {}
  <2>1. LoadedIn(rs, b, i) = NoAtom
    BY <1>1 DEF LoadedIn
  <2>2. NoAtom \in Atom /\ NoAtom.ref # "blob"
    BY DEF NoAtom, Atom, Bodies, Vers
  <2> QED
    BY <2>1, <2>2
<1>2. CASE RowsIn(rs, i) # {}
  <2> DEFINE n == Max(RowsIn(rs, i))
  <2>0. n \in DOMAIN rs
    BY <1>2, RowMax DEF RowsIn
  <2>1. LoadedIn(rs, b, i) = Filled(b, rs[n].atom)
    BY <1>2 DEF LoadedIn
  <2> HIDE DEF n
  <2>2. rs[n].atom \in Atom
    <3>1. rs[n] \in Row
      BY <2>0
    <3> QED
      BY <3>1 DEF Row
  <2>3. Filled(b, rs[n].atom) \in Atom
    BY <2>2 DEF Filled, Atom
  <2>4. ASSUME Bare(rs), Filled(b, rs[n].atom).ref = "blob"
        PROVE  Filled(b, rs[n].atom).text = b
    BY <2>0, <2>2, <2>4 DEF Bare, Filled, Atom
  <2> QED
    BY <2>1, <2>3, <2>4
<1> QED
  BY <1>1, <1>2

\* A row read back, with the body its blob has.
LEMMA RoundTrip ==
  ASSUME NEW a \in Atom, NEW b, NEW i, a.ref = "blob" => a.text = b
  PROVE  Filled(b, RowForDisk(i, a).atom) = a
BY DEF Filled, RowForDisk, Atom

LEMMA RowTyped ==
  ASSUME NEW a \in Atom, NEW i \in Names
  PROVE  /\ RowForDisk(i, a) \in Row /\ RowForDisk(i, a).id = i
         /\ RowForDisk(i, a).atom.ref = "blob" => RowForDisk(i, a).atom.text = ""
<1>1. "" \in Bodies
  BY DEF Bodies
<1> QED
  BY <1>1 DEF RowForDisk, Row, Atom

LEMMA LastIsLast ==
  ASSUME NEW l \in Nat
  PROVE  l + 1 \notin 1 .. l /\ \A n \in (1 .. l) \cup {l + 1} : n <= l + 1
OBVIOUS

LEMMA AppendFacts ==
  ASSUME NEW S, NEW s \in Seq(S), NEW e \in S
  PROVE  /\ Append(s, e) \in Seq(S) /\ DOMAIN Append(s, e) = DOMAIN s \cup {Len(s) + 1}
         /\ Append(s, e)[Len(s) + 1] = e /\ \A n \in DOMAIN s : Append(s, e)[n] = s[n]
         /\ Len(s) \in Nat /\ DOMAIN s = 1 .. Len(s)
OBVIOUS

\* With the rows qs instead of rs a reload finds the atom a for i, and for every
\* other id what it found before.
Wrote(qs, rs, i, a) ==
  /\ qs \in Seq(Row) /\ Bare(qs)
  /\ \A b : LoadedIn(qs, b, i) = Filled(b, a)
  /\ \A b, j : j # i => LoadedIn(qs, b, j) = LoadedIn(rs, b, j)

\* A line more at the end of a log.
LEMMA Appended ==
  ASSUME NEW rs \in Seq(Row), NEW r \in Row, Bare(rs), r.atom.ref = "blob" => r.atom.text = ""
  PROVE  /\ Wrote(Append(rs, r), rs, r.id, r.atom)
         /\ Once(rs) /\ RowsIn(rs, r.id) = {} => Once(Append(rs, r))
<1> DEFINE qs == Append(rs, r)
           last == Len(rs) + 1
<1>1. /\ qs \in Seq(Row) /\ DOMAIN qs = DOMAIN rs \cup {last}
      /\ qs[last] = r /\ \A n \in DOMAIN rs : qs[n] = rs[n]
      /\ Len(rs) \in Nat /\ DOMAIN rs = 1 .. Len(rs)
  BY AppendFacts
<1> HIDE DEF qs
<1>2. last \notin DOMAIN rs /\ \A n \in DOMAIN qs : n <= last
  <2>1. last \notin 1 .. Len(rs) /\ \A n \in (1 .. Len(rs)) \cup {last} : n <= last
    BY <1>1, LastIsLast, Zenon
  <2> HIDE DEF last
  <2> QED
    BY <1>1, <2>1, Zenon
<1> HIDE DEF last
<1>3. \A i : i # r.id => RowsIn(qs, i) = RowsIn(rs, i)
  BY <1>1, <1>2 DEF RowsIn
<1>4. RowsIn(qs, r.id) = RowsIn(rs, r.id) \cup {last}
  BY <1>1, <1>2 DEF RowsIn
<1>5. Bare(qs)
  BY <1>1, <1>2 DEF Bare
<1>6. Once(rs) /\ RowsIn(rs, r.id) = {} => Once(qs)
  BY <1>1, <1>2 DEF Once, RowsIn
<1>7. ASSUME NEW b PROVE LoadedIn(qs, b, r.id) = Filled(b, r.atom)
  <2>1. \A m \in RowsIn(qs, r.id) : m <= last
    BY <1>2 DEF RowsIn
  <2>2. last \in RowsIn(qs, r.id)
    BY <1>4
  <2>3. LoadedIn(qs, b, r.id) = Filled(b, qs[last].atom)
    BY <1>1, <2>1, <2>2, LoadedAt, Zenon
  <2> QED
    BY <1>1, <2>3
<1>8. ASSUME NEW b, NEW i, i # r.id PROVE LoadedIn(qs, b, i) = LoadedIn(rs, b, i)
  <2>1. RowsIn(qs, i) = RowsIn(rs, i)
    BY <1>3, <1>8
  <2>2. \A n \in RowsIn(rs, i) : qs[n].atom = rs[n].atom
    BY <1>1, Zenon DEF RowsIn
  <2>3. SameRows(qs, rs, i)
    BY <2>1, <2>2 DEF SameRows
  <2>4. qs \in Seq(Row)
    BY <1>1
  <2> QED
    BY <2>3, <2>4, LoadedKept, Zenon DEF SameLoad
<1>9. Wrote(qs, rs, r.id, r.atom)
  BY <1>1, <1>5, <1>7, <1>8, Zenon DEF Wrote
<1> QED
  BY <1>6, <1>9, Zenon DEF qs


LEMMA RemoveFacts ==
  ASSUME NEW S, NEW s \in Seq(S), NEW k \in DOMAIN s
  PROVE  /\ RemoveAt(s, k) \in Seq(S)
         /\ DOMAIN RemoveAt(s, k) = 1 .. Len(s) - 1
         /\ \A n \in 1 .. k - 1 : RemoveAt(s, k)[n] = s[n]
         /\ \A n \in k .. Len(s) - 1 : RemoveAt(s, k)[n] = s[n + 1]
         /\ Len(s) \in Nat /\ k \in 1 .. Len(s)
<1> DEFINE f == SubSeq(s, 1, k - 1)
           g == SubSeq(s, k + 1, Len(s))
<1>1. Len(s) \in Nat /\ k \in 1 .. Len(s)
  OBVIOUS
<1>2. f \in Seq(S) /\ Len(f) = k - 1 /\ \A n \in 1 .. k - 1 : f[n] = s[n]
  BY <1>1
<1>3. g \in Seq(S) /\ Len(g) = Len(s) - k /\ \A n \in 1 .. Len(s) - k : g[n] = s[k + n]
  BY <1>1
<1> HIDE DEF f, g
<1>4. f \o g \in Seq(S) /\ Len(f \o g) = Len(f) + Len(g)
      /\ \A n \in 1 .. Len(f) + Len(g) :
           (f \o g)[n] = IF n <= Len(f) THEN f[n] ELSE g[n - Len(f)]
  BY <1>2, <1>3
<1>5. RemoveAt(s, k) = f \o g
  BY DEF RemoveAt, f, g
<1> DEFINE h == f \o g
<1> HIDE DEF h
<1>6. h \in Seq(S) /\ Len(h) = Len(s) - 1
  BY <1>1, <1>2, <1>3, <1>4 DEF h
<1>7. \A n \in 1 .. k - 1 : h[n] = s[n]
  BY <1>1, <1>2, <1>3, <1>4 DEF h
<1>8. ASSUME NEW n \in k .. Len(s) - 1 PROVE h[n] = s[n + 1]
  <2>1. h[n] = g[n - (k - 1)]
    <3>1. n \in 1 .. Len(f) + Len(g) /\ ~(n <= Len(f)) /\ Len(f) = k - 1
      BY <1>1, <1>2, <1>3
    <3>2. (f \o g)[n] = g[n - Len(f)]
      BY <1>4, <3>1
    <3> QED
      BY <3>1, <3>2 DEF h
  <2>2. n - (k - 1) \in 1 .. Len(s) - k /\ k + (n - (k - 1)) = n + 1
    BY <1>1
  <2> QED
    BY <1>3, <2>1, <2>2
<1>9. h = RemoveAt(s, k) /\ DOMAIN h = 1 .. Len(s) - 1
  BY <1>5, <1>6 DEF h
<1> QED
  BY <1>1, <1>6, <1>7, <1>8, <1>9

LEMMA ReplaceFacts ==
  ASSUME NEW S, NEW s \in Seq(S), NEW k \in DOMAIN s, NEW e \in S
  PROVE  /\ [s EXCEPT ![k] = e] \in Seq(S) /\ DOMAIN [s EXCEPT ![k] = e] = DOMAIN s
         /\ [s EXCEPT ![k] = e][k] = e
         /\ \A n \in DOMAIN s : n # k => [s EXCEPT ![k] = e][n] = s[n]
OBVIOUS

LEMMA UpTo == \A n \in Nat : \A k \in 1 .. n : k <= k
OBVIOUS

\* A row replaced in place, which keeps the atom of every row.
LEMMA Replaced ==
  ASSUME NEW rs \in Seq(Row), NEW r \in Row, NEW k \in DOMAIN rs, rs[k].id = r.id,
         Once(rs), Bare(rs), r.atom.ref = "blob" => r.atom.text = ""
  PROVE  Wrote([rs EXCEPT ![k] = r], rs, r.id, r.atom) /\ Once([rs EXCEPT ![k] = r])
<1> DEFINE qs == [rs EXCEPT ![k] = r]
<1>1. /\ qs \in Seq(Row) /\ DOMAIN qs = DOMAIN rs
      /\ qs[k] = r /\ \A n \in DOMAIN rs : n # k => qs[n] = rs[n]
  BY ReplaceFacts
<1> HIDE DEF qs
<1>2. \A i : RowsIn(qs, i) = RowsIn(rs, i)
  BY <1>1 DEF RowsIn
<1>3. Bare(qs)
  BY <1>1 DEF Bare
<1>4. Once(qs)
  BY <1>1 DEF Once
<1>5. RowsIn(rs, r.id) = {k}
  BY DEF RowsIn, Once
<1>6. ASSUME NEW b PROVE LoadedIn(qs, b, r.id) = Filled(b, r.atom)
  <2>1. RowsIn(qs, r.id) = {k}
    BY <1>2, <1>5, Zenon
  <2>2. k <= k
    <3>1. Len(rs) \in Nat /\ k \in 1 .. Len(rs)
      BY RemoveFacts, Zenon
    <3> QED
      BY <3>1, UpTo, Zenon
  <2>3. k \in RowsIn(qs, r.id) /\ \A m \in RowsIn(qs, r.id) : m <= k
    BY <2>1, <2>2, Zenon
  <2>4. LoadedIn(qs, b, r.id) = Filled(b, qs[k].atom)
    BY <1>1, <2>3, LoadedAt, Zenon
  <2> QED
    BY <1>1, <2>4, Zenon
<1>7. ASSUME NEW b, NEW i, i # r.id PROVE LoadedIn(qs, b, i) = LoadedIn(rs, b, i)
  <2>1. \A n \in RowsIn(rs, i) : qs[n].atom = rs[n].atom
    BY <1>1, <1>7 DEF RowsIn
  <2>2. SameRows(qs, rs, i)
    BY <1>2, <2>1 DEF SameRows
  <2>3. qs \in Seq(Row)
    BY <1>1
  <2> QED
    BY <2>2, <2>3, LoadedKept, Zenon DEF SameLoad
<1>8. Wrote(qs, rs, r.id, r.atom)
  BY <1>1, <1>3, <1>6, <1>7, Zenon DEF Wrote
<1> QED
  BY <1>4, <1>8, Zenon DEF qs

\* The one row of an atom counts.
LEMMA LoadedOnce ==
  \A rs \in Seq(Row) : \A k \in DOMAIN rs :
    Once(rs) => \A b : LoadedIn(rs, b, rs[k].id) = Filled(b, rs[k].atom)
<1> SUFFICES ASSUME NEW rs \in Seq(Row), NEW k \in DOMAIN rs, Once(rs), NEW b
             PROVE  LoadedIn(rs, b, rs[k].id) = Filled(b, rs[k].atom)
  OBVIOUS
<1>1. RowsIn(rs, rs[k].id) = {k}
  BY DEF RowsIn, Once
<1>2. k <= k
  <2>1. Len(rs) \in Nat /\ k \in 1 .. Len(rs)
    BY RemoveFacts, Zenon
  <2> QED
    BY <2>1, UpTo, Zenon
<1>3. k \in RowsIn(rs, rs[k].id) /\ \A m \in RowsIn(rs, rs[k].id) : m <= k
  BY <1>1, <1>2, Zenon
<1> QED
  BY <1>3, LoadedAt, Zenon


\* A row removed, which keeps the atom of every other.
LEMMA Removed ==
  ASSUME NEW rs \in Seq(Row), NEW k \in DOMAIN rs, Once(rs), Bare(rs)
  PROVE  Wrote(RemoveAt(rs, k), rs, rs[k].id, NoAtom) /\ Once(RemoveAt(rs, k))
<1> DEFINE qs == RemoveAt(rs, k)
           len == Len(rs)
           old(n) == IF n < k THEN n ELSE n + 1
<1>1. /\ qs \in Seq(Row) /\ DOMAIN qs = 1 .. len - 1 /\ DOMAIN rs = 1 .. len
      /\ \A n \in 1 .. k - 1 : qs[n] = rs[n]
      /\ \A n \in k .. len - 1 : qs[n] = rs[n + 1]
      /\ len \in Nat /\ k \in 1 .. len
  BY RemoveFacts
<1> HIDE DEF qs, len
<1>2. \A n \in DOMAIN qs : old(n) \in DOMAIN rs /\ old(n) # k /\ qs[n] = rs[old(n)]
  BY <1>1
<1>3. \A m, n \in DOMAIN qs : old(m) = old(n) => m = n
  BY <1>1
<1>4. \A o \in DOMAIN rs : o # k => \E n \in DOMAIN qs : old(n) = o
  <2> SUFFICES ASSUME NEW o \in DOMAIN rs, o # k PROVE \E n \in DOMAIN qs : old(n) = o
    OBVIOUS
  <2> DEFINE n == IF o < k THEN o ELSE o - 1
  <2>1. n \in DOMAIN qs /\ old(n) = o
    BY <1>1
  <2> QED
    BY <2>1
<1> HIDE DEF old
<1>5. Once(qs)
  BY <1>2, <1>3 DEF Once
<1>6. Bare(qs)
  BY <1>2 DEF Bare
<1>7. ASSUME NEW b PROVE LoadedIn(qs, b, rs[k].id) = Filled(b, NoAtom)
  <2>1. RowsIn(qs, rs[k].id) = {}
    BY <1>2 DEF RowsIn, Once
  <2>2. Filled(b, NoAtom) = NoAtom
    BY DEF Filled, NoAtom
  <2> QED
    BY <2>1, <2>2 DEF LoadedIn
<1>8. ASSUME NEW b, NEW i, i # rs[k].id PROVE LoadedIn(qs, b, i) = LoadedIn(rs, b, i)
  <2>1. CASE RowsIn(rs, i) = {}
    <3>1. RowsIn(qs, i) = {}
      BY <1>2, <2>1 DEF RowsIn
    <3> QED
      BY <2>1, <3>1 DEF LoadedIn
  <2>2. CASE RowsIn(rs, i) # {}
    <3>1. PICK o \in RowsIn(rs, i) : TRUE
      BY <2>2
    <3>2. o \in DOMAIN rs /\ rs[o].id = i /\ o # k
      BY <1>8, <3>1 DEF RowsIn
    <3>3. PICK n \in DOMAIN qs : old(n) = o
      BY <1>4, <3>2
    <3>4. LoadedIn(rs, b, i) = Filled(b, rs[o].atom)
      BY <3>2, LoadedOnce
    <3>5. qs[n] = rs[o]
      BY <1>2, <3>3
    <3>6. LoadedIn(qs, b, i) = Filled(b, qs[n].atom)
      BY <1>1, <1>5, <3>2, <3>5, LoadedOnce
    <3> QED
      BY <3>4, <3>5, <3>6
  <2> QED
    BY <2>1, <2>2
<1>9. Wrote(qs, rs, rs[k].id, NoAtom)
  BY <1>1, <1>6, <1>7, <1>8, Zenon DEF Wrote
<1> QED
  BY <1>5, <1>9, Zenon DEF qs

LEMMA RemoveNone ==
  ASSUME NEW S, NEW s \in Seq(S)
  PROVE  RemoveAt(s, 0) = s
<1>1. Len(s) \in Nat
  OBVIOUS
<1>2. SubSeq(s, 1, 0 - 1) = <<>>
  OBVIOUS
<1>3. SubSeq(s, 0 + 1, Len(s)) = s
  BY <1>1
<1>4. <<>> \o s = s
  OBVIOUS
<1> QED
  BY <1>2, <1>3, <1>4 DEF RemoveAt

-----------------------------------------------------------------------------
(* The invariant                                                           *)

\* Between operations and while the process is down no operation is on; a put
\* writes its body before its row, a link update writes the atom that is there,
\* and a delete has taken the atom out of memory.
OpInv ==
  /\ op.kind = "none" <=> op.at \in {"done", "down"}
  /\ op.kind = "none" => op.id = 0 /\ op.atom = NoAtom
  /\ op.kind # "none" => op.id \in Ids
  /\ op.at = "blob" => op.kind = "put"
  /\ op.kind = "put" => op.atom # NoAtom
  /\ op.kind = "links" => op.atom = atoms[op.id] /\ op.atom # NoAtom
  /\ op.kind = "delete" => op.atom = NoAtom /\ atoms[op.id] = NoAtom

\* What the operation is about to leave in the files is the atom it stores, unless
\* it is a link update of an atom whose last write was cut.
Sure == op.kind # "links" \/ op.id \notin cut
WriteInv ==
  /\ op.at \in {"row", "index"} /\ Sure /\ op.atom.ref = "blob" => op.atom.text = blob[op.id]
  /\ op.at = "index" /\ Sure => LoadedIn(rows, blob[op.id], op.id) = op.atom

RowInv == Bare(rows) /\ (backend = "lance" => Once(rows))

\* The files have what was stored, and the memory has what the files have.
FileInv ==
  \A i \in Ids \ (cut \cup {op.id}) :
    /\ LoadedIn(rows, blob[i], i) = stored[i]
    /\ op.at # "down" => atoms[i] = stored[i]

TipInv ==
  /\ tip \in Live \cup {0}
  /\ ~vacated => tip = Newest(atoms)

TypeInv ==
  /\ backend \in {"jsonl", "lance"}
  /\ rows \in Seq(Row) /\ blob \in [Ids -> Bodies]
  /\ atoms \in [Ids -> Atom] /\ stored \in [Ids -> Atom]
  /\ tip \in Names /\ op \in Op /\ cut \in SUBSET Ids /\ vacated \in BOOLEAN

Inv == TypeInv /\ OpInv /\ WriteInv /\ RowInv /\ FileInv /\ TipInv

LEMMA Constants ==
  /\ NoAtom \in Atom /\ NoOp \in Op /\ 0 \in Names /\ Ids \subseteq Names
  /\ "" \in Bodies /\ "part" \in Bodies /\ Texts \subseteq Bodies /\ Versions \subseteq Vers
  /\ NoAtom.ref = "none" /\ NoAtom.text = "" /\ 0 \notin Ids
BY AtomStoreOK DEF NoAtom, NoOp, Op, Atom, Names, Bodies, Vers, Texts

-----------------------------------------------------------------------------
(* It holds initially, and says what is promised                           *)

LEMMA InvInit == Init => Inv
<1> SUFFICES ASSUME Init PROVE Inv
  OBVIOUS
<1>0. /\ backend \in {"jsonl", "lance"} /\ rows = <<>> /\ blob = [i \in Ids |-> ""]
      /\ atoms = [i \in Ids |-> NoAtom] /\ stored = atoms
      /\ tip = 0 /\ op = NoOp /\ cut = {} /\ vacated = FALSE
  BY DEF Init
<1>1. TypeInv
  <2>1. rows \in Seq(Row)
    <3>1. \A S : <<>> \in Seq(S)
      OBVIOUS
    <3> QED
      BY <1>0, <3>1, Zenon
  <2>2. blob \in [Ids -> Bodies] /\ atoms \in [Ids -> Atom] /\ stored \in [Ids -> Atom]
    BY <1>0, Constants
  <2> QED
    BY <1>0, <2>1, <2>2, Constants, Zenon DEF TypeInv
<1>a. op.kind = "none" /\ op.at = "done" /\ op.id = 0 /\ op.atom = NoAtom
  BY <1>0 DEF NoOp
<1>2. OpInv
  BY <1>a DEF OpInv
<1>3. DOMAIN rows = {}
  <2>1. DOMAIN <<>> = {}
    OBVIOUS
  <2> QED
    BY <1>0, <2>1, Zenon
<1>4. WriteInv /\ RowInv
  BY <1>3, <1>a DEF WriteInv, RowInv, Bare, Once
<1>5. FileInv
  BY <1>0, <1>3 DEF FileInv, LoadedIn, RowsIn
<1>6. TipInv
  BY <1>0 DEF TipInv, Newest
<1> QED
  BY <1>1, <1>2, <1>4, <1>5, <1>6 DEF Inv

LEMMA InvGives == Inv => AtomsDurable
<1> SUFFICES ASSUME Inv PROVE AtomsDurable
  OBVIOUS
<1> USE DEF Inv
<1>1. TypeOK
  <2>1. \A i \in Ids : blob[i] \in Bodies /\ atoms[i] \in Atom
    BY DEF TypeInv
  <2>2. \A a \in Atom : a.ver \in Vers
    BY DEF Atom
  <2>3. op.at \in {"done", "blob", "row", "index", "down"}
    BY DEF TypeInv, Op
  <2>4. \A i \in Ids : blob[i] \in Texts \cup {"", "part"} /\ atoms[i].ver \in Versions \cup {0}
    BY <2>1, <2>2, Zenon DEF Bodies, Vers
  <2> QED
    BY <2>3, <2>4, Zenon DEF TypeOK, TipInv
<1>2. SurvivesDeath
  BY LoadedUnfolds DEF SurvivesDeath, FileInv
<1>3. MemoryMatchesFiles
  <2> SUFFICES ASSUME Idle, NEW i \in Ids \ cut PROVE atoms[i] = Loaded(i)
    BY DEF MemoryMatchesFiles
  <2>1. op.id = 0 /\ op.at = "done"
    BY DEF Idle, NoOp
  <2>2. i \in Ids \ (cut \cup {op.id})
    BY <2>1, Constants
  <2> QED
    BY <2>1, <2>2, LoadedUnfolds DEF FileInv
<1>4. TipIsNewest
  BY DEF TipIsNewest, TipInv
<1> QED
  BY <1>1, <1>2, <1>3, <1>4 DEF AtomsDurable

-----------------------------------------------------------------------------
(* It is kept by the steps of an operation                                 *)

LEMMA IdleOp == Idle => op.kind = "none" /\ op.at = "done" /\ op.id = 0 /\ op.atom = NoAtom
BY DEF Idle, NoOp

LEMMA PutBeginKeeps ==
  ASSUME Inv, NEW i \in Ids, NEW text \in Texts, NEW ver \in Versions, PutBegin(i, text, ver)
  PROVE  Inv'
<1> DEFINE a == [text |-> text, ref |-> IF text \in Large THEN "blob" ELSE "inline", ver |-> ver]
<1>0. /\ op.id = 0 /\ op.at = "done"
      /\ op' = [kind |-> "put", at |-> "blob", id |-> i, atom |-> a]
      /\ UNCHANGED <<backend, rows, blob, atoms, tip, stored, cut, vacated>>
  BY IdleOp DEF PutBegin
<1>1. a \in Atom /\ a # NoAtom
  <2>1. text \in Bodies /\ ver \in Vers
    BY Constants
  <2>2. a.ref # "none"
    OBVIOUS
  <2> QED
    BY <2>1, <2>2, Constants DEF Atom
<1> HIDE DEF a
<1>2. op'.kind = "put" /\ op'.at = "blob" /\ op'.id = i /\ op'.atom = a
  BY <1>0
<1>3. op' \in Op
  BY <1>0, <1>1, Constants DEF Op
<1>4. TypeInv'
  BY <1>0, <1>3 DEF Inv, TypeInv
<1>5. OpInv'
  BY <1>1, <1>2 DEF OpInv
<1>6. WriteInv' /\ RowInv'
  BY <1>0, <1>2 DEF Inv, WriteInv, RowInv
<1>7. FileInv'
  BY <1>0, <1>2, Constants DEF Inv, FileInv
<1>8. TipInv'
  BY <1>0 DEF Inv, TipInv, Live
<1> QED
  BY <1>4, <1>5, <1>6, <1>7, <1>8 DEF Inv

LEMMA UpdateLinksKeeps ==
  ASSUME Inv, NEW i \in Ids, UpdateLinks(i)
  PROVE  Inv'
<1>0. /\ op.id = 0 /\ op.at = "done" /\ atoms[i] # NoAtom
      /\ op' = [kind |-> "links", at |-> "row", id |-> i, atom |-> atoms[i]]
      /\ UNCHANGED <<backend, rows, blob, atoms, tip, stored, cut, vacated>>
  BY IdleOp DEF UpdateLinks, Live
<1>1. atoms[i] \in Atom /\ blob[i] \in Bodies
  BY DEF Inv, TypeInv
<1>2. op'.kind = "links" /\ op'.at = "row" /\ op'.id = i /\ op'.atom = atoms[i]
  BY <1>0
<1>3. op' \in Op
  BY <1>0, <1>1, Constants DEF Op
<1>4. TypeInv'
  BY <1>0, <1>3 DEF Inv, TypeInv
<1>5. OpInv'
  BY <1>0, <1>2 DEF OpInv
<1>6. WriteInv'
  <2>1. ASSUME i \notin cut, atoms[i].ref = "blob" PROVE atoms[i].text = blob[i]
    <3>1. LoadedIn(rows, blob[i], i) = atoms[i]
      BY <1>0, <2>1, Constants DEF Inv, FileInv
    <3>2. rows \in Seq(Row) /\ Bare(rows)
      BY DEF Inv, TypeInv, RowInv
    <3> QED
      BY <1>1, <2>1, <3>1, <3>2, LoadedTyped
  <2>2. blob' = blob /\ cut' = cut
    BY <1>0
  <2> QED
    BY <1>2, <2>1, <2>2 DEF WriteInv, Sure
<1>7. RowInv'
  BY <1>0 DEF Inv, RowInv
<1>8. FileInv'
  BY <1>0, <1>2, Constants DEF Inv, FileInv
<1>9. TipInv'
  BY <1>0 DEF Inv, TipInv, Live
<1> QED
  BY <1>4, <1>5, <1>6, <1>7, <1>8, <1>9 DEF Inv

LEMMA SpillBlobKeeps ==
  ASSUME Inv, SpillBlob
  PROVE  Inv'
<1> DEFINE i == op.id
<1>0. /\ op.at = "blob" /\ op.kind = "put" /\ i \in Ids /\ op' = [op EXCEPT !.at = "row"]
      /\ UNCHANGED <<backend, rows, atoms, tip, stored, cut, vacated>>
  BY DEF SpillBlob, Inv, OpInv
<1>1. op \in Op /\ blob \in [Ids -> Bodies]
  BY DEF Inv, TypeInv
<1>2. op'.kind = "put" /\ op'.at = "row" /\ op'.id = i /\ op'.atom = op.atom /\ op' \in Op
  BY <1>0, <1>1 DEF Op
<1>3. /\ \A j \in Ids \ {i} : blob'[j] = blob[j]
      /\ op.atom.ref = "blob" => blob'[i] = op.atom.text
      /\ blob' \in [Ids -> Bodies]
  <2>1. op.atom.text \in Bodies /\ "" \in Bodies
    BY <1>1, Constants DEF Op, Atom
  <2>2. CASE op.atom.ref = "blob"
    <3>1. blob' = [blob EXCEPT ![i] = op.atom.text]
      BY <2>2 DEF SpillBlob
    <3> QED
      BY <1>0, <1>1, <2>1, <3>1
  <2>3. CASE op.atom.ref # "blob"
    <3>1. blob' = blob \/ blob' = [blob EXCEPT ![i] = ""]
      BY <2>3 DEF SpillBlob
    <3> QED
      BY <1>0, <1>1, <2>1, <2>3, <3>1
  <2> QED
    BY <2>2, <2>3
<1>4. TypeInv'
  BY <1>0, <1>2, <1>3 DEF Inv, TypeInv
<1>5. OpInv'
  BY <1>0, <1>2 DEF Inv, OpInv
<1>6. WriteInv'
  BY <1>2, <1>3 DEF WriteInv
<1>7. RowInv'
  BY <1>0 DEF Inv, RowInv
<1>8. FileInv'
  BY <1>0, <1>2, <1>3 DEF Inv, FileInv
<1>9. TipInv'
  BY <1>0 DEF Inv, TipInv, Live
<1> QED
  BY <1>4, <1>5, <1>6, <1>7, <1>8, <1>9 DEF Inv

LEMMA DeleteBeginKeeps ==
  ASSUME Inv, NEW i \in Ids, DeleteBegin(i)
  PROVE  Inv'
<1>0. /\ op.id = 0 /\ op.at = "done" /\ atoms[i] # NoAtom
      /\ op' = [kind |-> "delete", at |-> "row", id |-> i, atom |-> NoAtom]
      /\ atoms' = [atoms EXCEPT ![i] = NoAtom]
      /\ tip' = IF tip = i THEN 0 ELSE tip
      /\ vacated' = (vacated \/ tip = i)
      /\ blob' = blob \/ blob' = [blob EXCEPT ![i] = ""]
      /\ UNCHANGED <<backend, rows, stored, cut>>
  BY IdleOp DEF DeleteBegin, Live
<1>1. atoms \in [Ids -> Atom] /\ blob \in [Ids -> Bodies] /\ tip \in Names
  BY DEF Inv, TypeInv
<1>2. op'.kind = "delete" /\ op'.at = "row" /\ op'.id = i /\ op'.atom = NoAtom /\ op' \in Op
  BY <1>0, Constants DEF Op
<1>3. /\ atoms' \in [Ids -> Atom] /\ atoms'[i] = NoAtom /\ \A j \in Ids \ {i} : atoms'[j] = atoms[j]
      /\ blob' \in [Ids -> Bodies] /\ \A j \in Ids \ {i} : blob'[j] = blob[j]
      /\ tip' \in Names /\ vacated' \in BOOLEAN
  BY <1>0, <1>1, Constants
<1>4. TypeInv'
  BY <1>0, <1>2, <1>3 DEF Inv, TypeInv
<1>5. OpInv'
  BY <1>2, <1>3 DEF OpInv
<1>6. WriteInv'
  BY <1>2, Constants DEF WriteInv
<1>7. RowInv'
  BY <1>0 DEF Inv, RowInv
<1>8. FileInv'
  <2> SUFFICES ASSUME NEW j \in Ids, j \notin cut', j # op'.id
               PROVE  /\ LoadedIn(rows', blob'[j], j) = stored'[j]
                      /\ op'.at # "down" => atoms'[j] = stored'[j]
    BY DEF FileInv
  <2>1. j \in Ids \ (cut \cup {op.id}) /\ j \in Ids \ {i}
    BY <1>0, <1>2, Constants
  <2>2. LoadedIn(rows, blob[j], j) = stored[j] /\ atoms[j] = stored[j]
    BY <1>0, <2>1 DEF Inv, FileInv
  <2>3. rows' = rows /\ stored' = stored /\ blob'[j] = blob[j] /\ atoms'[j] = atoms[j]
    BY <1>0, <1>3, <2>1
  <2> QED
    BY <2>2, <2>3
<1>9. TipInv'
  <2>1. tip \in Live \cup {0} /\ (~vacated => tip = Newest(atoms))
    BY DEF Inv, TipInv
  <2>2. tip' \in Live' \cup {0}
    BY <1>0, <1>3, <2>1 DEF Live
  <2>3. ASSUME ~vacated' PROVE tip' = Newest(atoms')
    <3>1. tip # i /\ tip' = tip /\ tip = Newest(atoms)
      BY <1>0, <2>1, <2>3
    <3>2. /\ tip \in Ids /\ atoms[tip] # NoAtom
          /\ \A j \in Ids \ {tip} : atoms[j] # NoAtom => Newer(atoms, tip, j)
      BY <1>0, <1>1, <3>1, NewestFound
    <3>3. atoms'[tip] # NoAtom
      BY <1>3, <3>1, <3>2
    <3>4. \A j \in Ids \ {tip} : atoms'[j] # NoAtom => Newer(atoms', tip, j)
      <4>1. \A j \in Ids \ {i} : Newer(atoms, tip, j) => Newer(atoms', tip, j)
        BY <1>3, <3>1, <3>2, Zenon DEF Newer
      <4> QED
        BY <1>3, <3>2, <4>1
    <3> QED
      BY <1>3, <3>1, <3>2, <3>3, <3>4, NewestIs
  <2> QED
    BY <2>2, <2>3 DEF TipInv
<1> QED
  BY <1>4, <1>5, <1>6, <1>7, <1>8, <1>9 DEF Inv

LEMMA RowOfOp ==
  ASSUME Inv, op.at = "row"
  PROVE  /\ op.id \in Ids /\ op.atom \in Atom /\ rows \in Seq(Row) /\ Bare(rows)
         /\ RowForDisk(op.id, op.atom) \in Row /\ RowForDisk(op.id, op.atom).id = op.id
         /\ RowForDisk(op.id, op.atom).atom.ref = "blob" => RowForDisk(op.id, op.atom).atom.text = ""
         /\ Sure => Filled(blob[op.id], RowForDisk(op.id, op.atom).atom) = op.atom
<1>1. op.id \in Ids /\ op.atom \in Atom /\ rows \in Seq(Row) /\ Bare(rows)
  BY DEF Inv, TypeInv, OpInv, RowInv, Op
<1>2. op.id \in Names
  BY <1>1, Constants
<1>3. ASSUME Sure PROVE Filled(blob[op.id], RowForDisk(op.id, op.atom).atom) = op.atom
  <2>1. op.atom.ref = "blob" => op.atom.text = blob[op.id]
    BY <1>3 DEF Inv, WriteInv
  <2> QED
    BY <1>1, <2>1, RoundTrip, Zenon
<1>4. /\ RowForDisk(op.id, op.atom) \in Row /\ RowForDisk(op.id, op.atom).id = op.id
      /\ RowForDisk(op.id, op.atom).atom.ref = "blob" => RowForDisk(op.id, op.atom).atom.text = ""
  BY <1>1, <1>2, RowTyped, Zenon
<1> QED
  BY <1>1, <1>3, <1>4, Zenon

\* The row is written: a reload finds the atom of the operation.
LEMMA RowWritten ==
  ASSUME Inv, op.at = "row", op' = [op EXCEPT !.at = "index"],
         UNCHANGED <<backend, blob, atoms, tip, stored, cut, vacated>>,
         backend = "lance" => Once(rows'),
         Wrote(rows', rows, op.id, RowForDisk(op.id, op.atom).atom)
  PROVE  Inv'
<1>0. /\ rows' \in Seq(Row) /\ Bare(rows')
      /\ Sure => LoadedIn(rows', blob[op.id], op.id) = op.atom
      /\ \A i \in Ids \ {op.id} : LoadedIn(rows', blob[i], i) = LoadedIn(rows, blob[i], i)
  <2>1. Sure => Filled(blob[op.id], RowForDisk(op.id, op.atom).atom) = op.atom
    BY RowOfOp
  <2>2. LoadedIn(rows', blob[op.id], op.id) = Filled(blob[op.id], RowForDisk(op.id, op.atom).atom)
    BY DEF Wrote
  <2> QED
    BY <2>1, <2>2, Zenon DEF Wrote
<1>1. op \in Op
  BY DEF Inv, TypeInv
<1>2. op'.kind = op.kind /\ op'.at = "index" /\ op'.id = op.id /\ op'.atom = op.atom /\ op' \in Op
  BY <1>1 DEF Op
<1>3. TypeInv'
  BY <1>0, <1>2 DEF Inv, TypeInv
<1>4. OpInv'
  BY <1>2 DEF Inv, OpInv
<1>5. WriteInv'
  BY <1>0, <1>2 DEF Inv, WriteInv, Sure
<1>6. RowInv'
  BY <1>0 DEF RowInv
<1>7. FileInv'
  BY <1>0, <1>2 DEF Inv, FileInv
<1>8. TipInv'
  BY DEF Inv, TipInv, Live
<1> QED
  BY <1>3, <1>4, <1>5, <1>6, <1>7, <1>8 DEF Inv

LEMMA AppendRowKeeps ==
  ASSUME Inv, AppendRow
  PROVE  Inv'
<1> DEFINE r == RowForDisk(op.id, op.atom)
<1>0. /\ op.at = "row" /\ backend = "jsonl" /\ rows' = Append(rows, r)
      /\ op' = [op EXCEPT !.at = "index"]
      /\ UNCHANGED <<backend, blob, atoms, tip, stored, cut, vacated>>
  BY DEF AppendRow
<1>1. /\ rows \in Seq(Row) /\ Bare(rows) /\ r \in Row /\ r.id = op.id
      /\ r.atom.ref = "blob" => r.atom.text = ""
  BY <1>0, RowOfOp
<1> HIDE DEF r
<1>2. Wrote(rows', rows, r.id, r.atom)
  BY <1>0, <1>1, Appended, Zenon
<1>3. Wrote(rows', rows, op.id, RowForDisk(op.id, op.atom).atom)
  BY <1>1, <1>2, Zenon DEF r
<1>4. backend # "lance"
  BY <1>0
<1> QED
  BY <1>0, <1>3, <1>4, RowWritten, Zenon

LEMMA UpsertRowKeeps ==
  ASSUME Inv, UpsertRow
  PROVE  Inv'
<1> DEFINE r == RowForDisk(op.id, op.atom)
           mine == RowsIn(rows, op.id)
<1>0. /\ op.at = "row" /\ backend = "lance"
      /\ rows' = IF op.kind = "delete" THEN RemoveAt(rows, Max(mine \cup {0}))
                 ELSE IF mine = {} THEN Append(rows, r) ELSE [rows EXCEPT ![Max(mine)] = r]
      /\ op' = [op EXCEPT !.at = "index"]
      /\ UNCHANGED <<backend, blob, atoms, tip, stored, cut, vacated>>
  BY DEF UpsertRow, RowsOf, RowsIn
<1>1. /\ rows \in Seq(Row) /\ Bare(rows) /\ r \in Row /\ r.id = op.id
      /\ r.atom.ref = "blob" => r.atom.text = ""
      /\ Once(rows)
  BY <1>0, RowOfOp DEF Inv, RowInv
<1>2. op.kind = "delete" => r.atom = NoAtom
  <2>1. op.kind = "delete" => op.atom = NoAtom
    BY DEF Inv, OpInv
  <2>2. RowForDisk(op.id, NoAtom).atom = NoAtom
    BY DEF RowForDisk, NoAtom
  <2> QED
    BY <2>1, <2>2, Zenon
<1> HIDE DEF r
<1> SUFFICES Wrote(rows', rows, op.id, r.atom) /\ Once(rows')
  BY <1>0, RowWritten, Zenon DEF r
<1>3. CASE mine = {}
  <2>1. CASE op.kind = "delete"
    <3>1. Max({0}) = 0
      BY MaxIs
    <3>2. rows' = RemoveAt(rows, 0)
      BY <1>0, <1>3, <2>1, <3>1
    <3>3. rows' = rows
      BY <1>1, <3>2, RemoveNone, Zenon
    <3>4. \A b : LoadedIn(rows, b, op.id) = Filled(b, NoAtom)
      BY <1>3 DEF LoadedIn, Filled, NoAtom
    <3>5. Wrote(rows, rows, op.id, NoAtom)
      BY <1>1, <3>4, Zenon DEF Wrote
    <3> QED
      BY <1>1, <1>2, <2>1, <3>3, <3>5, Zenon
  <2>2. CASE op.kind # "delete"
    <3>1. rows' = Append(rows, r)
      BY <1>0, <1>3, <2>2
    <3>2. RowsIn(rows, r.id) = {}
      BY <1>1, <1>3
    <3>3. Wrote(rows', rows, r.id, r.atom) /\ Once(rows')
      BY <1>1, <3>1, <3>2, Appended, Zenon
    <3> QED
      BY <1>1, <3>3, Zenon
  <2> QED
    BY <2>1, <2>2
<1>4. CASE mine # {}
  <2> DEFINE k == Max(mine)
  <2>1. k \in mine /\ k \in DOMAIN rows /\ rows[k].id = op.id /\ \A n \in mine : n <= k
    BY <1>1, <1>4, RowMax DEF RowsIn
  <2>2. CASE op.kind = "delete"
    <3>1. Max(mine \cup {0}) = k
      <4>1. mine \in SUBSET (1 .. Len(rows)) /\ Len(rows) \in Nat
        BY <1>1, RowBounds, Zenon
      <4> HIDE DEF mine, k
      <4>2. mine \cup {0} \in SUBSET Int /\ k \in mine \cup {0} /\ \A n \in mine \cup {0} : n <= k
        BY <2>1, <4>1
      <4>3. Max(mine \cup {0}) = k
        BY <4>2, MaxIs
      <4> QED
        BY <4>3 DEF k
    <3> HIDE DEF k
    <3>2. rows' = RemoveAt(rows, k)
      BY <1>0, <2>2, <3>1
    <3>3. Wrote(rows', rows, rows[k].id, NoAtom) /\ Once(rows')
      BY <1>1, <2>1, <3>2, Removed, Zenon
    <3> QED
      BY <1>2, <2>1, <2>2, <3>3, Zenon
  <2>3. CASE op.kind # "delete"
    <3>1. rows' = [rows EXCEPT ![k] = r]
      BY <1>0, <1>4, <2>3
    <3> HIDE DEF k
    <3>2. rows[k].id = r.id
      BY <1>1, <2>1
    <3>3. Wrote(rows', rows, r.id, r.atom) /\ Once(rows')
      BY <1>1, <2>1, <3>1, <3>2, Replaced, Zenon
    <3> QED
      BY <1>1, <3>3, Zenon
  <2> QED
    BY <2>2, <2>3
<1> QED
  BY <1>3, <1>4

Moves(am, an, i, t) == t \in {0, i} \/ an[i].ver > am[t].ver \/ (an[i].ver = am[t].ver /\ i > t)

Put(am, an, i, t) ==
  /\ an[i] # NoAtom /\ \A j \in Ids \ {i} : an[j] = am[j]
  /\ t = Newest(am) /\ (t = i => ~(an[i].ver < am[i].ver))
Tipped(am, an, i, t) == Newest(an) = IF Moves(am, an, i, t) THEN i ELSE t

\* The newest summary after a put: the atom itself, or the tip there was.
LEMMA TipAfterPutIsNewest ==
  \A am, an \in [Ids -> Atom] : \A i \in Ids : \A t : Put(am, an, i, t) => Tipped(am, an, i, t)
<1> SUFFICES ASSUME NEW am \in [Ids -> Atom], NEW an \in [Ids -> Atom], NEW i \in Ids, NEW t,
                    an[i] # NoAtom, \A j \in Ids \ {i} : an[j] = am[j],
                    t = Newest(am), t = i => ~(an[i].ver < am[i].ver)
             PROVE  Newest(an) = IF Moves(am, an, i, t) THEN i ELSE t
  BY DEF Put, Tipped
<1> USE DEF Moves
<1>0. \A j, k \in Ids : j # i /\ k # i /\ Newer(am, j, k) => Newer(an, j, k)
  BY Zenon DEF Newer
<1>1. CASE t = 0
  <2>1. \A j \in Ids \ {i} : an[j] = NoAtom
    BY <1>1, NewestFound, Constants
  <2>2. Newest(an) = i
    BY <2>1, NewestIs
  <2> QED
    BY <1>1, <2>2
<1>2. CASE t # 0
  <2>0. /\ t \in Ids /\ am[t] # NoAtom
        /\ \A j \in Ids \ {t} : am[j] # NoAtom => Newer(am, t, j)
    BY <1>2, NewestFound
  <2>1. CASE t = i
    <3>1. ASSUME NEW j \in Ids \ {i}, Newer(am, i, j) PROVE Newer(an, i, j)
      <4>1. /\ am[i].ver \in Vers /\ an[i].ver \in Vers /\ am[j].ver \in Vers
            /\ an[j].ver = am[j].ver
        BY DEF Atom
      <4>2. am[i].ver > am[j].ver \/ (am[i].ver = am[j].ver /\ i > j)
        BY <3>1, Zenon DEF Newer
      <4> DEFINE x == am[i].ver
                 y == an[i].ver
                 z == am[j].ver
      <4>3. x \in Int /\ y \in Int /\ z \in Int /\ ~(y < x) /\ an[j].ver = z
        BY <2>1, <4>1, Integers, Zenon
      <4>4. x > z \/ (x = z /\ i > j)
        BY <4>2, Zenon
      <4> HIDE DEF x, y, z
      <4>5. y > z \/ (y = z /\ i > j)
        BY <4>3, <4>4
      <4> QED
        BY <4>3, <4>5, Zenon DEF Newer, y, z
    <3>2. Newest(an) = i
      BY <2>0, <2>1, <3>1, NewestIs
    <3> QED
      BY <2>1, <3>2
  <2>2. CASE t # i
    <3>1. an[t] = am[t]
      BY <2>0, <2>2
    <3>2. CASE Newer(an, i, t)
      <4>1. ASSUME NEW j \in Ids \ {i}, an[j] # NoAtom PROVE Newer(an, i, j)
        <5>1. j = t \/ Newer(an, t, j)
          BY <1>0, <2>0, <2>2, <4>1
        <5> QED
          BY <2>0, <3>2, <5>1, Orders
      <4>2. Newest(an) = i
        BY <4>1, NewestIs
      <4> QED
        BY <1>2, <2>2, <3>1, <3>2, <4>2 DEF Newer
    <3>3. CASE ~Newer(an, i, t)
      <4>1. Newer(an, t, i)
        BY <2>0, <2>2, <3>3, Orders
      <4>2. ASSUME NEW j \in Ids \ {t}, an[j] # NoAtom PROVE Newer(an, t, j)
        BY <1>0, <2>0, <2>2, <4>1, <4>2
      <4>3. Newest(an) = t
        BY <2>0, <3>1, <4>2, NewestIs
      <4> QED
        BY <1>2, <2>2, <3>1, <3>3, <4>3 DEF Newer
    <3> QED
      BY <3>2, <3>3
  <2> QED
    BY <2>1, <2>2
<1> QED
  BY <1>1, <1>2

LEMMA IndexPutKeeps ==
  ASSUME Inv, IndexPut
  PROVE  Inv'
<1> DEFINE i == op.id
           a == op.atom
<1>1. /\ op.at = "index" /\ op \in Op /\ i \in Ids /\ a \in Atom /\ op.kind # "none"
      /\ atoms \in [Ids -> Atom] /\ stored \in [Ids -> Atom] /\ cut \in SUBSET Ids
  BY DEF Inv, TypeInv, OpInv, IndexPut, Op
<1>2. /\ op' = NoOp /\ stored' = [stored EXCEPT ![i] = a]
      /\ cut' = (IF op.kind = "links" THEN cut ELSE cut \ {i})
      /\ UNCHANGED <<backend, rows, blob>>
  BY DEF IndexPut
<1>3. op'.kind = "none" /\ op'.at = "done" /\ op'.id = 0 /\ op'.atom = NoAtom /\ op' \in Op
  BY <1>2, Constants DEF NoOp
<1>4. /\ atoms' \in [Ids -> Atom] /\ atoms'[i] = a /\ \A j \in Ids \ {i} : atoms'[j] = atoms[j]
      /\ stored' \in [Ids -> Atom] /\ stored'[i] = a /\ \A j \in Ids \ {i} : stored'[j] = stored[j]
      /\ cut' \in SUBSET Ids
  <2>1. CASE op.kind = "delete"
    <3>1. atoms' = atoms /\ atoms[i] = a
      BY <2>1 DEF IndexPut, Inv, OpInv
    <3> QED
      BY <1>1, <1>2, <3>1
  <2>2. CASE op.kind # "delete"
    <3>1. atoms' = [atoms EXCEPT ![i] = a]
      BY <2>2 DEF IndexPut
    <3> QED
      BY <1>1, <1>2, <3>1
  <2> QED
    BY <2>1, <2>2
<1>5. tip' \in Names /\ vacated' \in BOOLEAN /\ TipInv'
  <2>0. tip \in Names /\ vacated \in BOOLEAN /\ tip \in Live \cup {0} /\ (~vacated => tip = Newest(atoms))
    BY DEF Inv, TypeInv, TipInv
  <2>1. CASE op.kind = "delete"
    BY <2>0, <2>1 DEF IndexPut, TipInv, Live
  <2>2. CASE op.kind # "delete"
    <3>1. /\ tip' = TipAfterPut(i, a)
          /\ vacated' = (vacated \/ (tip = i /\ a.ver < atoms[tip].ver))
      BY <2>2 DEF IndexPut
    <3>2. a # NoAtom
      BY <1>1, <2>2 DEF Inv, OpInv, Op
    <3>3. tip' \in {i, tip} /\ tip' \in Names
      BY <1>1, <2>0, <3>1, Constants DEF TipAfterPut
    <3>4. tip' \in Live' \cup {0}
      BY <1>1, <1>4, <2>0, <3>2, <3>3 DEF Live
    <3>5. ASSUME ~vacated' PROVE tip' = Newest(atoms')
      <4>1. tip = Newest(atoms) /\ (tip = i => ~(atoms'[i].ver < atoms[i].ver))
        BY <1>4, <2>0, <3>1, <3>5, Zenon
      <4>2. Newest(atoms') = IF Moves(atoms, atoms', i, tip) THEN i ELSE tip
        <5>1. atoms'[i] # NoAtom /\ \A j \in Ids \ {i} : atoms'[j] = atoms[j]
          BY <1>4, <3>2
        <5>2. atoms \in [Ids -> Atom] /\ atoms' \in [Ids -> Atom] /\ i \in Ids
          BY <1>1, <1>4
        <5>3. Put(atoms, atoms', i, tip)
          BY <4>1, <5>1, Zenon DEF Put
        <5>4. Tipped(atoms, atoms', i, tip)
          BY <5>2, <5>3, TipAfterPutIsNewest, Zenon
        <5> QED
          BY <5>4, Zenon DEF Tipped
      <4> QED
        BY <1>4, <3>1, <4>2 DEF TipAfterPut, Moves
    <3> QED
      BY <2>0, <3>1, <3>3, <3>4, <3>5 DEF TipInv
  <2> QED
    BY <2>1, <2>2
<1>6. TypeInv'
  BY <1>2, <1>3, <1>4, <1>5 DEF Inv, TypeInv
<1>7. OpInv'
  BY <1>3 DEF OpInv
<1>8. WriteInv' /\ RowInv'
  BY <1>2, <1>3 DEF Inv, WriteInv, RowInv
<1>9. FileInv'
  <2> SUFFICES ASSUME NEW j \in Ids, j \notin cut'
               PROVE  LoadedIn(rows, blob[j], j) = stored'[j] /\ atoms'[j] = stored'[j]
    BY <1>2, <1>3 DEF FileInv
  <2>1. CASE j = i
    <3>1. Sure
      BY <1>2, <2>1 DEF Sure
    <3>2. LoadedIn(rows, blob[i], i) = a
      BY <1>1, <3>1 DEF Inv, WriteInv
    <3> QED
      BY <1>4, <2>1, <3>2
  <2>2. CASE j # i
    <3>1. j \in Ids \ (cut \cup {i}) /\ j \in Ids \ {i} /\ op.at # "down"
      BY <1>1, <1>2, <2>2
    <3>2. LoadedIn(rows, blob[j], j) = stored[j] /\ atoms[j] = stored[j]
      BY <3>1 DEF Inv, FileInv
    <3> QED
      BY <1>4, <3>1, <3>2
  <2> QED
    BY <2>1, <2>2
<1> QED
  BY <1>5, <1>6, <1>7, <1>8, <1>9 DEF Inv

-----------------------------------------------------------------------------
(* It is kept by a compaction, a failing write, a death and a reload       *)

LEMMA CompactKeeps ==
  ASSUME Inv, Compact
  PROVE  Inv'
<1>1. /\ op.kind = "none" /\ op.at = "done" /\ op.id = 0 /\ backend = "jsonl"
      /\ UNCHANGED <<backend, blob, atoms, tip, op, stored, cut, vacated>>
  BY IdleOp DEF Compact
<1>2. PICK order \in [1 .. Cardinality(Live) -> Live] :
        /\ \A m, n \in DOMAIN order : m < n => order[m] < order[n]
        /\ Live = {order[n] : n \in DOMAIN order}
        /\ rows' = [n \in DOMAIN order |-> RowForDisk(order[n], atoms[order[n]])]
  BY DEF Compact
<1>3. Cardinality(Live) \in Nat /\ Live \in SUBSET Ids /\ Live \in SUBSET Int
  BY AtomStoreOK, FS_Subset, FS_CardinalityType DEF Live
<1> DEFINE c == Cardinality(Live)
<1>4. c \in Nat /\ DOMAIN order = 1 .. c /\ \A n \in 1 .. c : order[n] \in Ids /\ order[n] \in Int
  BY <1>2, <1>3
<1> HIDE DEF c
<1>5. \A m, n \in 1 .. c : order[m] = order[n] => m = n
  <2> SUFFICES ASSUME NEW m \in 1 .. c, NEW n \in 1 .. c, m # n PROVE order[m] # order[n]
    OBVIOUS
  <2>1. m \in Int /\ n \in Int
    BY <1>4
  <2>2. m < n \/ n < m
    BY <2>1
  <2>3. order[m] < order[n] \/ order[n] < order[m]
    BY <1>2, <1>4, <2>2
  <2> QED
    BY <1>4, <2>3
<1>6. atoms \in [Ids -> Atom] /\ blob \in [Ids -> Bodies]
  BY DEF Inv, TypeInv
<1>7. \A n \in 1 .. c : /\ rows'[n] = RowForDisk(order[n], atoms[order[n]])
                        /\ rows'[n] \in Row /\ rows'[n].id = order[n]
                        /\ rows'[n].atom.ref = "blob" => rows'[n].atom.text = ""
  <2> SUFFICES ASSUME NEW n \in 1 .. c
               PROVE  /\ rows'[n] = RowForDisk(order[n], atoms[order[n]])
                      /\ rows'[n] \in Row /\ rows'[n].id = order[n]
                      /\ rows'[n].atom.ref = "blob" => rows'[n].atom.text = ""
    OBVIOUS
  <2>1. rows'[n] = RowForDisk(order[n], atoms[order[n]])
    BY <1>2, <1>4
  <2>2. atoms[order[n]] \in Atom /\ order[n] \in Names
    BY <1>4, <1>6, Constants
  <2>3. /\ RowForDisk(order[n], atoms[order[n]]) \in Row
        /\ RowForDisk(order[n], atoms[order[n]]).id = order[n]
        /\ RowForDisk(order[n], atoms[order[n]]).atom.ref = "blob"
           => RowForDisk(order[n], atoms[order[n]]).atom.text = ""
    BY <2>2, RowTyped, Zenon
  <2> QED
    BY <2>1, <2>3
<1>8. DOMAIN rows' = 1 .. c
  BY <1>2, <1>4
<1>9. rows' \in Seq(Row)
  <2>1. rows' = [n \in 1 .. c |-> rows'[n]]
    BY <1>2, <1>4
  <2>2. rows' \in [1 .. c -> Row]
    BY <1>7, <2>1
  <2>3. \A S : \A k \in Nat : \A f \in [1 .. k -> S] : f \in Seq(S)
    OBVIOUS
  <2> HIDE DEF c
  <2> QED
    BY <1>4, <2>2, <2>3
<1>10. Bare(rows') /\ Once(rows')
  <2>1. Bare(rows')
    BY <1>7, <1>8, Zenon DEF Bare
  <2>2. ASSUME NEW m \in DOMAIN rows', NEW n \in DOMAIN rows', rows'[m].id = rows'[n].id PROVE m = n
    <3>1. order[m] = order[n]
      BY <1>7, <1>8, <2>2, Zenon
    <3> QED
      BY <1>5, <1>8, <3>1, Zenon
  <2> QED
    BY <2>1, <2>2, Zenon DEF Once
<1>11. TypeInv' /\ OpInv' /\ WriteInv' /\ TipInv'
  BY <1>1, <1>9 DEF Inv, TypeInv, OpInv, WriteInv, TipInv, Live
<1>12. RowInv'
  BY <1>10 DEF RowInv
<1>13. FileInv'
  <2> SUFFICES ASSUME NEW j \in Ids, j \notin cut
               PROVE  LoadedIn(rows', blob[j], j) = stored[j] /\ atoms[j] = stored[j]
    BY <1>1 DEF FileInv
  <2>1. /\ LoadedIn(rows, blob[j], j) = stored[j] /\ atoms[j] = stored[j]
        /\ rows \in Seq(Row) /\ Bare(rows) /\ blob[j] \in Bodies /\ atoms[j] \in Atom
    BY <1>1, <1>6, Constants DEF Inv, TypeInv, FileInv, RowInv
  <2>2. CASE j \in Live
    <3>1. PICK n \in 1 .. c : order[n] = j
      BY <1>2, <1>4, <2>2
    <3>2. LoadedIn(rows', blob[j], rows'[n].id) = Filled(blob[j], rows'[n].atom)
      BY <1>8, <1>9, <1>10, LoadedOnce, Zenon
    <3>3. rows'[n].id = j /\ rows'[n].atom = RowForDisk(j, atoms[j]).atom
      BY <1>7, <3>1
    <3>4. atoms[j].ref = "blob" => atoms[j].text = blob[j]
      BY <2>1, LoadedTyped
    <3>5. Filled(blob[j], RowForDisk(j, atoms[j]).atom) = atoms[j]
      BY <2>1, <3>4, RoundTrip, Zenon
    <3> QED
      BY <2>1, <3>2, <3>3, <3>5
  <2>3. CASE j \notin Live
    <3>1. \A n \in 1 .. c : order[n] # j
      BY <1>2, <1>4, <2>3
    <3>2. RowsIn(rows', j) = {}
      BY <1>7, <1>8, <3>1 DEF RowsIn
    <3>3. atoms[j] = NoAtom
      BY <2>3 DEF Live
    <3> QED
      BY <2>1, <3>2, <3>3 DEF LoadedIn
  <2> QED
    BY <2>2, <2>3
<1> QED
  BY <1>11, <1>12, <1>13 DEF Inv

LEMMA WriteFailsKeeps ==
  ASSUME Inv, WriteFails
  PROVE  Inv'
<1>1. /\ op.at \in {"blob", "row"} /\ op' = NoOp /\ cut' = cut \cup {op.id}
      /\ blob' = blob \/ blob' = [blob EXCEPT ![op.id] = "part"]
      /\ UNCHANGED <<backend, rows, atoms, tip, stored, vacated>>
  BY DEF WriteFails
<1>2. op.id \in Ids /\ blob \in [Ids -> Bodies] /\ cut \in SUBSET Ids
  BY <1>1 DEF Inv, TypeInv, OpInv, Op
<1>3. op'.kind = "none" /\ op'.at = "done" /\ op'.id = 0 /\ op'.atom = NoAtom /\ op' \in Op
  BY <1>1, Constants DEF NoOp
<1>4. blob' \in [Ids -> Bodies] /\ \A j \in Ids \ {op.id} : blob'[j] = blob[j]
  BY <1>1, <1>2, Constants
<1>5. TypeInv'
  BY <1>1, <1>2, <1>3, <1>4 DEF Inv, TypeInv
<1>6. OpInv'
  BY <1>3 DEF OpInv
<1>7. WriteInv'
  BY <1>3 DEF WriteInv
<1>8. RowInv' /\ TipInv'
  BY <1>1 DEF Inv, RowInv, TipInv, Live
<1>9. FileInv'
  BY <1>1, <1>3, <1>4 DEF Inv, FileInv
<1> QED
  BY <1>5, <1>6, <1>7, <1>8, <1>9 DEF Inv

LEMMA DiesKeeps ==
  ASSUME Inv, Dies
  PROVE  Inv'
<1> DEFINE torn == [id |-> 0, atom |-> NoAtom]
<1>1. /\ op.at # "down" /\ op' = [NoOp EXCEPT !.at = "down"]
      /\ cut' = IF Idle THEN cut ELSE cut \cup {op.id}
      /\ \/ rows' = rows /\ blob' = blob
         \/ rows' = rows /\ op.at = "blob" /\ blob' = [blob EXCEPT ![op.id] = "part"]
         \/ rows' = Append(rows, torn) /\ backend = "jsonl" /\ blob' = blob
      /\ UNCHANGED <<backend, atoms, tip, stored, vacated>>
  BY DEF Dies
<1>2. /\ op \in Op /\ blob \in [Ids -> Bodies] /\ cut \in SUBSET Ids /\ rows \in Seq(Row)
      /\ Bare(rows) /\ (backend = "lance" => Once(rows))
  BY DEF Inv, TypeInv, RowInv
<1>3. /\ op'.kind = "none" /\ op'.at = "down" /\ op'.id = 0 /\ op'.atom = NoAtom /\ op' \in Op
  BY <1>1, Constants DEF NoOp, Op
<1>4. Idle \/ op.id \in Ids
  <2>1. op.kind = "none" => op.at = "done" /\ op.id = 0 /\ op.atom = NoAtom
    BY <1>1, <1>2 DEF Inv, OpInv
  <2>2. op.kind = "none" => op = NoOp
    BY <1>2, <2>1 DEF Op, NoOp
  <2> QED
    BY <2>2 DEF Inv, OpInv, Idle
<1>5. cut' \in SUBSET Ids /\ cut \subseteq cut' /\ (op.id \in Ids => op.id \in cut')
  BY <1>1, <1>2, <1>4, IdleOp, Constants
<1>6. /\ blob' \in [Ids -> Bodies] /\ \A j \in Ids \ {op.id} : blob'[j] = blob[j]
  BY <1>1, <1>2, Constants
<1>7. /\ rows' \in Seq(Row) /\ Bare(rows') /\ (backend = "lance" => Once(rows'))
      /\ \A b : \A j \in Ids : LoadedIn(rows', b, j) = LoadedIn(rows, b, j)
  <2>1. CASE rows' = rows
    BY <1>2, <2>1
  <2>2. CASE rows' = Append(rows, torn) /\ backend = "jsonl"
    <3>1. torn \in Row /\ torn.id = 0 /\ torn.atom = NoAtom /\ torn.atom.ref # "blob"
      BY Constants DEF Row
    <3> HIDE DEF torn
    <3>2. Wrote(rows', rows, torn.id, torn.atom)
      BY <1>2, <2>2, <3>1, Appended, Zenon
    <3>3. \A j \in Ids : j # torn.id
      BY <3>1, Constants
    <3>4. backend # "lance"
      BY <2>2
    <3> QED
      BY <3>2, <3>3, <3>4, Zenon DEF Wrote
  <2> QED
    BY <1>1, <2>1, <2>2
<1>8. TypeInv'
  BY <1>1, <1>3, <1>5, <1>6, <1>7 DEF Inv, TypeInv
<1>9. OpInv'
  BY <1>3 DEF OpInv
<1>10. WriteInv'
  BY <1>3 DEF WriteInv
<1>11. RowInv' /\ TipInv'
  BY <1>1, <1>7 DEF Inv, RowInv, TipInv, Live
<1>12. FileInv'
  <2> SUFFICES ASSUME NEW j \in Ids, j \notin cut'
               PROVE  LoadedIn(rows', blob'[j], j) = stored'[j]
    BY <1>3 DEF FileInv
  <2>1. j \in Ids \ (cut \cup {op.id})
    BY <1>5
  <2>2. LoadedIn(rows, blob[j], j) = stored[j]
    BY <2>1 DEF Inv, FileInv
  <2> QED
    BY <1>1, <1>6, <1>7, <2>1, <2>2
<1> QED
  BY <1>8, <1>9, <1>10, <1>11, <1>12 DEF Inv

LEMMA LoadKeeps ==
  ASSUME Inv, Load
  PROVE  Inv'
<1>1. /\ op.at = "down" /\ atoms' = [i \in Ids |-> Loaded(i)] /\ tip' = Newest(atoms')
      /\ vacated' = FALSE /\ op' = NoOp
      /\ UNCHANGED <<backend, rows, blob, stored, cut>>
  BY DEF Load
<1>2. op.id = 0 /\ rows \in Seq(Row) /\ blob \in [Ids -> Bodies]
  BY <1>1 DEF Inv, TypeInv, OpInv
<1>3. op'.kind = "none" /\ op'.at = "done" /\ op'.id = 0 /\ op'.atom = NoAtom /\ op' \in Op
  BY <1>1, Constants DEF NoOp
<1>4. \A i \in Ids : atoms'[i] = LoadedIn(rows, blob[i], i) /\ atoms'[i] \in Atom
  BY <1>1, <1>2, LoadedUnfolds, LoadedTyped
<1>5. atoms' \in [Ids -> Atom]
  BY <1>1, <1>4
<1>6. TipInv' /\ tip' \in Names
  <2>1. Newest(atoms') \in Live' \cup {0}
    BY <1>5, NewestFound DEF Live
  <2>2. Live' \subseteq Ids
    BY DEF Live
  <2> QED
    BY <1>1, <2>1, <2>2 DEF TipInv, Names
<1>7. TypeInv'
  BY <1>1, <1>3, <1>5, <1>6 DEF Inv, TypeInv
<1>8. OpInv'
  BY <1>3 DEF OpInv
<1>9. WriteInv' /\ RowInv'
  BY <1>1, <1>3 DEF Inv, WriteInv, RowInv
<1>10. FileInv'
  BY <1>1, <1>2, <1>3, <1>4, Constants DEF Inv, FileInv
<1> QED
  BY <1>6, <1>7, <1>8, <1>9, <1>10 DEF Inv

-----------------------------------------------------------------------------
(* The theorem                                                             *)

LEMMA InvNext == Inv /\ [Next]_vars => Inv'
<1> SUFFICES ASSUME Inv, [Next]_vars PROVE Inv'
  OBVIOUS
<1>1. CASE UNCHANGED vars
  BY <1>1 DEF vars, Inv, TypeInv, OpInv, WriteInv, Sure, RowInv, FileInv, TipInv, Live
<1>2. CASE \E i \in Ids, text \in Texts, ver \in Versions : PutBegin(i, text, ver)
  BY <1>2, PutBeginKeeps
<1>3. CASE \E i \in Ids : UpdateLinks(i) \/ DeleteBegin(i)
  BY <1>3, UpdateLinksKeeps, DeleteBeginKeeps
<1>4. CASE SpillBlob \/ AppendRow \/ UpsertRow \/ IndexPut
  BY <1>4, SpillBlobKeeps, AppendRowKeeps, UpsertRowKeeps, IndexPutKeeps
<1>5. CASE Compact \/ WriteFails \/ Dies \/ Load
  BY <1>5, CompactKeeps, WriteFailsKeeps, DiesKeeps, LoadKeeps
<1> QED
  BY <1>1, <1>2, <1>3, <1>4, <1>5 DEF Next

\* What a finished put, link update, delete or compaction of the atom stores did
\* is there after any death, the maps in memory are those a reload would build,
\* and the tip of the window is its newest summary.
THEOREM AtomsStayDurable == Spec => []AtomsDurable
<1>1. Inv => AtomsDurable
  BY InvGives
<1> QED
  BY InvInit, InvNext, <1>1, PTL DEF Spec
-----------------------------------------------------------------------------
(* Promotion: what is true of the atoms, the weave and the beat in hand    *)

Kinds == Pr!Weave \cup {"parcel"}
PlaceT == [beat : STRING, kind : Kinds, moment : Nat, text : STRING, prev : Nat, next : Nat,
           parent : Nat, parcels : Int, short : BOOLEAN]
WorkT == [at : {"put", "link", "parcel", "reconcile", "end"}, beat : Beats, split : BOOLEAN,
          id : Nat, done : Nat]

Places == DOMAIN store
Wv == {n \in Places : store[n].kind \in Pr!Weave}
Kids(p) == {n \in Places : store[n].parent = p}

\* Parents are put before their parcels, and moments never go back.
PlaceInv ==
  /\ store \in Seq(PlaceT)
  /\ \A n \in Places : /\ store[n].prev < n /\ store[n].parent < n
                       /\ store[n].kind = "parcel" <=> store[n].parent # 0
  /\ \A m, n \in Places : m < n => store[m].moment <= store[n].moment

\* A next link leads forward, and from the weave into the weave.
AheadInv ==
  \A n \in Places : \/ store[n].next = 0
                    \/ /\ store[n].next \in Places /\ n < store[n].next
                       /\ n \in Wv => store[n].next \in Wv

\* A woven atom follows the newest one that was woven before it.
ChainInv ==
  \A n \in Wv : /\ store[n].prev # 0 => store[n].prev \in Wv
                /\ \A m \in Wv : m < n => m <= store[n].prev

LinkInv ==
  \A n \in Wv : store[n].prev # 0 =>
    \/ store[store[n].prev].next = n \/ store[n].prev \in unlinked
    \/ work.at = "link" /\ work.id = n

\* What is about to be put has no atom yet.
OnceInv ==
  /\ \A m, n \in Wv : store[m].beat = store[n].beat => m = n
  /\ work.at = "put" => \A n \in Wv : store[n].beat # work.beat.name

BusyInv ==
  /\ work \in WorkT
  /\ \A n \in Places : store[n].moment <= work.beat.moment
  /\ Pr!AtomKind(work.beat) \in Pr!Weave
  /\ work.split => work.beat.chunks > 1
  /\ work.at \in {"put", "link"} => work.done = 0
  /\ work.at \in {"parcel", "reconcile"} => work.split
  /\ work.done <= work.beat.chunks - 1
  /\ work.at # "put" => work.id \in Wv /\ store[work.id].beat = work.beat.name
WorkInv == work = Pr!NoWork \/ BusyInv

\* The text of the atom in hand is as far as its parcels; every other is whole, or
\* says that it is short, or could not be told.
Mid(n) == work.at \in {"link", "parcel", "reconcile"} /\ n = work.id
Begun(n) ==
  /\ Cardinality(Kids(n)) = work.done
  /\ work.split => store[n].parcels = work.beat.chunks - 1
  /\ ~work.split => store[n].parcels = 0 /\ (store[n].short \/ work.beat.chunks = 1)
Entire(n) ==
  /\ store[n].parcels = Cardinality(Kids(n))
  /\ \E b \in Beats : b.name = store[n].beat /\ (store[n].short \/ Cardinality(Kids(n)) = b.chunks - 1)
TextInv ==
  /\ unmarked \subseteq Places
  /\ \A n \in Wv : /\ Mid(n) => Begun(n) /\ n \notin unmarked
                   /\ ~Mid(n) => n \in unmarked \/ Entire(n)

CountInv ==
  /\ toolAtoms \in Nat /\ offers \in Nat /\ offers <= PrMaxOffers
  /\ work # Pr!NoWork => toolAtoms + 1 <= offers
  /\ toolAtoms <= offers

PromoteInv ==
  PlaceInv /\ AheadInv /\ ChainInv /\ LinkInv /\ OnceInv /\ WorkInv /\ TextInv /\ CountInv

-----------------------------------------------------------------------------
(* Places, parcels and tails                                               *)

LEMMA PlaceFacts ==
  ASSUME store \in Seq(PlaceT)
  PROVE  /\ Len(store) \in Nat /\ Places = 1 .. Len(store) /\ Places \subseteq Nat
         /\ \A n \in Places : store[n] \in PlaceT /\ n \in Nat
BY DEF Places

LEMMA KidsCount ==
  ASSUME store \in Seq(PlaceT), NEW p
  PROVE  IsFiniteSet(Kids(p)) /\ Cardinality(Kids(p)) \in Nat /\ (Kids(p) = {} => Cardinality(Kids(p)) = 0)
<1>1. IsFiniteSet(1 .. Len(store))
  BY PlaceFacts, FS_Interval
<1>2. Kids(p) \subseteq 1 .. Len(store)
  BY PlaceFacts DEF Kids
<1>3. IsFiniteSet(Kids(p))
  BY <1>1, <1>2, FS_Subset
<1> QED
  BY <1>3, FS_CardinalityType, FS_EmptySet

LEMMA KidsAfterParent ==
  ASSUME PlaceInv, NEW p \in Nat, p # 0
  PROVE  \A k \in Kids(p) : p < k /\ k \notin Wv
BY PlaceFacts DEF PlaceInv, Kids, Wv, Pr!Weave, Places

\* Sequences of atoms, place by place.
LEMMA SeqOfPlaces ==
  ASSUME NEW n \in Nat, NEW f \in [1 .. n -> PlaceT]
  PROVE  f \in Seq(PlaceT)
BY SeqDef

LEMMA OneMore ==
  ASSUME store \in Seq(PlaceT), NEW x \in PlaceT
  PROVE  /\ Append(store, x) \in Seq(PlaceT) /\ DOMAIN Append(store, x) = 1 .. (Len(store) + 1)
         /\ Append(store, x)[Len(store) + 1] = x
         /\ \A n \in Places : Append(store, x)[n] = store[n]
<1>1. Len(store) \in Nat /\ Places = 1 .. Len(store)
  BY PlaceFacts
<1> DEFINE more == Append(store, x)
<1>2. more \in Seq(PlaceT) /\ Len(more) = Len(store) + 1 /\ DOMAIN more = 1 .. Len(more)
  OBVIOUS
<1>3. more[Len(store) + 1] = x /\ \A n \in Places : more[n] = store[n]
  BY <1>1
<1> QED
  BY <1>2, <1>3

WithNext(x, n)  == [x EXCEPT !.next = n]
WithCount(x, n) == [x EXCEPT !.parcels = n, !.short = TRUE]
WithEnd(x, n)   == [x EXCEPT !.parcels = n, !.next = 0, !.short = TRUE]
Core(x, y) ==
  /\ y.beat = x.beat /\ y.kind = x.kind /\ y.moment = x.moment
  /\ y.prev = x.prev /\ y.parent = x.parent

LEMMA NextSet ==
  ASSUME NEW x \in PlaceT, NEW n \in Nat
  PROVE  /\ WithNext(x, n) \in PlaceT /\ WithNext(x, n).next = n
         /\ Core(x, WithNext(x, n))
BY DEF PlaceT, WithNext, Core

LEMMA CountSet ==
  ASSUME NEW x \in PlaceT, NEW n \in Nat
  PROVE  /\ WithCount(x, n) \in PlaceT /\ WithCount(x, n).next = x.next
         /\ Core(x, WithCount(x, n))
         /\ WithCount(x, n).parcels = n /\ WithCount(x, n).short = TRUE
<1> DEFINE y == WithCount(x, n)
           z == [x EXCEPT !.parcels = n]
<1>1. /\ z \in PlaceT /\ z.next = x.next /\ Core(x, z) /\ z.parcels = n
  BY DEF PlaceT, Core
<1>2. y = [z EXCEPT !.short = TRUE]
  BY DEF PlaceT, WithCount
<1> HIDE DEF y, z
<1>3. /\ y \in PlaceT /\ y.next = z.next /\ Core(z, y)
      /\ y.parcels = z.parcels /\ y.short = TRUE
  BY <1>1, <1>2 DEF PlaceT, Core
<1>4. Core(x, y)
  BY <1>1, <1>3 DEF Core
<1> QED
  BY <1>1, <1>3, <1>4 DEF y

LEMMA EndSet ==
  ASSUME NEW x \in PlaceT, NEW n \in Nat
  PROVE  /\ WithEnd(x, n) \in PlaceT /\ WithEnd(x, n).next = 0
         /\ Core(x, WithEnd(x, n))
<1>1. WithCount(x, n) \in PlaceT /\ Core(x, WithCount(x, n))
  BY CountSet
<1>2. WithEnd(x, n) = WithNext(WithCount(x, n), 0)
  BY DEF PlaceT, WithEnd, WithNext, WithCount
<1>3. /\ WithNext(WithCount(x, n), 0) \in PlaceT /\ WithNext(WithCount(x, n), 0).next = 0
      /\ Core(WithCount(x, n), WithNext(WithCount(x, n), 0))
  BY <1>1, NextSet
<1>4. Core(x, WithEnd(x, n))
  BY <1>1, <1>2, <1>3 DEF Core
<1> QED
  BY <1>2, <1>3, <1>4

\* The parent counts its parcels, and is short; and its parcels are told.
Recount(s, p, n) == [s EXCEPT ![p].parcels = n, ![p].short = TRUE]
Retell(r, kids, n) == [k \in DOMAIN r |-> IF k \in kids THEN WithEnd(r[k], n) ELSE r[k]]

Recounted(r, p, n) ==
  /\ DOMAIN r = Places /\ r \in Seq(PlaceT)
  /\ \A k \in Places : /\ Core(store[k], r[k]) /\ r[k].next = store[k].next
                       /\ k # p => r[k] = store[k]
  /\ r[p].parcels = n /\ r[p].short = TRUE
Retold(q, r, kids) ==
  /\ DOMAIN q = Places /\ q \in Seq(PlaceT)
  /\ \A k \in Places : /\ Core(r[k], q[k]) /\ q[k].next \in {0, r[k].next}
                       /\ k \notin kids => q[k] = r[k]

LEMMA RecountIs ==
  ASSUME store \in Seq(PlaceT), NEW p \in Places, NEW n \in Nat
  PROVE  Recounted(Recount(store, p, n), p, n)
<1> DEFINE r == Recount(store, p, n)
<1>1. /\ Recount(store, p, n) = [k \in Places |-> IF k = p THEN WithCount(store[p], n) ELSE store[k]]
  BY DEF Recount, WithCount, Places
<1>2. /\ Places = 1 .. Len(store) /\ Len(store) \in Nat
      /\ \A k \in Places : store[k] \in PlaceT
  BY PlaceFacts
<1>3. r = [k \in Places |-> IF k = p THEN WithCount(store[p], n) ELSE store[k]]
  BY <1>1
<1> HIDE DEF r
<1>4. /\ WithCount(store[p], n) \in PlaceT /\ WithCount(store[p], n).next = store[p].next
      /\ Core(store[p], WithCount(store[p], n))
      /\ WithCount(store[p], n).parcels = n /\ WithCount(store[p], n).short = TRUE
  BY <1>2, CountSet
<1>5. \A k \in Places : r[k] = IF k = p THEN WithCount(store[p], n) ELSE store[k]
  BY <1>3
<1>6. r \in [1 .. Len(store) -> PlaceT]
  BY <1>2, <1>3, <1>4
<1>7. r \in Seq(PlaceT) /\ DOMAIN r = Places
  BY <1>2, <1>6, SeqOfPlaces
<1>8. \A k \in Places : Core(store[k], store[k])
  BY DEF Core
<1> QED
  BY <1>2, <1>4, <1>5, <1>7, <1>8 DEF Recounted, r

LEMMA RetellIs ==
  ASSUME store \in Seq(PlaceT), NEW r \in Seq(PlaceT), DOMAIN r = Places,
         NEW kids, NEW n \in Nat
  PROVE  Retold(Retell(r, kids, n), r, kids)
<1> DEFINE q == Retell(r, kids, n)
<1>1. q = [k \in Places |-> IF k \in kids THEN WithEnd(r[k], n) ELSE r[k]]
  BY DEF Retell
<1> HIDE DEF q
<1>2. /\ Places = 1 .. Len(store) /\ Len(store) \in Nat
      /\ \A k \in Places : r[k] \in PlaceT
  BY PlaceFacts
<1>3. \A k \in Places : /\ WithEnd(r[k], n) \in PlaceT /\ WithEnd(r[k], n).next = 0
                        /\ Core(r[k], WithEnd(r[k], n))
  BY <1>2, EndSet
<1>4. \A k \in Places : q[k] = IF k \in kids THEN WithEnd(r[k], n) ELSE r[k]
  BY <1>1
<1>5. q \in [1 .. Len(store) -> PlaceT]
  BY <1>1, <1>2, <1>3
<1>6. q \in Seq(PlaceT) /\ DOMAIN q = Places
  BY <1>2, <1>5, SeqOfPlaces
<1>7. \A k \in Places : Core(r[k], r[k])
  BY DEF Core
<1> QED
  BY <1>3, <1>4, <1>6, <1>7 DEF Retold, q

LEMMA WovenPlace ==
  ASSUME store \in Seq(PlaceT), NEW n \in Wv
  PROVE  n \in Places /\ n \in Nat /\ n # 0 /\ n <= Len(store) /\ store[n] \in PlaceT
<1>1. n \in Places
  BY DEF Wv
<1> QED
  BY <1>1, PlaceFacts

\* The beat in hand, a field or two of it changed.
AtLink(u, n) == [u EXCEPT !.at = "link", !.id = n]
LEMMA LinkSet ==
  ASSUME NEW u \in WorkT, NEW n \in Nat
  PROVE  /\ AtLink(u, n) \in WorkT /\ AtLink(u, n).at = "link" /\ AtLink(u, n).id = n
         /\ AtLink(u, n).beat = u.beat /\ AtLink(u, n).split = u.split
         /\ AtLink(u, n).done = u.done
<1> DEFINE z == [u EXCEPT !.at = "link"]
           w == AtLink(u, n)
<1>1. /\ z \in WorkT /\ z.at = "link" /\ z.beat = u.beat /\ z.split = u.split
      /\ z.done = u.done
  BY DEF WorkT
<1>2. w = [z EXCEPT !.id = n]
  BY DEF WorkT, AtLink
<1> HIDE DEF z, w
<1>3. /\ w \in WorkT /\ w.at = z.at /\ w.beat = z.beat /\ w.split = z.split
      /\ w.done = z.done /\ w.id = n
  BY <1>1, <1>2 DEF WorkT
<1>4. /\ w \in WorkT /\ w.at = "link" /\ w.beat = u.beat /\ w.split = u.split
      /\ w.done = u.done /\ w.id = n
  BY <1>1, <1>3
<1> QED
  BY <1>4 DEF w

LEMMA DoneSet ==
  ASSUME NEW u \in WorkT, NEW w, w = [u EXCEPT !.done = u.done + 1]
  PROVE  /\ w \in WorkT /\ w.at = u.at /\ w.beat = u.beat /\ w.split = u.split
         /\ w.done = u.done + 1 /\ w.id = u.id
<1>1. u.done + 1 \in Nat
  BY DEF WorkT
<1> QED
  BY <1>1 DEF WorkT

\* The tail of atoms of the weave of which the newest has no next link is that one.
LEMMA TailAt ==
  ASSUME NEW T \in SUBSET Nat, NEW top \in T, store[top].next = 0, \A k \in T : k <= top
  PROVE  Pr!TailOf(T) = top
<1> DEFINE ends == {n \in T : store[n].next = 0}
<1>1. top \in ends /\ ends \subseteq Nat /\ \A k \in ends : k <= top
  OBVIOUS
<1>2. Pr!Max(ends) = top
  <2>1. top \in ends /\ \A k \in ends : top >= k
    BY <1>1
  <2>2. \A k \in ends : (\A l \in ends : k >= l) => k = top
    BY <1>1
  <2> QED
    BY <2>1, <2>2 DEF Pr!Max
<1>3. ends # {}
  BY <1>1
<1> QED
  BY <1>2, <1>3 DEF Pr!TailOf

LEMMA NewestWoven ==
  ASSUME PlaceInv, Wv # {}
  PROVE  \E top \in Wv : \A k \in Wv : k <= top
<1>1. Len(store) \in Nat /\ Wv \in SUBSET (0 .. Len(store))
  BY PlaceFacts DEF Wv, PlaceInv
<1> QED
  BY <1>1, MaxIn

LEMMA TailIsNewest ==
  ASSUME PlaceInv, AheadInv, NEW m \in Nat, \A n \in Places : store[n].moment <= m
  PROVE  LET t == Pr!MomentTail(m)
         IN  (Wv = {} /\ t = 0) \/ (t \in Wv /\ \A k \in Wv : k <= t)
<1> DEFINE mine == {n \in Wv : store[n].moment = m}
<1>1. Pr!Woven({n \in Pr!All : store[n].moment = m}) = mine /\ Pr!Woven(Pr!All) = Wv
  BY DEF Pr!Woven, Pr!All, Wv, Places
<1>2. Pr!MomentTail(m) = IF mine # {} THEN Pr!TailOf(mine) ELSE Pr!TailOf(Wv)
  BY <1>1 DEF Pr!MomentTail
<1>3. CASE Wv = {}
  <2>1. Pr!TailOf({}) = 0
    BY DEF Pr!TailOf
  <2> QED
    BY <1>2, <1>3, <2>1
<1>4. CASE Wv # {}
  <2>1. PICK top \in Wv : \A k \in Wv : k <= top
    BY <1>4, NewestWoven
  <2>2. Wv \in SUBSET Nat /\ Wv \subseteq Places /\ \A n \in Places : store[n] \in PlaceT
    BY PlaceFacts DEF Wv, PlaceInv
  <2>3. store[top].next = 0
    BY <2>1, <2>2 DEF AheadInv, PlaceT
  <2>4. Pr!TailOf(Wv) = top
    BY <2>1, <2>2, <2>3, TailAt
  <2>5. ASSUME mine # {} PROVE Pr!TailOf(mine) = top
    <3>1. PICK k \in mine : TRUE
      BY <2>5
    <3>2. k <= top /\ k \in Places /\ top \in Places /\ k \in Nat /\ top \in Nat
      BY <2>1, <2>2
    <3>3. store[k].moment <= store[top].moment
      BY <2>2, <3>2 DEF PlaceInv, PlaceT
    <3>4. store[top].moment = m
      BY <2>2, <3>1, <3>2, <3>3 DEF PlaceT
    <3>5. top \in mine /\ mine \in SUBSET Nat /\ \A l \in mine : l <= top
      BY <2>1, <2>2, <3>4
    <3> QED
      BY <2>3, <3>5, TailAt
  <2> QED
    BY <1>2, <2>1, <2>4, <2>5
<1> QED
  BY <1>3, <1>4

-----------------------------------------------------------------------------
(* How a step changes the atoms                                            *)

\* Links and counts may change, the rest of an atom does not.
SameCore(n) ==
  /\ store'[n].beat = store[n].beat /\ store'[n].kind = store[n].kind
  /\ store'[n].moment = store[n].moment /\ store'[n].prev = store[n].prev
  /\ store'[n].parent = store[n].parent

LEMMA CoreKept ==
  ASSUME PlaceInv, ChainInv, store' \in Seq(PlaceT), DOMAIN store' = DOMAIN store,
         \A n \in Places : SameCore(n)
  PROVE  /\ PlaceInv' /\ ChainInv' /\ Places' = Places /\ Wv' = Wv
         /\ \A p : Kids(p)' = Kids(p)
<1>1. Places' = Places
  BY DEF Places
<1>2. Wv' = Wv
  BY <1>1 DEF Wv, SameCore
<1>3. \A p : Kids(p)' = Kids(p)
  <2> TAKE p
  <2>1. \A n : n \in Kids(p)' <=> n \in Kids(p)
    BY <1>1 DEF Kids, SameCore
  <2> QED
    BY <2>1
<1>4. PlaceInv'
  BY <1>1 DEF PlaceInv, SameCore
<1>5. ChainInv'
  BY <1>1, <1>2 DEF ChainInv, SameCore, Wv
<1> QED
  BY <1>1, <1>2, <1>3, <1>4, <1>5

\* One atom more, at the end.
LEMMA Grown ==
  ASSUME PlaceInv, NEW x \in PlaceT, store' \in Seq(PlaceT),
         DOMAIN store' = 1 .. (Len(store) + 1), \A n \in Places : SameCore(n),
         LET y == store'[Len(store) + 1]
         IN  /\ y.beat = x.beat /\ y.kind = x.kind /\ y.moment = x.moment
             /\ y.prev = x.prev /\ y.parent = x.parent,
         x.prev <= Len(store), x.parent <= Len(store), x.kind = "parcel" <=> x.parent # 0,
         \A n \in Places : store[n].moment <= x.moment
  PROVE  /\ PlaceInv'
         /\ Len(store) \in Nat /\ Len(store) + 1 \notin Places
         /\ Places' = Places \cup {Len(store) + 1}
         /\ Wv' = IF x.kind \in Pr!Weave THEN Wv \cup {Len(store) + 1} ELSE Wv
         /\ \A p : Kids(p)' = IF x.parent = p THEN Kids(p) \cup {Len(store) + 1} ELSE Kids(p)
         /\ \A n \in Places : n < Len(store) + 1
<1> DEFINE N == Len(store) + 1
<1>1. Len(store) \in Nat /\ Places = 1 .. Len(store) /\ N \notin Places
  BY PlaceFacts DEF PlaceInv
<1>2. Places' = Places \cup {N}
  BY <1>1 DEF Places
<1>3. Wv' = IF x.kind \in Pr!Weave THEN Wv \cup {N} ELSE Wv
  BY <1>1, <1>2 DEF Wv, SameCore
<1>4. \A p : Kids(p)' = IF x.parent = p THEN Kids(p) \cup {N} ELSE Kids(p)
  <2> TAKE p
  <2>1. \A n : n \in Kids(p)' <=> (n \in Kids(p) \/ (n = N /\ x.parent = p))
    BY <1>1, <1>2 DEF Kids, SameCore
  <2> QED
    BY <2>1
<1>5. \A n \in Places : n < N /\ n \in Nat
  BY <1>1
<1>6. \A n \in Places' : /\ store'[n].prev < n /\ store'[n].parent < n
                         /\ store'[n].kind = "parcel" <=> store'[n].parent # 0
  <2> TAKE n \in Places'
  <2>1. CASE n \in Places
    BY <2>1 DEF PlaceInv, SameCore
  <2>2. CASE n = N
    <3>1. x.prev \in Nat /\ x.parent \in Nat
      BY DEF PlaceT
    <3>2. /\ store'[N].prev = x.prev /\ store'[N].parent = x.parent
          /\ store'[N].kind = x.kind
      OBVIOUS
    <3>3. x.prev < N /\ x.parent < N
      BY <1>1, <3>1
    <3> HIDE DEF N
    <3> QED
      BY <2>2, <3>2, <3>3
  <2> QED
    BY <1>2, <2>1, <2>2
<1>7. \A k, n \in Places' : k < n => store'[k].moment <= store'[n].moment
  <2> TAKE k, n \in Places'
  <2>1. CASE n \in Places
    <3>1. k < n => k \in Places
      BY <1>1, <1>2, <1>5, <2>1
    <3> QED
      BY <2>1, <3>1 DEF PlaceInv, SameCore
  <2>2. CASE n = N
    <3>1. k < n => k \in Places
      BY <1>1, <1>2, <2>2
    <3> QED
      BY <2>2, <3>1 DEF SameCore
  <2> QED
    BY <1>2, <2>1, <2>2
<1> QED
  BY <1>1, <1>2, <1>3, <1>4, <1>5, <1>6, <1>7 DEF PlaceInv

-----------------------------------------------------------------------------
(* Each step keeps the invariant                                           *)

LEMMA StoreKept ==
  ASSUME PromoteInv, UNCHANGED store
  PROVE  /\ PlaceInv' /\ AheadInv' /\ ChainInv' /\ Places' = Places /\ Wv' = Wv
         /\ \A p : Kids(p)' = Kids(p)
BY DEF PromoteInv, PlaceInv, AheadInv, ChainInv, Places, Wv, Kids

LEMMA Busy ==
  ASSUME PromoteInv, work.at \in {"put", "link", "parcel", "reconcile", "end"}
  PROVE  BusyInv /\ work # Pr!NoWork /\ work.at # "idle"
<1>1. work # Pr!NoWork
  BY DEF Pr!NoWork
<1> QED
  BY <1>1 DEF PromoteInv, WorkInv

LEMMA BeatFacts ==
  ASSUME NEW b \in Beats
  PROVE  /\ b.chunks \in Nat /\ b.chunks >= 1 /\ b.moment \in Nat
         /\ b.name \in STRING /\ b.text \in STRING
<1>1. b \in [name : STRING, kind : STRING, moment : Nat, text : STRING,
             says : BOOLEAN, ok : BOOLEAN, chunks : Nat \ {0}]
  BY PromoteAssumption
<1>2. b.chunks \in Nat \ {0} /\ b.moment \in Nat /\ b.name \in STRING /\ b.text \in STRING
  BY <1>1
<1> QED
  BY <1>2

LEMMA MemorableIsNew ==
  ASSUME NEW b \in Beats, Pr!Memorable(b)
  PROVE  /\ \A n \in Wv : store[n].beat # b.name
         /\ Pr!AtomKind(b) \in Pr!Weave
<1>1. ~Pr!KeySeen(b) /\ Pr!AtomKind(b) \in Pr!Weave
  BY DEF Pr!Memorable, Pr!SpeakKept, Pr!LedgerKept, Pr!ModelKept, Pr!WakeKept,
         Pr!InterjectionKept, Pr!ViewKept, Pr!ToolKept, Pr!AtomKind, Pr!Weave
<1>2. \A n \in Wv : store[n].kind # "parcel"
  BY DEF Wv, Pr!Weave
<1> QED
  BY <1>1, <1>2 DEF Pr!KeySeen, Pr!All, Wv, Places

\* The atoms as they are, the text of each too.
LEMMA TextsKept ==
  ASSUME PromoteInv, UNCHANGED <<store, unmarked>>,
         \A n \in Wv : Mid(n) <=> Mid(n)',
         \A n \in Wv : Mid(n) => work'.done = work.done /\ work'.split = work.split
                                 /\ work'.beat = work.beat
  PROVE  TextInv'
<1>1. Places' = Places /\ Wv' = Wv /\ \A p : Kids(p)' = Kids(p)
  BY StoreKept
<1>2. \A n \in Wv : Mid(n) => (Begun(n) => Begun(n)')
  BY <1>1 DEF Begun
<1>3. \A n \in Wv : Entire(n) => Entire(n)'
  BY <1>1 DEF Entire
<1> QED
  BY <1>1, <1>2, <1>3 DEF TextInv, PromoteInv

LEMMA OfferKeeps ==
  ASSUME PromoteInv, NEW b \in Beats, Pr!Offer(b)
  PROVE  PromoteInv'
<1>0. /\ UNCHANGED <<store, toolAtoms, unlinked, unmarked>> /\ work = Pr!NoWork
      /\ offers < PrMaxOffers /\ offers' = offers + 1
      /\ \A n \in Places : store[n].moment <= b.moment
  BY DEF Pr!Offer, Pr!Idle, Pr!All, Places
<1>1. /\ PlaceInv' /\ AheadInv' /\ ChainInv' /\ Places' = Places /\ Wv' = Wv
      /\ \A p : Kids(p)' = Kids(p)
  BY <1>0, StoreKept
<1>2. work.at = "idle" /\ work'.at \in {"idle", "put"}
  BY <1>0 DEF Pr!Offer, Pr!NoWork
<1>3. LinkInv'
  BY <1>0, <1>1, <1>2 DEF LinkInv, PromoteInv
<1>4. TextInv'
  <2>1. \A n \in Wv : ~Mid(n) /\ ~Mid(n)'
    BY <1>2 DEF Mid
  <2> QED
    BY <1>0, <2>1, TextsKept
<1>5. CountInv'
  <2>1. toolAtoms \in Nat /\ offers \in Nat /\ toolAtoms <= offers
    BY DEF CountInv, PromoteInv
  <2>2. offers + 1 \in Nat /\ offers + 1 <= PrMaxOffers /\ toolAtoms + 1 <= offers + 1
    BY <1>0, <2>1, PromoteAssumption
  <2> QED
    BY <1>0, <2>1, <2>2 DEF CountInv
<1>6. CASE ~Pr!Memorable(b)
  <2>1. work' = Pr!NoWork
    BY <1>6 DEF Pr!Offer
  <2>2. WorkInv' /\ OnceInv'
    BY <1>0, <1>1, <2>1 DEF WorkInv, OnceInv, PromoteInv, Pr!NoWork
  <2> QED
    BY <1>1, <1>3, <1>4, <1>5, <2>2 DEF PromoteInv
<1>7. CASE Pr!Memorable(b)
  <2>1. work' = [at |-> "put", beat |-> b, split |-> b.chunks > 1, id |-> 0, done |-> 0]
    BY <1>7 DEF Pr!Offer
  <2>2. /\ \A n \in Wv : store[n].beat # b.name
        /\ Pr!AtomKind(b) \in Pr!Weave
    BY <1>7, MemorableIsNew
  <2>3. OnceInv'
    BY <1>0, <1>1, <2>1, <2>2 DEF OnceInv, PromoteInv
  <2>4. b.chunks \in Nat /\ b.chunks >= 1
    BY BeatFacts
  <2>5. /\ work'.at = "put" /\ work'.beat = b /\ (work'.split => b.chunks > 1)
        /\ work'.id = 0 /\ work'.done = 0 /\ work' \in WorkT
    <3>1. CASE b.chunks > 1
      <4>1. (b.chunks > 1) = TRUE
        BY <3>1
      <4>2. work' = [at |-> "put", beat |-> b, split |-> TRUE, id |-> 0, done |-> 0]
        BY <2>1, <4>1
      <4> QED
        BY <3>1, <4>2 DEF WorkT
    <3>2. CASE ~(b.chunks > 1)
      <4>1. (b.chunks > 1) = FALSE
        BY <3>2
      <4>2. work' = [at |-> "put", beat |-> b, split |-> FALSE, id |-> 0, done |-> 0]
        BY <2>1, <4>1
      <4> QED
        BY <4>2 DEF WorkT
    <3> QED
      BY <3>1, <3>2
  <2>6. Pr!AtomKind(work'.beat) \in Pr!Weave
    BY <2>2, <2>5
  <2>7. 0 <= b.chunks - 1 /\ \A n \in Places' : store'[n].moment <= b.moment
    BY <1>0, <1>1, <2>4
  <2>8. BusyInv'
    BY <2>5, <2>6, <2>7 DEF BusyInv, Pr!AtomKind
  <2> QED
    BY <1>1, <1>3, <1>4, <1>5, <2>3, <2>8 DEF PromoteInv, WorkInv
<1> QED
  BY <1>6, <1>7

LEMMA PutAtomKeeps ==
  ASSUME PromoteInv, Pr!PutAtom
  PROVE  PromoteInv'
<1>n. PICK N : N = Len(store) + 1
  OBVIOUS
<1> DEFINE b == work.beat
           tail0 == Pr!MomentTail(b.moment)
           x == [beat |-> b.name, kind |-> Pr!AtomKind(b), moment |-> b.moment, text |-> b.text,
                 prev |-> tail0, next |-> 0, parent |-> 0,
                 parcels |-> IF work.split THEN b.chunks - 1 ELSE 0,
                 short |-> ~work.split /\ b.chunks > 1]
<1>0. work.at = "put" /\ BusyInv /\ work # Pr!NoWork
  BY Busy DEF Pr!PutAtom
<1>1. /\ store' = Append(store, x) /\ work' = [work EXCEPT !.at = "link", !.id = N]
      /\ UNCHANGED <<toolAtoms, unlinked, unmarked, offers>>
  BY <1>n DEF Pr!PutAtom, Pr!Atom
<1>2. PlaceInv /\ AheadInv /\ ChainInv /\ LinkInv /\ OnceInv /\ TextInv /\ CountInv
  BY DEF PromoteInv
<1>3. /\ store \in Seq(PlaceT) /\ Len(store) \in Nat /\ Places = 1 .. Len(store)
      /\ \A n \in Places : store[n] \in PlaceT /\ n \in Nat
  BY <1>2, PlaceFacts DEF PlaceInv
<1>4. /\ b \in Beats /\ b.chunks \in Nat /\ b.chunks >= 1 /\ b.moment \in Nat
      /\ b.name \in STRING /\ b.text \in STRING /\ Pr!AtomKind(b) \in Pr!Weave
      /\ work.split \in BOOLEAN /\ work.done = 0 /\ (work.split => b.chunks > 1)
  <2>1. b \in Beats /\ work.split \in BOOLEAN
    BY <1>0 DEF BusyInv, WorkT
  <2> QED
    BY <1>0, <2>1, BeatFacts DEF BusyInv
<1>5. /\ (Wv = {} /\ tail0 = 0) \/ (tail0 \in Wv /\ \A k \in Wv : k <= tail0)
      /\ \A n \in Places : store[n].moment <= b.moment
  BY <1>0, <1>2, <1>4, TailIsNewest DEF BusyInv
<1>6. tail0 \in Nat /\ tail0 <= Len(store) /\ (tail0 # 0 => tail0 \in Wv)
  BY <1>3, <1>5 DEF Wv
<1> HIDE DEF b, tail0
<1>7. x \in PlaceT /\ x.kind \in Pr!Weave
  BY <1>4, <1>6 DEF PlaceT, Kinds
<1>8. /\ store' \in Seq(PlaceT) /\ DOMAIN store' = 1 .. N /\ store'[N] = x
      /\ \A n \in Places : store'[n] = store[n]
  <2> HIDE DEF x
  <2> QED
    BY <1>n, <1>1, <1>3, <1>7, OneMore
<1>9. /\ PlaceInv' /\ N \notin Places /\ Places' = Places \cup {N}
      /\ Wv' = Wv \cup {N} /\ \A n \in Places : n < N
      /\ \A p : Kids(p)' = IF 0 = p THEN Kids(p) \cup {N} ELSE Kids(p)
  <2>1. \A n \in Places : SameCore(n)
    BY <1>8 DEF SameCore
  <2>2. /\ x.prev <= Len(store) /\ x.parent <= Len(store) /\ x.parent = 0
        /\ x.kind # "parcel" /\ \A n \in Places : store[n].moment <= x.moment
    BY <1>3, <1>4, <1>5, <1>6 DEF Pr!Weave
  <2> HIDE DEF x
  <2> QED
    BY <1>n, <1>2, <1>7, <1>8, <2>1, <2>2, Grown
<1>10. Wv \subseteq Places /\ N \notin Wv
  BY <1>9 DEF Wv
<1>11. store'[N].next = 0 /\ store'[N].prev = tail0 /\ store'[N].beat = b.name
       /\ store'[N].parcels = (IF work.split THEN b.chunks - 1 ELSE 0)
       /\ store'[N].short = (~work.split /\ b.chunks > 1)
  BY <1>8
<1> HIDE DEF x
<1>12. AheadInv'
  BY <1>2, <1>8, <1>9, <1>10, <1>11 DEF AheadInv
<1>13. ChainInv'
  <2> SUFFICES ASSUME NEW n \in Wv'
               PROVE  /\ store'[n].prev # 0 => store'[n].prev \in Wv'
                      /\ \A m \in Wv' : m < n => m <= store'[n].prev
    BY DEF ChainInv
  <2>1. CASE n \in Wv
    <3>1. store'[n].prev = store[n].prev /\ ~(N < n)
      BY <1>n, <1>3, <1>8, <1>9, <1>10, <2>1
    <3> QED
      BY <1>2, <1>9, <2>1, <3>1 DEF ChainInv
  <2>2. CASE n = N
    <3>1. ~(N < N)
      BY <1>n, <1>3
    <3> QED
      BY <1>5, <1>6, <1>9, <1>11, <2>2, <3>1
  <2> QED
    BY <1>9, <2>1, <2>2
<1>14. work'.at = "link" /\ work'.id = N /\ work'.beat = b /\ work'.split = work.split
       /\ work'.done = 0 /\ work' \in WorkT
  <2>1. work \in WorkT /\ N \in Nat
    BY <1>n, <1>0, <1>3 DEF BusyInv
  <2> QED
    <3>1. work' = AtLink(work, N)
      BY <1>1 DEF AtLink
    <3> QED
      BY <1>4, <2>1, <3>1, LinkSet DEF b
<1>15. LinkInv'
  <2> SUFFICES ASSUME NEW n \in Wv', store'[n].prev # 0, n # N
               PROVE  store'[store'[n].prev].next = n \/ store'[n].prev \in unlinked'
    BY <1>14 DEF LinkInv
  <2>1. n \in Wv /\ store'[n].prev = store[n].prev
    BY <1>8, <1>9, <1>10
  <2>2. store[n].prev \in Places
    BY <1>2, <1>10, <2>1 DEF ChainInv
  <2>3. store[store[n].prev].next = n \/ store[n].prev \in unlinked
    BY <1>0, <1>2, <2>1 DEF LinkInv
  <2> QED
    BY <1>1, <1>8, <2>1, <2>2, <2>3
<1>16. OnceInv'
  <2>1. \A n \in Wv : store'[n].beat = store[n].beat /\ store[n].beat # b.name
    BY <1>0, <1>2, <1>8, <1>10 DEF OnceInv, b
  <2>2. \A m, n \in Wv' : store'[m].beat = store'[n].beat => m = n
    BY <1>2, <1>9, <1>11, <2>1 DEF OnceInv
  <2> QED
    BY <1>14, <2>2 DEF OnceInv
<1>17. BusyInv'
  <2>1. \A n \in Places' : store'[n].moment <= b.moment
    <3>1. store'[N].moment = b.moment
      BY <1>8 DEF x
    <3> QED
      BY <1>4, <1>5, <1>8, <1>9, <3>1
  <2>2. Pr!AtomKind(work'.beat) \in Pr!Weave
    BY <1>4, <1>14
  <2>3. N \in Wv' /\ store'[N].beat = b.name /\ 0 <= b.chunks - 1
    BY <1>4, <1>9, <1>11
  <2> QED
    BY <1>4, <1>14, <2>1, <2>2, <2>3 DEF BusyInv, Pr!AtomKind
<1>18. TextInv'
  <2>1. unmarked' \subseteq Places'
    BY <1>1, <1>2, <1>9 DEF TextInv
  <2>2. \A n \in Wv : ~Mid(n) /\ ~Mid(n)'
    BY <1>0, <1>10, <1>14 DEF Mid
  <2>3. \A n \in Wv : Entire(n) => Entire(n)'
    <3> TAKE n \in Wv
    <3>1. Kids(n)' = Kids(n) /\ store'[n] = store[n]
      BY <1>3, <1>8, <1>9, <1>10
    <3> QED
      BY <3>1 DEF Entire
  <2>4. Mid(N)' /\ N \notin unmarked'
    BY <1>1, <1>2, <1>9, <1>14 DEF Mid, TextInv
  <2>5. Begun(N)'
    <3>1. Kids(N) = {}
      <4> SUFFICES ASSUME NEW k \in Places, store[k].parent = N PROVE FALSE
        BY DEF Kids
      <4>1. store[k].parent < k /\ k < N
        BY <1>2, <1>9 DEF PlaceInv
      <4> QED
        BY <1>n, <1>3, <4>1
    <3>2. Kids(N)' = {}
      <4>1. N # 0
        BY <1>n, <1>3
      <4> QED
        BY <1>9, <3>1, <4>1
    <3>3. Cardinality(Kids(N)') = 0
      BY <3>2, FS_EmptySet
    <3>4. /\ work.split => store'[N].parcels = b.chunks - 1
          /\ ~work.split => store'[N].parcels = 0
      BY <1>11
    <3>5. ASSUME ~work.split, b.chunks # 1 PROVE store'[N].short
      <4>1. (~work.split /\ b.chunks > 1) = TRUE
        BY <1>4, <3>5
      <4> QED
        BY <1>11, <4>1
    <3> QED
      BY <1>14, <3>3, <3>4, <3>5 DEF Begun
  <2>6. \A n \in Wv : n \in unmarked' \/ Entire(n)'
    BY <1>1, <1>2, <2>2, <2>3 DEF TextInv
  <2> QED
    BY <1>9, <2>1, <2>2, <2>4, <2>5, <2>6 DEF TextInv
<1>19. CountInv'
  BY <1>0, <1>1, <1>2 DEF CountInv
<1> QED
  BY <1>9, <1>12, <1>13, <1>15, <1>16, <1>17, <1>18, <1>19 DEF PromoteInv, WorkInv

LEMMA PutFailsKeeps ==
  ASSUME PromoteInv, Pr!PutFails
  PROVE  PromoteInv'
<1>0. work.at = "put" /\ BusyInv /\ work # Pr!NoWork
  BY Busy DEF Pr!PutFails
<1>1. /\ UNCHANGED <<store, toolAtoms, unlinked, unmarked, offers>>
      /\ work' = IF work.split THEN [work EXCEPT !.split = FALSE] ELSE Pr!NoWork
  BY DEF Pr!PutFails
<1>2. /\ PlaceInv' /\ AheadInv' /\ ChainInv' /\ Places' = Places /\ Wv' = Wv
  BY <1>1, StoreKept
<1>3. work'.at \in {"put", "idle"} /\ (work'.at = "put" => work'.beat = work.beat)
  BY <1>0, <1>1 DEF BusyInv, WorkT, Pr!NoWork
<1>4. LinkInv' /\ OnceInv'
  BY <1>0, <1>1, <1>2, <1>3 DEF LinkInv, OnceInv, PromoteInv
<1>5. TextInv'
  <2>1. \A n \in Wv : ~Mid(n) /\ ~Mid(n)'
    BY <1>0, <1>3 DEF Mid
  <2> QED
    BY <1>1, <2>1, TextsKept
<1>6. WorkInv'
  <2>1. CASE work.split
    <3>1. /\ work'.at = "put" /\ work'.beat = work.beat /\ work'.split = FALSE
          /\ work'.done = work.done /\ work' \in WorkT
      BY <1>0, <1>1, <2>1 DEF BusyInv, WorkT
    <3>2. BusyInv'
      BY <1>0, <1>1, <1>2, <3>1 DEF BusyInv, Pr!AtomKind
    <3> QED
      BY <3>2 DEF WorkInv
  <2>2. CASE ~work.split
    BY <1>1, <2>2 DEF WorkInv
  <2> QED
    BY <2>1, <2>2
<1>7. CountInv'
  BY <1>0, <1>1 DEF CountInv, PromoteInv
<1> QED
  BY <1>2, <1>4, <1>5, <1>6, <1>7 DEF PromoteInv

LEMMA PrevUnique ==
  ASSUME PlaceInv, ChainInv, NEW m \in Wv, NEW n \in Wv, store[m].prev = store[n].prev
  PROVE  m = n
<1>1. m \in Nat /\ n \in Nat /\ store[m].prev \in Nat /\ m \in Places /\ n \in Places
  BY PlaceFacts DEF PlaceInv, PlaceT, Wv
<1>2. store[m].prev < m /\ store[n].prev < n
  BY <1>1 DEF PlaceInv
<1> QED
  BY <1>1, <1>2 DEF ChainInv

\* A weave is finished: what was split goes on with its parcels, the rest is whole.
LEMMA LinkedText ==
  ASSUME PromoteInv, work.at = "link", work' = Pr!AfterLink(work), UNCHANGED unmarked,
         Places' = Places, Wv' = Wv, \A p : Kids(p)' = Kids(p),
         \A n \in Wv : store'[n].parcels = store[n].parcels /\ store'[n].short = store[n].short
                       /\ store'[n].beat = store[n].beat
  PROVE  TextInv'
<1>1. BusyInv
  BY Busy
<1>2. /\ work.id \in Wv /\ store[work.id].beat = work.beat.name /\ work.done = 0
      /\ work.beat \in Beats /\ work.split \in BOOLEAN /\ work.beat.chunks \in Nat
      /\ work \in WorkT
  <2>1. work \in WorkT
    BY <1>1 DEF BusyInv
  <2>2. work.beat \in Beats /\ work.split \in BOOLEAN
    BY <2>1 DEF WorkT
  <2> QED
    BY <1>1, <2>1, <2>2, BeatFacts DEF BusyInv
<1>3. /\ work'.at = (IF work.split THEN "parcel" ELSE "end") /\ work'.done = work.done
      /\ work'.id = work.id /\ work'.split = work.split /\ work'.beat = work.beat
  BY <1>2 DEF Pr!AfterLink, WorkT
<1>4. \A n \in Wv : (n = work.id <=> Mid(n)) /\ (Mid(n)' <=> (n = work.id /\ work.split))
  BY <1>3 DEF Mid
<1>5. \A n \in Wv : Entire(n) => Entire(n)'
  BY DEF Entire
<1>6. \A n \in Wv : n = work.id => Begun(n) /\ n \notin unmarked
  BY <1>4 DEF PromoteInv, TextInv
<1>7. /\ \A n \in Wv : n # work.id => n \in unmarked \/ Entire(n)'
      /\ unmarked \subseteq Places
  BY <1>4, <1>5 DEF PromoteInv, TextInv
<1>8. CASE work.split
  <2>1. \A n \in Wv : n = work.id => Begun(n)'
    BY <1>2, <1>3, <1>6 DEF Begun
  <2> QED
    BY <1>2, <1>3, <1>4, <1>6, <1>7, <1>8, <2>1 DEF TextInv
<1>9. CASE ~work.split
  <2>1. ASSUME NEW n \in Wv, n = work.id PROVE Entire(n)'
    <3>1. /\ store[n].parcels = 0 /\ Cardinality(Kids(n)) = 0
          /\ (store[n].short \/ 0 = work.beat.chunks - 1)
      BY <1>2, <1>6, <1>9, <2>1 DEF Begun
    <3> QED
      BY <1>2, <2>1, <3>1 DEF Entire
  <2> QED
    BY <1>2, <1>4, <1>6, <1>7, <1>9, <2>1 DEF TextInv
<1> QED
  BY <1>8, <1>9

LEMMA LinkKeeps ==
  ASSUME PromoteInv, Pr!Link
  PROVE  PromoteInv'
<1> DEFINE id == work.id
           p  == store[id].prev
<1>0. work.at = "link" /\ BusyInv /\ work # Pr!NoWork
  BY Busy DEF Pr!Link
<1>1. PlaceInv /\ AheadInv /\ ChainInv /\ LinkInv /\ OnceInv /\ TextInv /\ CountInv
  BY DEF PromoteInv
<1>2. UNCHANGED <<toolAtoms, unmarked, offers>> /\ work' = Pr!AfterLink(work)
  BY DEF Pr!Link
<1>3. id \in Wv /\ id \in Places /\ work \in WorkT
      /\ \A n \in Places : store[n] \in PlaceT /\ n \in Nat
  BY <1>0, <1>1, PlaceFacts DEF BusyInv, Wv, PlaceInv
<1>4. p \in Nat /\ (p # 0 => p \in Wv /\ p \in Places /\ p < id)
  BY <1>1, <1>3 DEF PlaceT, ChainInv, Wv, PlaceInv
<1>5. /\ work'.at = (IF work.split THEN "parcel" ELSE "end") /\ work'.done = work.done
      /\ work'.id = work.id /\ work'.split = work.split /\ work'.beat = work.beat
      /\ work' \in WorkT /\ work' # Pr!NoWork
  <2>1. /\ work'.at = (IF work.split THEN "parcel" ELSE "end") /\ work'.done = work.done
        /\ work'.id = work.id /\ work'.split = work.split /\ work'.beat = work.beat
        /\ work' \in WorkT
    BY <1>2, <1>3 DEF Pr!AfterLink, WorkT
  <2>2. work'.at # "idle"
    BY <2>1
  <2> QED
    BY <2>1, <2>2 DEF Pr!NoWork
<1> HIDE DEF p, id
<1>6. \/ p = 0 /\ UNCHANGED <<store, unlinked>>
      \/ p # 0 /\ store' = [store EXCEPT ![p].next = id] /\ UNCHANGED unlinked
      \/ p # 0 /\ unlinked' = unlinked \cup {p} /\ UNCHANGED store
  BY DEF Pr!Link, p, id
<1>7. /\ PlaceInv' /\ ChainInv' /\ Places' = Places /\ Wv' = Wv /\ \A q : Kids(q)' = Kids(q)
      /\ AheadInv' /\ LinkInv'
      /\ \A n \in Places : /\ store'[n].parcels = store[n].parcels /\ store'[n].short = store[n].short
                           /\ store'[n].beat = store[n].beat /\ store'[n].moment = store[n].moment
  <2>1. CASE p = 0 /\ UNCHANGED <<store, unlinked>>
    <3>1. /\ PlaceInv' /\ AheadInv' /\ ChainInv' /\ Places' = Places /\ Wv' = Wv
          /\ \A q : Kids(q)' = Kids(q)
      BY <2>1, StoreKept
    <3>2. LinkInv'
      BY <1>1, <2>1, <3>1 DEF LinkInv, p, id
    <3> QED
      BY <2>1, <3>1, <3>2
  <2>2. CASE p # 0 /\ store' = [store EXCEPT ![p].next = id] /\ UNCHANGED unlinked
    <3>1. DOMAIN store' = DOMAIN store /\ store' \in Seq(PlaceT)
      <4>1. [store[p] EXCEPT !.next = id] \in PlaceT
        BY <1>3, <1>4, <2>2 DEF PlaceT
      <4>2. store' = [store EXCEPT ![p] = [store[p] EXCEPT !.next = id]]
        BY <2>2
      <4> QED
        BY <1>1, <1>4, <2>2, <4>1, <4>2 DEF PlaceInv, Places
    <3>2. \A n \in Places : store'[n] = IF n = p THEN [store[n] EXCEPT !.next = id] ELSE store[n]
      BY <2>2 DEF Places
    <3>3. \A n \in Places : /\ SameCore(n) /\ store'[n].next = IF n = p THEN id ELSE store[n].next
                            /\ store'[n].parcels = store[n].parcels
                            /\ store'[n].short = store[n].short
      BY <1>3, <3>2 DEF SameCore, PlaceT
    <3>4. /\ PlaceInv' /\ ChainInv' /\ Places' = Places /\ Wv' = Wv
          /\ \A q : Kids(q)' = Kids(q)
      BY <1>1, <3>1, <3>3, CoreKept
    <3>5. AheadInv'
      BY <1>1, <1>3, <1>4, <2>2, <3>3, <3>4 DEF AheadInv
    <3>6. LinkInv'
      <4> SUFFICES ASSUME NEW n \in Wv, store[n].prev # 0
                   PROVE  store'[store[n].prev].next = n \/ store[n].prev \in unlinked
        BY <2>2, <3>3, <3>4 DEF LinkInv, SameCore, Wv
      <4>1. store[n].prev \in Places
        BY <1>1 DEF ChainInv, Wv
      <4>2. CASE n = id
        BY <3>3, <4>1, <4>2 DEF p
      <4>3. CASE n # id
        <5>1. store[n].prev # p
          BY <1>1, <1>3, <4>3, PrevUnique DEF p
        <5>2. store[store[n].prev].next = n \/ store[n].prev \in unlinked
          BY <1>1, <4>3 DEF LinkInv, id
        <5> QED
          BY <3>3, <4>1, <5>1, <5>2
      <4> QED
        BY <4>2, <4>3
    <3> QED
      BY <3>3, <3>4, <3>5, <3>6 DEF SameCore
  <2>3. CASE p # 0 /\ unlinked' = unlinked \cup {p} /\ UNCHANGED store
    <3>1. /\ PlaceInv' /\ AheadInv' /\ ChainInv' /\ Places' = Places /\ Wv' = Wv
          /\ \A q : Kids(q)' = Kids(q)
      BY <2>3, StoreKept
    <3>2. LinkInv'
      BY <1>1, <2>3, <3>1 DEF LinkInv, p, id
    <3> QED
      BY <2>3, <3>1, <3>2
  <2> QED
    BY <1>6, <2>1, <2>2, <2>3
<1>8. Wv \subseteq Places
  BY DEF Wv
<1>9. TextInv'
  BY <1>0, <1>2, <1>7, <1>8, LinkedText
<1>10. OnceInv'
  BY <1>1, <1>5, <1>7, <1>8 DEF OnceInv
<1>11. BusyInv'
  BY <1>0, <1>3, <1>5, <1>7, <1>8 DEF BusyInv, Pr!AtomKind, id
<1>12. CountInv'
  BY <1>0, <1>1, <1>2 DEF CountInv
<1> QED
  BY <1>7, <1>9, <1>10, <1>11, <1>12 DEF PromoteInv, WorkInv

\* The parcel before the new one leads to it.
Led(more, last, n) == IF last = 0 THEN more ELSE [more EXCEPT ![last].next = n]

\* A parcel is put, and the one before it led to it, or not.
ParcelPut(id, N, last, more) ==
  /\ id = work.id /\ N = Len(store) + 1
  /\ last = IF work.done = 0 THEN 0 ELSE Pr!Max(Kids(id))
  /\ more = Append(store, Pr!Atom(work.beat, "parcel", last, id, work.beat.chunks - 1, FALSE))
  /\ store' = Led(more, last, N) \/ store' = more

ParcelGain(id, N, last) ==
  /\ PlaceInv' /\ AheadInv' /\ N \notin Places /\ N \in Nat /\ Places' = Places \cup {N}
  /\ Wv' = Wv /\ Wv \subseteq Places /\ last \notin Wv
  /\ store'[N].moment = work.beat.moment
  /\ \A p : Kids(p)' = IF id = p THEN Kids(p) \cup {N} ELSE Kids(p)
  /\ \A n \in Places : SameCore(n)
  /\ \A n \in Wv : store'[n] = store[n]

LEMMA ParcelStored ==
  ASSUME PromoteInv, work.at = "parcel", work.done < work.beat.chunks - 1,
         NEW id, NEW N, NEW last, NEW more, ParcelPut(id, N, last, more)
  PROVE  ParcelGain(id, N, last)
<1>p. /\ id = work.id /\ N = Len(store) + 1
      /\ last = IF work.done = 0 THEN 0 ELSE Pr!Max(Kids(id))
      /\ more = Append(store, Pr!Atom(work.beat, "parcel", last, id, work.beat.chunks - 1, FALSE))
      /\ store' = Led(more, last, N) \/ store' = more
  BY DEF ParcelPut
<1> DEFINE b == work.beat
           x == [beat |-> b.name, kind |-> "parcel", moment |-> b.moment, text |-> b.text,
                 prev |-> last, next |-> 0, parent |-> id, parcels |-> b.chunks - 1,
                 short |-> FALSE]
<1>0. BusyInv /\ PlaceInv /\ AheadInv /\ TextInv
  BY Busy DEF PromoteInv
<1>1. more = Append(store, x)
  BY <1>p DEF Pr!Atom
<1>2. /\ store \in Seq(PlaceT) /\ Len(store) \in Nat /\ Places = 1 .. Len(store)
      /\ \A n \in Places : store[n] \in PlaceT /\ n \in Nat
  BY <1>0, PlaceFacts DEF PlaceInv
<1>3. /\ b \in Beats /\ b.chunks \in Nat /\ b.moment \in Nat /\ b.name \in STRING
      /\ b.text \in STRING /\ id \in Wv /\ id \in Places /\ id \in Nat /\ id # 0
      /\ work.done \in Nat /\ \A n \in Places : store[n].moment <= b.moment
  <2>1. b \in Beats /\ work.done \in Nat
    BY <1>0 DEF BusyInv, WorkT
  <2>2. id \in Wv /\ id \in Places
    BY <1>p, <1>0 DEF BusyInv, Wv
  <2> QED
    BY <1>0, <1>2, <2>1, <2>2, BeatFacts DEF BusyInv
<1>4. last = 0 \/ (last \in Kids(id) /\ last \in Places)
  <2> SUFFICES ASSUME work.done # 0 PROVE last \in Kids(id) /\ last \in Places
    BY <1>p
  <2>1. Cardinality(Kids(id)) = work.done
    <3>1. Mid(id)
      BY <1>p DEF Mid
    <3>2. Begun(id)
      BY <1>0, <1>3, <3>1 DEF TextInv
    <3> QED
      BY <3>2 DEF Begun
  <2>2. Kids(id) # {} /\ Kids(id) \in SUBSET (0 .. Len(store))
    <3>1. Kids(id) # {}
      BY <1>2, <2>1, KidsCount
    <3>2. Kids(id) \subseteq Places
      BY DEF Kids
    <3> QED
      BY <1>2, <3>1, <3>2
  <2>3. Max(Kids(id)) \in Kids(id)
    BY <1>2, <2>2, MaxIn
  <2>4. Pr!Max(Kids(id)) = Max(Kids(id))
    BY DEF Pr!Max, Max
  <2> QED
    BY <1>p, <2>3, <2>4 DEF Kids
<1>5. last \in Nat /\ last <= Len(store) /\ last \notin Wv
  <2>1. last \notin Wv
    BY <1>0, <1>2, <1>3, <1>4, KidsAfterParent DEF Wv
  <2> QED
    BY <1>2, <1>4, <2>1
<1> HIDE DEF b
<1>6. x \in PlaceT /\ x.kind \notin Pr!Weave
  <2>1. b.chunks - 1 \in Int
    BY <1>3
  <2> QED
    BY <1>3, <1>5, <2>1 DEF PlaceT, Kinds, Pr!Weave
<1> HIDE DEF x
<1>7. /\ more \in Seq(PlaceT) /\ DOMAIN more = 1 .. N /\ more[N] = x
      /\ \A n \in Places : more[n] = store[n]
  <2>1. /\ Append(store, x) \in Seq(PlaceT) /\ DOMAIN Append(store, x) = 1 .. (Len(store) + 1)
        /\ Append(store, x)[Len(store) + 1] = x
        /\ \A n \in Places : Append(store, x)[n] = store[n]
    BY <1>2, <1>6, OneMore
  <2> QED
    BY <1>p, <1>1, <2>1
<1>8. /\ store' \in Seq(PlaceT) /\ DOMAIN store' = 1 .. N /\ store'[N] = x
      /\ \A n \in Places : \/ store'[n] = store[n]
                           \/ n = last /\ store'[n] = WithNext(store[n], N)
  <2>1. CASE store' = more
    BY <1>7, <2>1
  <2>2. CASE last # 0 /\ store' = [more EXCEPT ![last].next = N]
    <3>1. last \in 1 .. N /\ last # N /\ last \in Places
      BY <1>p, <1>2, <1>4, <2>2
    <3>2. N \in Nat /\ N \in 1 .. N /\ Places \subseteq 1 .. N
      BY <1>p, <1>2
    <3>3. more[last] = store[last] /\ store[last] \in PlaceT
      BY <1>2, <1>7, <3>1
    <3>4. WithNext(store[last], N) \in PlaceT
      BY <3>2, <3>3, NextSet
    <3>5. store' = [more EXCEPT ![last] = WithNext(store[last], N)]
      BY <2>2, <3>3 DEF WithNext
    <3>6. /\ DOMAIN store' = 1 .. N /\ store' = [n \in 1 .. N |-> store'[n]]
          /\ \A n \in 1 .. N : store'[n] = IF n = last THEN WithNext(store[last], N) ELSE more[n]
      BY <1>7, <3>5
    <3>7. \A n \in 1 .. N : more[n] \in PlaceT
      <4>1. \A n \in 1 .. N : n = N \/ n \in Places
        BY <1>p, <1>2
      <4> QED
        BY <1>2, <1>6, <1>7, <4>1
    <3>8. store' \in [1 .. N -> PlaceT]
      BY <3>4, <3>6, <3>7
    <3>9. store' \in Seq(PlaceT)
      BY <3>2, <3>8, SeqOfPlaces
    <3> QED
      BY <1>7, <3>1, <3>2, <3>6, <3>9
  <2> QED
    BY <1>p, <2>1, <2>2 DEF Led
<1>9. \A n \in Places : SameCore(n) /\ (store'[n].next = store[n].next \/ (n = last /\ store'[n].next = N))
  <2> TAKE n \in Places
  <2>1. store[n] \in PlaceT /\ N \in Nat
    BY <1>p, <1>2
  <2>2. Core(store[n], WithNext(store[n], N)) /\ WithNext(store[n], N).next = N
    BY <2>1, NextSet
  <2>3. CASE store'[n] = store[n]
    BY <2>3 DEF SameCore
  <2>4. CASE n = last /\ store'[n] = WithNext(store[n], N)
    BY <2>2, <2>4 DEF SameCore, Core
  <2> QED
    BY <1>8, <2>3, <2>4
<1>10. /\ PlaceInv' /\ N \notin Places /\ N \in Nat /\ Places' = Places \cup {N}
       /\ Wv' = Wv /\ \A n \in Places : n < N
       /\ \A p : Kids(p)' = IF id = p THEN Kids(p) \cup {N} ELSE Kids(p)
  <2>1. /\ x.prev <= Len(store) /\ x.parent <= Len(store) /\ x.parent = id /\ x.parent # 0
        /\ x.kind = "parcel" /\ \A n \in Places : store[n].moment <= x.moment
    BY <1>2, <1>3, <1>5 DEF x
  <2> QED
    BY <1>p, <1>0, <1>2, <1>6, <1>8, <1>9, <2>1, Grown
<1>11. store'[N].next = 0 /\ store'[N].moment = b.moment
  BY <1>8 DEF x
<1>12. AheadInv'
  <2> SUFFICES ASSUME NEW n \in Places'
               PROVE  \/ store'[n].next = 0
                      \/ /\ store'[n].next \in Places' /\ n < store'[n].next
                         /\ n \in Wv' => store'[n].next \in Wv'
    BY DEF AheadInv
  <2>1. CASE n = N
    BY <1>11, <2>1
  <2>2. CASE n \in Places /\ store'[n].next = store[n].next
    BY <1>0, <1>10, <2>2 DEF AheadInv
  <2>3. CASE n \in Places /\ n = last /\ store'[n].next = N
    BY <1>5, <1>10, <2>3
  <2> QED
    BY <1>9, <1>10, <2>1, <2>2, <2>3
<1>13. \A n \in Wv : store'[n] = store[n]
  BY <1>5, <1>8 DEF Wv
<1>14. Wv \subseteq Places
  BY DEF Wv
<1> QED
  BY <1>5, <1>9, <1>10, <1>11, <1>12, <1>13, <1>14 DEF b, ParcelGain

LEMMA PutParcelKeeps ==
  ASSUME PromoteInv, Pr!PutParcel
  PROVE  PromoteInv'
<1>n. PICK N, id : N = Len(store) + 1 /\ id = work.id
  OBVIOUS
<1>l. PICK last : last = IF work.done = 0 THEN 0 ELSE Pr!Max(Kids(id))
  OBVIOUS
<1>m. PICK more : more = Append(store, Pr!Atom(work.beat, "parcel", last, id,
                                               work.beat.chunks - 1, FALSE))
  OBVIOUS
<1>0. /\ work.at = "parcel" /\ work.done < work.beat.chunks - 1
      /\ UNCHANGED <<toolAtoms, unmarked, offers>>
      /\ work' = [work EXCEPT !.done = work.done + 1]
  BY DEF Pr!PutParcel
<1>1. PlaceInv /\ AheadInv /\ ChainInv /\ LinkInv /\ OnceInv /\ TextInv /\ CountInv /\ BusyInv
      /\ work # Pr!NoWork
  BY <1>0, Busy DEF PromoteInv
<1>2. Pr!Of(work.id) = Kids(id)
  BY <1>n DEF Pr!Of, Kids, Pr!All, Places
<1>3. /\ store' = Led(more, last, N) \/ store' = more
      /\ unlinked \subseteq unlinked'
  BY <1>n, <1>l, <1>m, <1>2 DEF Pr!PutParcel, Led
<1>4. /\ PlaceInv' /\ AheadInv' /\ N \notin Places /\ N \in Nat /\ Places' = Places \cup {N}
      /\ Wv' = Wv /\ Wv \subseteq Places /\ last \notin Wv
      /\ store'[N].moment = work.beat.moment
      /\ \A p : Kids(p)' = IF id = p THEN Kids(p) \cup {N} ELSE Kids(p)
      /\ \A n \in Places : SameCore(n)
      /\ \A n \in Wv : store'[n] = store[n]
  <2>1. ParcelPut(id, N, last, more)
    BY <1>n, <1>l, <1>m, <1>3 DEF ParcelPut
  <2>2. ParcelGain(id, N, last)
    BY <1>0, <2>1, ParcelStored
  <2> QED
    BY <2>2 DEF ParcelGain
<1>5. /\ work.beat.chunks \in Nat /\ work.done \in Nat /\ work.id \in Wv /\ work.split
      /\ store[work.id].beat = work.beat.name /\ work \in WorkT /\ work.beat.moment \in Nat
  <2>1. work.beat \in Beats
    BY <1>1 DEF BusyInv, WorkT
  <2> QED
    BY <1>0, <1>1, <2>1, BeatFacts DEF BusyInv, WorkT
<1>6. /\ work'.at = "parcel" /\ work'.done = work.done + 1 /\ work'.id = work.id
      /\ work'.split = work.split /\ work'.beat = work.beat /\ work' \in WorkT
      /\ work' # Pr!NoWork
  <2>1. /\ work'.at = "parcel" /\ work'.done = work.done + 1 /\ work'.id = work.id
        /\ work'.split = work.split /\ work'.beat = work.beat /\ work' \in WorkT
    BY <1>0, <1>5, DoneSet
  <2> QED
    BY <2>1 DEF Pr!NoWork
<1>7. ChainInv' /\ OnceInv'
  BY <1>1, <1>4, <1>6 DEF ChainInv, OnceInv
<1>8. LinkInv'
  BY <1>0, <1>1, <1>3, <1>4, <1>6 DEF LinkInv, ChainInv
<1>9. BusyInv'
  <2>1. \A n \in Places' : store'[n].moment <= work.beat.moment
    BY <1>1, <1>4, <1>5 DEF BusyInv, SameCore
  <2> QED
    BY <1>0, <1>1, <1>4, <1>5, <1>6, <2>1 DEF BusyInv, Pr!AtomKind
<1>10. TextInv'
  <2>1. unmarked' \subseteq Places'
    BY <1>0, <1>1, <1>4 DEF TextInv
  <2>2. \A n \in Wv : (Mid(n) <=> n = id) /\ (Mid(n)' <=> n = id)
    BY <1>n, <1>0, <1>6 DEF Mid
  <2>3. id \in Wv /\ Begun(id) /\ id \notin unmarked
    BY <1>n, <1>1, <1>5, <2>2 DEF TextInv
  <2>4. Begun(id)'
    <3>1. N \notin Kids(id) /\ IsFiniteSet(Kids(id))
      BY <1>1, <1>4, KidsCount DEF Kids, PlaceInv
    <3>2. Cardinality(Kids(id) \cup {N}) = work.done + 1
      BY <2>3, <3>1, FS_AddElement DEF Begun
    <3>3. Kids(id)' = Kids(id) \cup {N} /\ store'[id] = store[id]
      BY <1>4, <2>3
    <3> QED
      BY <1>5, <1>6, <2>3, <3>2, <3>3 DEF Begun
  <2>5. \A n \in Wv : n # id => (Entire(n) => Entire(n)')
    BY <1>4 DEF Entire
  <2> QED
    BY <1>0, <1>1, <1>4, <2>1, <2>2, <2>3, <2>4, <2>5 DEF TextInv
<1>11. CountInv'
  BY <1>0, <1>1 DEF CountInv
<1> QED
  BY <1>4, <1>7, <1>8, <1>9, <1>10, <1>11 DEF PromoteInv, WorkInv

LEMMA ParcelFailsKeeps ==
  ASSUME PromoteInv, Pr!ParcelFails
  PROVE  PromoteInv'
<1>0. /\ work.at = "parcel" /\ UNCHANGED <<store, toolAtoms, unlinked, unmarked, offers>>
      /\ work' = [work EXCEPT !.at = "reconcile"]
  BY DEF Pr!ParcelFails
<1>1. BusyInv /\ work # Pr!NoWork /\ work \in WorkT
  BY <1>0, Busy DEF BusyInv
<1>2. /\ PlaceInv' /\ AheadInv' /\ ChainInv' /\ Places' = Places /\ Wv' = Wv
  BY <1>0, StoreKept
<1>3. /\ work'.at = "reconcile" /\ work'.done = work.done /\ work'.id = work.id
      /\ work'.split = work.split /\ work'.beat = work.beat /\ work' \in WorkT
  BY <1>0, <1>1 DEF WorkT
<1>4. LinkInv' /\ OnceInv'
  BY <1>0, <1>2, <1>3 DEF LinkInv, OnceInv, PromoteInv
<1>5. TextInv'
  <2>1. \A n \in Wv : Mid(n) <=> Mid(n)'
    BY <1>0, <1>3 DEF Mid
  <2> QED
    BY <1>0, <1>3, <2>1, TextsKept
<1>6. BusyInv'
  BY <1>0, <1>1, <1>2, <1>3 DEF BusyInv, Pr!AtomKind
<1>7. CountInv'
  BY <1>0, <1>1 DEF CountInv, PromoteInv
<1> QED
  BY <1>2, <1>4, <1>5, <1>6, <1>7 DEF PromoteInv, WorkInv

\* The parent says what it has, whether its parcels could be told or not.
Rewritten(id) ==
  /\ id = work.id
  /\ LET r == Recount(store, id, work.done)
     IN  store' = r \/ store' = Retell(r, Kids(id), work.done)

LEMMA Reconciled ==
  ASSUME PromoteInv, work.at = "reconcile", NEW id, Rewritten(id)
  PROVE  /\ store' \in Seq(PlaceT) /\ DOMAIN store' = DOMAIN store
         /\ \A n \in Places : SameCore(n) /\ store'[n].next \in {0, store[n].next}
         /\ \A n \in Wv : /\ store'[n].next = store[n].next
                          /\ IF n = id THEN store'[n].parcels = work.done /\ store'[n].short = TRUE
                             ELSE store'[n].parcels = store[n].parcels /\ store'[n].short = store[n].short
<1> DEFINE retold == Recount(store, id, work.done)
<1>p. id = work.id /\ (store' = retold \/ store' = Retell(retold, Kids(id), work.done))
  BY DEF Rewritten
<1>1. BusyInv /\ PlaceInv
  BY Busy DEF PromoteInv
<1>2. store \in Seq(PlaceT) /\ Places = DOMAIN store
  BY <1>1 DEF PlaceInv, Places
<1>3. id \in Wv /\ id \in Places /\ work.done \in Nat /\ id # 0 /\ id \in Nat
  <2>1. id \in Wv /\ work.done \in Nat
    BY <1>p, <1>1 DEF BusyInv, WorkT
  <2> QED
    BY <1>2, <2>1, WovenPlace
<1>4. /\ DOMAIN retold = Places /\ retold \in Seq(PlaceT)
      /\ \A k \in Places : /\ Core(store[k], retold[k]) /\ retold[k].next = store[k].next
                           /\ k # id => retold[k] = store[k]
      /\ retold[id].parcels = work.done /\ retold[id].short = TRUE
  <2>1. Recounted(Recount(store, id, work.done), id, work.done)
    BY <1>2, <1>3, RecountIs
  <2> QED
    BY <2>1 DEF Recounted
<1> HIDE DEF retold
<1>5. /\ DOMAIN store' = Places /\ store' \in Seq(PlaceT)
      /\ \A k \in Places : /\ Core(retold[k], store'[k]) /\ store'[k].next \in {0, retold[k].next}
                           /\ k \notin Kids(id) => store'[k] = retold[k]
  <2>1. CASE store' = retold
    BY <1>4, <2>1 DEF Core
  <2>2. CASE store' = Retell(retold, Kids(id), work.done)
    <3>1. Retold(Retell(retold, Kids(id), work.done), retold, Kids(id))
      BY <1>2, <1>3, <1>4, RetellIs
    <3> QED
      BY <2>2, <3>1 DEF Retold
  <2> QED
    BY <1>p, <2>1, <2>2
<1>6. Wv \subseteq Places /\ \A k \in Kids(id) : k \notin Wv
  <2>1. \A k \in Kids(id) : k \notin Wv
    BY <1>1, <1>3, KidsAfterParent
  <2> QED
    BY <2>1 DEF Wv
<1>7. \A n \in Places : SameCore(n) /\ store'[n].next \in {0, store[n].next}
  BY <1>4, <1>5 DEF SameCore, Core
<1>8. \A n \in Wv : /\ store'[n].next = store[n].next
                   /\ IF n = id THEN store'[n].parcels = work.done /\ store'[n].short = TRUE
                      ELSE store'[n].parcels = store[n].parcels /\ store'[n].short = store[n].short
  <2> TAKE n \in Wv
  <2>1. n \in Places /\ store'[n] = retold[n] /\ retold[n].next = store[n].next
    BY <1>4, <1>5, <1>6
  <2> QED
    BY <1>4, <2>1
<1> QED
  BY <1>2, <1>5, <1>7, <1>8

LEMMA ReconcileKeeps ==
  ASSUME PromoteInv, Pr!Reconcile
  PROVE  PromoteInv'
<1>n. PICK id : id = work.id
  OBVIOUS
<1> DEFINE kids == Kids(id)
           retold == Recount(store, id, work.done)
           told == Retell(retold, kids, work.done)
<1>0. /\ work.at = "reconcile" /\ work' = [work EXCEPT !.at = "end"]
      /\ UNCHANGED <<toolAtoms, unlinked, offers>>
  BY DEF Pr!Reconcile
<1>1. PlaceInv /\ AheadInv /\ ChainInv /\ LinkInv /\ OnceInv /\ TextInv /\ CountInv /\ BusyInv
      /\ work # Pr!NoWork
  BY <1>0, Busy DEF PromoteInv
<1>2. Pr!Of(work.id) = kids
  BY <1>n DEF Pr!Of, Kids, Pr!All, Places
<1>3. \/ UNCHANGED store /\ unmarked' = unmarked \cup {id}
      \/ (store' = retold \/ store' = told) /\ unmarked' = unmarked
  <2> DEFINE m == [store EXCEPT ![work.id].parcels = work.done, ![work.id].short = TRUE]
             q == [n \in Pr!All |-> IF n \in Pr!Of(work.id)
                                    THEN [m[n] EXCEPT !.parcels = work.done, !.next = 0, !.short = TRUE]
                                    ELSE m[n]]
  <2>1. \/ UNCHANGED store /\ unmarked' = unmarked \cup {work.id}
        \/ (store' = m \/ store' = q) /\ unmarked' = unmarked
    BY DEF Pr!Reconcile
  <2>2. m = retold /\ DOMAIN m = Pr!All
    BY <1>n DEF Recount, Pr!All
  <2>3. q = [n \in Pr!All |-> IF n \in kids THEN WithEnd(m[n], work.done) ELSE m[n]]
    BY <1>2 DEF WithEnd
  <2> HIDE DEF m, q, retold, kids
  <2>4. q = Retell(retold, kids, work.done)
    BY <2>2, <2>3 DEF Retell
  <2> QED
    BY <1>n, <2>1, <2>2, <2>4
<1>4. /\ id \in Wv /\ Wv \subseteq Places /\ work \in WorkT /\ work.done \in Nat
      /\ work.beat \in Beats /\ store[id].beat = work.beat.name
  BY <1>n, <1>0, <1>1 DEF BusyInv, Wv, WorkT
<1>5. /\ work'.at = "end" /\ work'.done = work.done /\ work'.id = work.id
      /\ work'.split = work.split /\ work'.beat = work.beat /\ work' \in WorkT
      /\ work' # Pr!NoWork
  <2>1. /\ work'.at = "end" /\ work'.done = work.done /\ work'.id = work.id
        /\ work'.split = work.split /\ work'.beat = work.beat /\ work' \in WorkT
    BY <1>0, <1>4 DEF WorkT
  <2> QED
    BY <2>1 DEF Pr!NoWork
<1>6. \A n \in Wv : (Mid(n) <=> n = id) /\ ~Mid(n)'
  BY <1>n, <1>0, <1>5 DEF Mid
<1>7. Begun(id) /\ unmarked \subseteq Places
  BY <1>1, <1>4, <1>6 DEF TextInv
<1>8. CountInv'
  BY <1>0, <1>1 DEF CountInv
<1> HIDE DEF kids, retold, told
<1>9. CASE UNCHANGED store /\ unmarked' = unmarked \cup {id}
  <2>1. /\ PlaceInv' /\ AheadInv' /\ ChainInv' /\ Places' = Places /\ Wv' = Wv
        /\ \A p : Kids(p)' = Kids(p)
    BY <1>9, StoreKept
  <2>2. LinkInv' /\ OnceInv'
    BY <1>0, <1>1, <1>5, <1>9, <2>1 DEF LinkInv, OnceInv
  <2>3. \A n \in Wv : Entire(n) => Entire(n)'
    BY <1>9, <2>1 DEF Entire
  <2>4. TextInv'
    BY <1>1, <1>4, <1>6, <1>9, <2>1, <2>3 DEF TextInv
  <2>5. BusyInv'
    BY <1>n, <1>1, <1>4, <1>5, <1>9, <2>1 DEF BusyInv, Pr!AtomKind
  <2> QED
    BY <1>8, <2>1, <2>2, <2>4, <2>5 DEF PromoteInv, WorkInv
<1>10. CASE (store' = retold \/ store' = told) /\ unmarked' = unmarked
  <2>1. /\ store' \in Seq(PlaceT) /\ DOMAIN store' = DOMAIN store
        /\ \A n \in Places : SameCore(n) /\ store'[n].next \in {0, store[n].next}
        /\ \A n \in Wv : /\ store'[n].next = store[n].next
                         /\ IF n = id THEN store'[n].parcels = work.done /\ store'[n].short = TRUE
                            ELSE store'[n].parcels = store[n].parcels /\ store'[n].short = store[n].short
    <3>1. Rewritten(id)
      BY <1>n, <1>10 DEF kids, retold, told, Rewritten
    <3> QED
      BY <1>0, <3>1, Reconciled
  <2>2. /\ PlaceInv' /\ ChainInv' /\ Places' = Places /\ Wv' = Wv /\ \A p : Kids(p)' = Kids(p)
    BY <1>1, <2>1, CoreKept
  <2>3. AheadInv'
    BY <1>1, <1>4, <2>1, <2>2 DEF AheadInv
  <2>4. LinkInv'
    BY <1>0, <1>1, <1>4, <1>5, <2>1, <2>2 DEF LinkInv, SameCore, ChainInv
  <2>5. OnceInv'
    BY <1>1, <1>4, <1>5, <2>1, <2>2 DEF OnceInv, SameCore
  <2>6. BusyInv'
    BY <1>n, <1>1, <1>4, <1>5, <2>1, <2>2 DEF BusyInv, SameCore, Pr!AtomKind
  <2>7. ASSUME NEW n \in Wv, n # id, Entire(n) PROVE Entire(n)'
    <3>1. /\ store'[n].parcels = store[n].parcels /\ store'[n].short = store[n].short
          /\ store'[n].beat = store[n].beat
      BY <1>4, <2>1, <2>7 DEF SameCore
    <3> QED
      BY <2>2, <2>7, <3>1 DEF Entire
  <2>8. Entire(id)'
    <3>1. Cardinality(Kids(id)') = work.done
      BY <1>7, <2>2 DEF Begun
    <3>2. store'[id].parcels = work.done /\ store'[id].short = TRUE /\ store'[id].beat = work.beat.name
      BY <1>4, <2>1 DEF SameCore
    <3> QED
      BY <1>4, <3>1, <3>2 DEF Entire
  <2>9. TextInv'
    BY <1>1, <1>6, <1>10, <2>2, <2>7, <2>8 DEF TextInv
  <2> QED
    BY <1>8, <2>2, <2>3, <2>4, <2>5, <2>6, <2>9 DEF PromoteInv, WorkInv
<1> QED
  BY <1>3, <1>9, <1>10

\* A promotion that is over leaves its atom as it is.
LEMMA OverText ==
  ASSUME PromoteInv, UNCHANGED store, work' = Pr!NoWork, unmarked' \subseteq Places,
         unmarked \subseteq unmarked',
         \A n \in Wv : Mid(n) => n \in unmarked' \/ Entire(n)
  PROVE  TextInv'
<1>1. Places' = Places /\ Wv' = Wv /\ \A p : Kids(p)' = Kids(p)
  BY StoreKept
<1>2. \A n \in Wv : ~Mid(n)'
  BY DEF Mid, Pr!NoWork
<1>3. \A n \in Wv : Entire(n) => Entire(n)'
  BY <1>1 DEF Entire
<1> QED
  BY <1>1, <1>2, <1>3 DEF TextInv, PromoteInv

LEMMA FinishKeeps ==
  ASSUME PromoteInv, Pr!Finish
  PROVE  PromoteInv'
<1>0. /\ work.at = "end" \/ (work.at = "parcel" /\ work.done = work.beat.chunks - 1)
      /\ UNCHANGED <<store, unlinked, unmarked, offers>> /\ work' = Pr!NoWork
      /\ toolAtoms' = IF work.beat.kind = "tool" THEN toolAtoms + 1 ELSE toolAtoms
  BY DEF Pr!Finish
<1>1. BusyInv /\ work # Pr!NoWork
  BY <1>0, Busy
<1>2. /\ PlaceInv' /\ AheadInv' /\ ChainInv' /\ Places' = Places /\ Wv' = Wv
  BY <1>0, StoreKept
<1>3. work'.at = "idle"
  BY <1>0 DEF Pr!NoWork
<1>4. LinkInv' /\ OnceInv'
  BY <1>0, <1>2, <1>3 DEF LinkInv, OnceInv, PromoteInv
<1>5. TextInv'
  <2>1. ASSUME NEW n \in Wv, Mid(n) PROVE Entire(n)
    <3>1. work.at = "parcel" /\ n = work.id /\ work.done = work.beat.chunks - 1 /\ Begun(n)
      <4>1. Begun(n)
        BY <2>1 DEF TextInv, PromoteInv
      <4> QED
        BY <1>0, <2>1, <4>1 DEF Mid
    <3>2. work.split /\ work.beat \in Beats /\ store[n].beat = work.beat.name
      BY <1>1, <3>1 DEF BusyInv, WorkT
    <3> QED
      BY <3>1, <3>2 DEF Begun, Entire
  <2>2. unmarked \subseteq Places
    BY DEF PromoteInv, TextInv
  <2> QED
    BY <1>0, <2>1, <2>2, OverText
<1>6. CountInv'
  BY <1>0, <1>1 DEF CountInv, PromoteInv
<1> QED
  BY <1>0, <1>2, <1>4, <1>5, <1>6 DEF PromoteInv, WorkInv

LEMMA NewBoutKeeps ==
  ASSUME PromoteInv, Pr!NewBout
  PROVE  PromoteInv'
<1>0. /\ UNCHANGED <<store, work, unlinked, unmarked, offers>> /\ toolAtoms' = 0
      /\ work = Pr!NoWork
  BY DEF Pr!NewBout, Pr!Idle
<1>1. /\ PlaceInv' /\ AheadInv' /\ ChainInv' /\ Places' = Places /\ Wv' = Wv
  BY <1>0, StoreKept
<1>2. TextInv'
  BY <1>0, TextsKept DEF Mid
<1> QED
  BY <1>0, <1>1, <1>2 DEF PromoteInv, LinkInv, OnceInv, WorkInv, CountInv

LEMMA PrDiesKeeps ==
  ASSUME PromoteInv, Pr!Dies
  PROVE  PromoteInv'
<1>0. /\ UNCHANGED <<store, offers>> /\ work' = Pr!NoWork /\ toolAtoms' = 0
      /\ unlinked' = (IF work.at = "link" THEN unlinked \cup {store[work.id].prev} ELSE unlinked)
      /\ unmarked' = (IF work.at \in {"link", "parcel", "reconcile"} /\ work.split
                      THEN unmarked \cup {work.id} ELSE unmarked)
  BY DEF Pr!Dies
<1>1. /\ PlaceInv' /\ AheadInv' /\ ChainInv' /\ Places' = Places /\ Wv' = Wv
  BY <1>0, StoreKept
<1>2. work'.at = "idle"
  BY <1>0 DEF Pr!NoWork
<1>3. LinkInv' /\ OnceInv'
  BY <1>0, <1>1, <1>2 DEF LinkInv, OnceInv, PromoteInv
<1>4. TextInv'
  <2>1. unmarked \subseteq unmarked' /\ unmarked' \subseteq Places
    <3>1. work.at \in {"link", "parcel", "reconcile"} => work.id \in Places
      BY Busy DEF BusyInv, Wv
    <3> QED
      BY <1>0, <3>1 DEF PromoteInv, TextInv
  <2>2. ASSUME NEW n \in Wv, Mid(n) PROVE n \in unmarked' \/ Entire(n)
    <3>1. BusyInv /\ n = work.id /\ work.at \in {"link", "parcel", "reconcile"} /\ Begun(n)
      <4>1. Begun(n)
        BY <2>2 DEF TextInv, PromoteInv
      <4> QED
        BY <2>2, <4>1, Busy DEF Mid
    <3>2. /\ work.beat \in Beats /\ work.split \in BOOLEAN /\ store[n].beat = work.beat.name
          /\ work.beat.chunks \in Nat /\ (~work.split => work.done = 0)
      <4>1. work.beat \in Beats /\ work.split \in BOOLEAN
        BY <3>1 DEF BusyInv, WorkT
      <4> QED
        BY <3>1, <4>1, BeatFacts DEF BusyInv
    <3>3. CASE work.split
      BY <1>0, <3>1, <3>3
    <3>4. CASE ~work.split
      <4>1. /\ Cardinality(Kids(n)) = 0 /\ store[n].parcels = 0
            /\ (store[n].short \/ 0 = work.beat.chunks - 1)
        BY <3>1, <3>2, <3>4 DEF Begun
      <4> QED
        BY <3>2, <4>1 DEF Entire
    <3> QED
      BY <3>2, <3>3, <3>4
  <2> QED
    BY <1>0, <2>1, <2>2, OverText
<1>5. CountInv'
  BY <1>0 DEF CountInv, PromoteInv
<1> QED
  BY <1>0, <1>1, <1>3, <1>4, <1>5 DEF PromoteInv, WorkInv

-----------------------------------------------------------------------------
(* The invariant, and what it gives                                        *)

LEMMA PromoteInit == Pr!Init => PromoteInv
<1> SUFFICES ASSUME Pr!Init PROVE PromoteInv
  OBVIOUS
<1>1. /\ store = <<>> /\ work = Pr!NoWork /\ toolAtoms = 0 /\ unlinked = {} /\ unmarked = {}
      /\ offers = 0
  BY DEF Pr!Init
<1>2. Places = {} /\ Wv = {} /\ store \in Seq(PlaceT)
  BY <1>1 DEF Places, Wv
<1> QED
  BY <1>1, <1>2, PromoteAssumption
     DEF PromoteInv, PlaceInv, AheadInv, ChainInv, LinkInv, OnceInv, WorkInv, TextInv, CountInv,
         Pr!NoWork

LEMMA PromoteNext == PromoteInv /\ [Pr!Next]_prVars => PromoteInv'
<1> SUFFICES ASSUME PromoteInv, [Pr!Next]_prVars PROVE PromoteInv'
  OBVIOUS
<1>1. CASE UNCHANGED prVars
  <2>1. UNCHANGED <<store, work, toolAtoms, unlinked, unmarked, offers>>
    BY <1>1 DEF prVars
  <2>2. /\ PlaceInv' /\ AheadInv' /\ ChainInv' /\ Places' = Places /\ Wv' = Wv
    BY <2>1, StoreKept
  <2>3. WorkInv' /\ TextInv'
    BY <2>1, <2>2, TextsKept DEF PromoteInv, WorkInv, BusyInv, Mid, Pr!AtomKind
  <2> QED
    BY <2>1, <2>2, <2>3 DEF PromoteInv, LinkInv, OnceInv, CountInv
<1> QED
  BY <1>1, OfferKeeps, PutAtomKeeps, PutFailsKeeps, LinkKeeps, PutParcelKeeps, ParcelFailsKeeps,
     ReconcileKeeps, FinishKeeps, NewBoutKeeps, PrDiesKeeps DEF Pr!Next

LEMMA PromoteGives == PromoteInv => Pr!PromotedOnceAndWhole
<1> SUFFICES ASSUME PromoteInv PROVE Pr!PromotedOnceAndWhole
  OBVIOUS
<1>1. PlaceInv /\ AheadInv /\ ChainInv /\ LinkInv /\ OnceInv /\ TextInv /\ CountInv
  BY DEF PromoteInv
<1>2. Pr!All = Places /\ Pr!Woven(Pr!All) = Wv /\ \A p : Pr!Of(p) = Kids(p)
  BY DEF Pr!All, Places, Pr!Woven, Wv, Pr!Of, Kids
<1>3. /\ Places = 1 .. Len(store) /\ Len(store) \in Nat /\ Wv \subseteq Places
      /\ \A n \in Places : store[n] \in PlaceT /\ n \in Nat
  BY <1>1, PlaceFacts DEF PlaceInv, Wv
<1>4. Pr!TypeOK
  <2>1. \A n \in Places : store[n].prev \in Places \cup {0} /\ store[n].next \in Places \cup {0}
    <3> TAKE n \in Places
    <3>1. store[n].prev \in Nat /\ store[n].prev < n
      BY <1>1, <1>3 DEF PlaceT, PlaceInv
    <3> QED
      BY <1>1, <1>3, <3>1 DEF AheadInv
  <2>2. toolAtoms \in 0 .. PrMaxOffers
    BY <1>1, PromoteAssumption DEF CountInv
  <2> QED
    BY <1>2, <2>1, <2>2 DEF Pr!TypeOK
<1>5. Pr!OncePerBeat
  BY <1>1, <1>2 DEF Pr!OncePerBeat, OnceInv
<1>6. Pr!WeaveIsOneLine
  <2>1. \A m, n \in Wv : store[m].prev = store[n].prev => m = n
    BY <1>1, PrevUnique
  <2>2. \A n \in Wv : store[n].prev # 0 => store[store[n].prev].kind \in Pr!Weave
    BY <1>1 DEF ChainInv, Wv
  <2> QED
    BY <1>1, <1>2, <2>1, <2>2 DEF Pr!WeaveIsOneLine, LinkInv
<1>7. Pr!TextIsWholeOrMarked
  <2> SUFFICES ASSUME Pr!Idle, NEW n \in Pr!Woven(Pr!All) \ unmarked
               PROVE  LET b == CHOOSE b \in Beats : b.name = store[n].beat
                      IN  /\ store[n].parcels = Pr!Cardinality(Pr!Of(n))
                          /\ store[n].short \/ Pr!Cardinality(Pr!Of(n)) = b.chunks - 1
    BY Zenon DEF Pr!TextIsWholeOrMarked
  <2>1. Entire(n)
    BY <1>1, <1>2 DEF TextInv, Mid, Pr!NoWork, Pr!Idle
  <2>2. Pr!Cardinality(Pr!Of(n)) = Cardinality(Kids(n))
    <3>1. Pr!Cardinality(Kids(n)) = Cardinality(Kids(n))
      BY DEF Pr!Cardinality, Cardinality
    <3> QED
      BY <1>2, <3>1
  <2>3. PICK b \in Beats : b.name = store[n].beat
                           /\ (store[n].short \/ Cardinality(Kids(n)) = b.chunks - 1)
    BY <2>1 DEF Entire
  <2>4. b = CHOOSE c \in Beats : c.name = store[n].beat
    BY <2>3, PromoteAssumption
  <2> QED
    BY <2>1, <2>2, <2>3, <2>4 DEF Entire
<1> QED
  BY <1>4, <1>5, <1>6, <1>7 DEF Pr!PromotedOnceAndWhole

\* memory/promote.py, memory/parcel.py: however often a beat is offered, a write fails
\* or the process dies, in any order, for any beats: one atom of it at most, the weave
\* is one line, and a split body is whole or says that it is short.
THEOREM PromotionKept == StoresSpec => []PromotedOnceAndWhole
<1>1. StoresInit => PromoteInv
  BY PromoteInit DEF StoresInit, OthersInit
<1>2. PromoteInv /\ [StoresNext]_<<vars, focus, prVars, edVars, eqVars, laVars, trVars, mlVars>>
        => PromoteInv'
  <2>1. [StoresNext]_<<vars, focus, prVars, edVars, eqVars, laVars, trVars, mlVars>>
          => [Pr!Next]_prVars
    BY DEF StoresNext
  <2> QED
    BY <2>1, PromoteNext
<1>3. PromoteInv => PromotedOnceAndWhole
  BY PromoteGives DEF PromotedOnceAndWhole
<1> QED
  BY <1>1, <1>2, <1>3, PTL DEF StoresSpec
=============================================================================
