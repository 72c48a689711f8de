------------------------- MODULE ReportStoreProofs -------------------------
(***************************************************************************)
(* Theorems about the results and the version axis that save_report        *)
(* stores: what the axis of a host says of its newest report, and what one *)
(* more report adds to it.                                                 *)
(***************************************************************************)
EXTENDS ReportStore, FiniteSetTheorems, SequenceTheorems, TLAPS

-----------------------------------------------------------------------------
(* Numbers and enumerations *)

\* A nonempty set of numbers has a least one, and a bounded one a greatest.
LEMMA LeastNumber ==
  ASSUME NEW T \in SUBSET Nat, T # {}
  PROVE  \E n \in T : \A k \in T : n <= k
  <1> DEFINE R == OpToRel(<, Nat)
  <1>1. IsWellFoundedOn(R, Nat)
    BY NatLessThanWellFounded
  <1>2. \A n, k \in T : k < n => <<k, n>> \in R
    BY DEF OpToRel
  <1> HIDE DEF R
  <1>3. PICK n \in T : \A k \in T : ~(<<k, n>> \in R)
    BY <1>1, WFMin
  <1>4. \A k \in T : k \in Nat /\ ~(k < n)
    BY <1>2, <1>3
  <1> QED
    BY <1>4

LEMMA GreatestNumber ==
  ASSUME NEW T, NEW n \in Nat, T \subseteq 1..n, T # {}
  PROVE  \E m \in T : \A k \in T : k <= m
  <1> DEFINE D == {n - k : k \in T}
  <1>1. \A k \in T : k \in Nat /\ n - k \in Nat
    OBVIOUS
  <1>2. PICK d \in D : \A e \in D : d <= e
    <2>1. D \in SUBSET Nat /\ D # {}
      BY <1>1
    <2> QED
      BY <2>1, LeastNumber
  <1>3. PICK m \in T : d = n - m
    OBVIOUS
  <1>4. \A k \in T : n - m <= n - k
    BY <1>2, <1>3
  <1> QED
    BY <1>1, <1>4

\* A nonempty set of items has a smallest one, and what is left of a finite set
\* of rows can be enumerated in order: so can the set.
LEMMA Enumerable ==
  ASSUME NEW S, IsFiniteSet(S), \A a \in S : a.item \in Nat,
         \A a, b \in S : a.item = b.item => a = b
  PROVE  \E s \in [1..Cardinality(S) -> S] :
            /\ \A k, n \in 1..Cardinality(S) : k < n => s[k].item < s[n].item
            /\ \A a \in S : \E k \in 1..Cardinality(S) : s[k] = a
  <1> DEFINE Sorted(T) == \E s \in [1..Cardinality(T) -> T] :
            /\ \A k, n \in 1..Cardinality(T) : k < n => s[k].item < s[n].item
            /\ \A a \in T : \E k \in 1..Cardinality(T) : s[k] = a
             Bad == {c \in Nat : \E T \in SUBSET S : Cardinality(T) = c /\ ~Sorted(T)}
  <1>1. SUFFICES ASSUME Bad # {} PROVE FALSE
    <2>1. Cardinality(S) \in Nat
      BY FS_CardinalityType
    <2> QED
      BY <2>1
  <1>2. PICK c \in Bad : \A d \in Bad : c <= d
    <2>1. Bad \in SUBSET Nat
      OBVIOUS
    <2> HIDE DEF Bad
    <2> QED
      BY <1>1, <2>1, LeastNumber
  <1>3. PICK T \in SUBSET S : Cardinality(T) = c /\ ~Sorted(T)
    OBVIOUS
  <1>4. IsFiniteSet(T) /\ c \in Nat
    BY FS_Subset
  <1>5. T # {}
    <2> SUFFICES ASSUME T = {} PROVE Sorted(T)
      BY <1>3
    <2>1. Cardinality(T) = 0
      BY FS_EmptySet
    <2>2. [k \in 1..0 |-> k] \in [1..0 -> T]
      OBVIOUS
    <2> QED
      BY <2>1, <2>2
  <1>6. PICK x \in T : \A a \in T : x.item <= a.item
    <2> DEFINE I == {a.item : a \in T}
    <2>1. I \in SUBSET Nat /\ I # {}
      BY <1>5
    <2>2. PICK n \in I : \A k \in I : n <= k
      <3> HIDE DEF I
      <3> QED
        BY <2>1, LeastNumber
    <2> QED
      BY <2>2
  <1> DEFINE U == T \ {x}
  <1>7. IsFiniteSet(U) /\ Cardinality(U) = c - 1 /\ c - 1 \in Nat
    <2>1. IsFiniteSet(U) /\ Cardinality(U) = c - 1
      BY <1>3, <1>4, FS_RemoveElement
    <2>2. Cardinality(U) \in Nat
      BY <2>1, FS_CardinalityType
    <2> QED
      BY <2>1, <2>2
  <1>8. Sorted(U)
    <2>1. c - 1 \notin Bad
      BY <1>2, <1>4
    <2>2. U \in SUBSET S
      OBVIOUS
    <2> HIDE DEF Sorted, U
    <2> QED
      BY <1>7, <2>1, <2>2
  <1>9. PICK s \in [1..c - 1 -> U] :
            /\ \A k, n \in 1..c - 1 : k < n => s[k].item < s[n].item
            /\ \A a \in U : \E k \in 1..c - 1 : s[k] = a
    BY <1>7, <1>8
  <1> DEFINE t == [k \in 1..c |-> IF k = 1 THEN x ELSE s[k - 1]]
  <1>10. t \in [1..c -> T]
    BY <1>4
  <1>11. \A k, n \in 1..c : k < n => t[k].item < t[n].item
    <2> SUFFICES ASSUME NEW k \in 1..c, NEW n \in 1..c, k < n PROVE t[k].item < t[n].item
      OBVIOUS
    <2>1. n - 1 \in 1..c - 1 /\ t[n] = s[n - 1] /\ s[n - 1] \in U
      BY <1>4
    <2>2. CASE k = 1
      <3>1. t[k] = x
        BY <2>2
      <3>2. s[n - 1].item # x.item /\ x.item <= s[n - 1].item /\ x.item \in Nat
            /\ s[n - 1].item \in Nat
        BY <1>6, <2>1
      <3> HIDE DEF t
      <3> QED
        BY <2>1, <3>1, <3>2
    <2>3. CASE k # 1
      <3>1. k - 1 \in 1..c - 1 /\ t[k] = s[k - 1] /\ k - 1 < n - 1
        BY <1>4, <2>3
      <3> HIDE DEF t
      <3> QED
        BY <1>9, <2>1, <3>1
    <2> QED
      BY <2>2, <2>3
  <1>12. \A a \in T : \E k \in 1..c : t[k] = a
    <2> SUFFICES ASSUME NEW a \in T PROVE \E k \in 1..c : t[k] = a
      OBVIOUS
    <2>1. CASE a = x
      <3>1. 1 \in 1..c /\ t[1] = x
        BY <1>4, <1>7
      <3> QED
        BY <2>1, <3>1
    <2>2. CASE a # x
      <3> PICK k \in 1..c - 1 : s[k] = a
        BY <1>9, <2>2
      <3>1. k + 1 \in 1..c /\ t[k + 1] = s[(k + 1) - 1] /\ (k + 1) - 1 = k
        BY <1>4
      <3> HIDE DEF t
      <3> QED
        BY <3>1
    <2> QED
      BY <2>1, <2>2
  <1> HIDE DEF t
  <1> QED
    BY <1>3, <1>10, <1>11, <1>12

\* So InOrder lists every row of such a set once, by item.
LEMMA InOrderLists ==
  ASSUME NEW S, IsFiniteSet(S), \A a \in S : a.item \in Nat,
         \A a, b \in S : a.item = b.item => a = b
  PROVE  /\ InOrder(S) \in Seq(S) /\ Len(InOrder(S)) = Cardinality(S)
         /\ \A k, n \in 1..Len(InOrder(S)) : InOrder(S)[k].item = InOrder(S)[n].item => k = n
         /\ \A a \in S : \E k \in 1..Len(InOrder(S)) : InOrder(S)[k] = a
  <1> DEFINE n == Cardinality(S)
             s == InOrder(S)
  <1>1. n \in Nat
    BY FS_CardinalityType
  <1>2. s \in [1..n -> S] /\ \A j, k \in 1..n : j < k => s[j].item < s[k].item
    BY Enumerable DEF InOrder
  <1> HIDE DEF n, s
  <1>3. s \in Seq(S)
    BY <1>1, <1>2, SeqDef
  <1>4. Len(s) = n
    BY <1>1, <1>2, <1>3, LenProperties
  <1>5. \A j, k \in 1..n : s[j].item = s[k].item => j = k
    <2> SUFFICES ASSUME NEW j \in 1..n, NEW k \in 1..n, s[j].item = s[k].item, j # k
                 PROVE  FALSE
      OBVIOUS
    <2>1. j < k \/ k < j
      BY <1>1
    <2>2. s[j].item \in Nat
      BY <1>2
    <2> QED
      BY <1>2, <2>1, <2>2
  <1>6. \A a \in S : \E k \in 1..n : s[k] = a
    <2>1. s \in Injection(1..n, S)
      BY <1>2, <1>5 DEF Injection, IsInjective
    <2>2. Cardinality(1..n) = n
      BY <1>1, FS_Interval
    <2>3. s \in Surjection(1..n, S)
      BY <2>1, <2>2, FS_Injection DEF n
    <2> QED
      BY <2>3 DEF Surjection
  <1> QED
    BY <1>3, <1>4, <1>5, <1>6 DEF n, s

-----------------------------------------------------------------------------
(* The newest version of an item *)

Kind == {"initial", "new", "status", "desc", "gone"}
Verdict == Known \cup {Absent}
Row == [item : Item, kind : Kind, before : Verdict, st : Verdict, ds : Text \cup {Absent}]
Report == Reports([st : Known, ds : Text])

\* Row k is the newest of its item.
IsNewest(vs, k) == \A n \in k+1..Len(vs) : vs[n].item # vs[k].item

LEMMA NewestIs ==
  ASSUME NEW vs \in Seq(Row), NEW k \in 1..Len(vs), IsNewest(vs, k)
  PROVE  NewestVersion(vs, vs[k].item) = vs[k]
  <1> DEFINE i == vs[k].item
             I == Indices(vs, i)
  <1>1. Len(vs) \in Nat
    BY LenProperties
  <1>2. k \in I /\ \A n \in I : n \in 1..Len(vs)
    BY DEF Indices
  <1>3. \A n \in I : n <= k
    BY <1>1 DEF Indices, IsNewest
  <1> DEFINE top == CHOOSE m \in I : \A n \in I : n <= m
  <1>4. top \in I /\ \A n \in I : n <= top
    BY <1>2, <1>3
  <1>5. top = k
    <2> HIDE DEF top, I
    <2> QED
      BY <1>1, <1>2, <1>3, <1>4
  <1> QED
    BY <1>2, <1>5 DEF NewestVersion

LEMMA NewestExists ==
  ASSUME NEW vs \in Seq(Row), NEW k \in 1..Len(vs)
  PROVE  \E n \in 1..Len(vs) : vs[n].item = vs[k].item /\ IsNewest(vs, n)
  <1> DEFINE I == Indices(vs, vs[k].item)
  <1>1. Len(vs) \in Nat
    BY LenProperties
  <1>2. I \subseteq 1..Len(vs) /\ I # {}
    BY DEF Indices
  <1>3. PICK n \in I : \A m \in I : m <= n
    <2> HIDE DEF I
    <2> QED
      BY <1>1, <1>2, GreatestNumber
  <1>4. n \in 1..Len(vs) /\ vs[n].item = vs[k].item
    BY DEF Indices
  <1>5. ASSUME NEW m \in n+1..Len(vs), vs[m].item = vs[n].item PROVE FALSE
    <2>1. m \in I
      BY <1>1, <1>4, <1>5 DEF Indices
    <2> QED
      BY <1>1, <1>3, <1>4, <1>5, <2>1
  <1> QED
    BY <1>4, <1>5 DEF IsNewest

\* An item without rows has no version.
LEMMA NewestNone ==
  ASSUME NEW vs \in Seq(Row), NEW i, \A k \in 1..Len(vs) : vs[k].item # i
  PROVE  NewestVersion(vs, i) = NoVersion
  BY DEF NewestVersion, Indices

LEMMA NewestTyped ==
  ASSUME NEW vs \in Seq(Row), NEW i
  PROVE  LET last == NewestVersion(vs, i)
         IN  last.kind \in Kind /\ last.st \in Verdict /\ last.ds \in Text \cup {Absent}
  <1>1. CASE \E k \in 1..Len(vs) : vs[k].item = i
    <2>1. PICK k \in 1..Len(vs) : vs[k].item = i /\ IsNewest(vs, k)
      BY <1>1, NewestExists
    <2>2. vs[k] \in Row
      BY ElementOfSeq
    <2> QED
      BY <2>1, <2>2, NewestIs DEF Row
  <1>2. CASE ~\E k \in 1..Len(vs) : vs[k].item = i
    <2>1. NewestVersion(vs, i) = NoVersion
      BY <1>2, NewestNone
    <2> QED
      BY <2>1 DEF NoVersion, Kind, Verdict
  <1> QED
    BY <1>1, <1>2

-----------------------------------------------------------------------------
(* What _record_versions adds *)

\* A row that a report adds: it starts from the newest version of its item.
Follows(vs, rep, off, a) ==
    LET last == NewestVersion(vs, a.item)
    IN  \/ a.item \in DOMAIN rep /\ last.kind = "gone" /\ a = Appear(vs, rep, a.item)
        \/ /\ a.item \in DOMAIN rep /\ last.kind # "gone"
           /\ last.st # rep[a.item].st \/ last.ds # rep[a.item].ds
           /\ a = Alter(last, rep, a.item)
        \/ a.item \in Item \ (DOMAIN rep \cup off) /\ last.kind # "gone" /\ a = Vanish(last, a.item)

\* The rows that a report adds.
Added(vs, rep, off) == Appeared(vs, rep) \cup Altered(vs, rep) \cup Vanished(vs, rep, off)

LEMMA AddedFollow ==
  ASSUME NEW vs \in Seq(Row), NEW rep \in Report, NEW off, NEW a \in Added(vs, rep, off)
  PROVE  Follows(vs, rep, off, a)
  <1>1. CASE a \in Appeared(vs, rep)
    <2> PICK i \in DOMAIN rep : NewestVersion(vs, i).kind = "gone" /\ a = Appear(vs, rep, i)
      BY <1>1 DEF Appeared
    <2>1. a.item = i
      BY DEF Appear
    <2> QED
      BY <2>1 DEF Follows
  <1>2. CASE a \in Altered(vs, rep)
    <2> DEFINE last(i) == NewestVersion(vs, i)
    <2> PICK i \in DOMAIN rep : /\ last(i).kind # "gone"
                                /\ last(i).st # rep[i].st \/ last(i).ds # rep[i].ds
                                /\ a = Alter(last(i), rep, i)
      BY <1>2 DEF Altered
    <2>1. a.item = i
      BY DEF Alter
    <2> QED
      BY <2>1 DEF Follows
  <1>3. CASE a \in Vanished(vs, rep, off)
    <2> PICK i \in Item \ (DOMAIN rep \cup off) :
             NewestVersion(vs, i).kind # "gone" /\ a = Vanish(NewestVersion(vs, i), i)
      BY <1>3 DEF Vanished
    <2>1. a.item = i
      BY DEF Vanish
    <2> QED
      BY <2>1 DEF Follows
  <1> QED
    BY <1>1, <1>2, <1>3 DEF Added

LEMMA ReportTyped ==
  ASSUME NEW rep \in Report
  PROVE  /\ DOMAIN rep \subseteq Item
         /\ \A i \in DOMAIN rep : rep[i] \in [st : Known, ds : Text]
  BY DEF Report, Reports

LEMMA AddedRows ==
  ASSUME NEW vs \in Seq(Row), NEW rep \in Report, NEW off
  PROVE  /\ Added(vs, rep, off) \subseteq Row
         /\ IsFiniteSet(Added(vs, rep, off))
         /\ \A a, b \in Added(vs, rep, off) : a.item = b.item => a = b
  <1> DEFINE S == Added(vs, rep, off)
  <1>1. \A a \in S : Follows(vs, rep, off, a)
    BY AddedFollow
  <1>2. ASSUME NEW a \in S PROVE a \in Row
    <2> DEFINE last == NewestVersion(vs, a.item)
    <2>0. last.kind \in Kind /\ last.st \in Verdict /\ last.ds \in Text \cup {Absent}
      BY NewestTyped
    <2>1. CASE a.item \in DOMAIN rep
      <3>1. /\ a.item \in Item
            /\ rep[a.item].st \in Verdict /\ rep[a.item].ds \in Text
        BY <2>1, ReportTyped DEF Verdict
      <3> QED
        BY <1>1, <2>0, <2>1, <3>1 DEF Follows, Appear, Alter, Row, Kind, Verdict
    <2>2. CASE a.item \in Item \ (DOMAIN rep \cup off) /\ a = Vanish(last, a.item)
      BY <2>0, <2>2 DEF Vanish, Row, Kind, Verdict
    <2> QED
      BY <1>1, <2>1, <2>2 DEF Follows
  <1>3. ASSUME NEW a \in S, NEW b \in S, a.item = b.item PROVE a = b
    <2>1. Follows(vs, rep, off, a) /\ Follows(vs, rep, off, b)
      BY <1>1
    <2> QED
      BY <1>3, <2>1 DEF Follows
  <1>4. IsFiniteSet(S)
    <2> DEFINE f == [a \in S |-> a.item]
    <2>1. f \in [S -> Item]
      BY <1>2 DEF Row
    <2>2. f \in Injection(S, Item)
      BY <1>3, <2>1 DEF Injection, IsInjective
    <2> QED
      BY <2>2, FS_Injection, StoreAssumption
  <1> QED
    BY <1>2, <1>3, <1>4

LEMMA Recorded ==
  ASSUME NEW vs \in Seq(Row), NEW rep \in Report, NEW off
  PROVE  LET new == RecordVersions(vs, rep, off)
         IN  /\ new \in Seq(Row) /\ Len(vs) <= Len(new)
             /\ \A k \in 1..Len(vs) : new[k] = vs[k]
             /\ \A k, n \in Len(vs)+1..Len(new) : new[k].item = new[n].item => k = n
             /\ \A k \in Len(vs)+1..Len(new) : new[k] \in Added(vs, rep, off) /\ DOMAIN rep # {}
             /\ DOMAIN rep # {} => \A a \in Added(vs, rep, off) :
                                      \E k \in Len(vs)+1..Len(new) : new[k] = a
  <1> DEFINE S == Appeared(vs, rep) \cup Altered(vs, rep)
             V == Vanished(vs, rep, off)
             new == RecordVersions(vs, rep, off)
  <1>1. CASE DOMAIN rep = {}
    <2>1. new = vs
      BY <1>1 DEF RecordVersions
    <2>2. Len(vs) \in Nat
      BY LenProperties
    <2>3. \A k \in Len(vs)+1..Len(vs) : FALSE
      BY <2>2
    <2> QED
      BY <1>1, <2>1, <2>2, <2>3
  <1>2. CASE DOMAIN rep # {}
    <2> DEFINE s == InOrder(S)
               v == InOrder(V)
    <2>1. S \subseteq Added(vs, rep, off) /\ V \subseteq Added(vs, rep, off)
      BY DEF Added
    <2>2. /\ IsFiniteSet(S) /\ IsFiniteSet(V) /\ S \subseteq Row /\ V \subseteq Row
          /\ \A a, b \in S \cup V : a.item = b.item => a = b
      BY <2>1, AddedRows, FS_Subset
    <2>3. \A a \in S \cup V : a.item \in Nat
      BY <2>2, StoreAssumption DEF Row
    <2>4. \A a \in S : \A b \in V : a # b /\ a.item # b.item
      <3>1. \A a \in S : a.item \in DOMAIN rep
        BY DEF Appeared, Altered, Appear, Alter
      <3>2. \A b \in V : b.item \notin DOMAIN rep
        BY DEF Vanished, Vanish
      <3> QED
        BY <3>1, <3>2
    <2> HIDE DEF S, V
    <2>5. /\ s \in Seq(S) /\ Len(s) \in Nat
          /\ \A k, n \in 1..Len(s) : s[k].item = s[n].item => k = n
          /\ \A a \in S : \E k \in 1..Len(s) : s[k] = a
      BY <2>2, <2>3, InOrderLists, LenProperties
    <2>6. /\ v \in Seq(V) /\ Len(v) \in Nat
          /\ \A k, n \in 1..Len(v) : v[k].item = v[n].item => k = n
          /\ \A a \in V : \E k \in 1..Len(v) : v[k] = a
      BY <2>2, <2>3, InOrderLists, LenProperties
    <2>7. new = vs \o s \o v
      BY <1>2 DEF RecordVersions, S, V
    <2> HIDE DEF s, v, new
    <2>8. s \in Seq(Row) /\ v \in Seq(Row)
      BY <2>2, <2>5, <2>6, SeqMonotonic
    <2> DEFINE m == Len(vs)
               p == Len(s)
               q == Len(v)
    <2>9. m \in Nat /\ p \in Nat /\ q \in Nat
      BY <2>5, <2>6, LenProperties
    <2>10. /\ vs \o s \in Seq(Row) /\ Len(vs \o s) = m + p
           /\ \A k \in 1..m+p : (vs \o s)[k] = IF k <= m THEN vs[k] ELSE s[k - m]
      BY <2>8, ConcatProperties
    <2>11. /\ new \in Seq(Row) /\ Len(new) = m + p + q
           /\ \A k \in 1..m+p+q : new[k] = IF k <= m + p THEN (vs \o s)[k] ELSE v[k - (m + p)]
      BY <2>7, <2>8, <2>10, ConcatProperties
    <2> HIDE DEF m, p, q
    <2>12. /\ \A k \in 1..m : new[k] = vs[k]
           /\ \A k \in m+1..m+p : k - m \in 1..p /\ new[k] = s[k - m]
           /\ \A k \in m+p+1..m+p+q : k - (m + p) \in 1..q /\ new[k] = v[k - (m + p)]
      <3>1. \A k \in 1..m : k \in 1..m+p /\ k \in 1..m+p+q /\ k <= m /\ k <= m + p
        BY <2>9
      <3>2. \A k \in m+1..m+p : /\ k \in 1..m+p /\ k \in 1..m+p+q /\ ~(k <= m) /\ k <= m + p
                                /\ k - m \in 1..p
        BY <2>9
      <3>3. \A k \in m+p+1..m+p+q : /\ k \in 1..m+p+q /\ ~(k <= m + p)
                                    /\ k - (m + p) \in 1..q
        BY <2>9
      <3> QED
        BY <2>10, <2>11, <3>1, <3>2, <3>3
    <2>13. /\ \A k \in 1..p : s[k] \in S
           /\ \A k \in 1..q : v[k] \in V
      <3>1. ASSUME NEW k \in 1..p PROVE s[k] \in S
        BY <2>5, ElementOfSeq DEF p
      <3>2. ASSUME NEW k \in 1..q PROVE v[k] \in V
        BY <2>6, ElementOfSeq DEF q
      <3> QED
        BY <3>1, <3>2
    <2>14. ASSUME NEW k \in m+1..m+p+q PROVE new[k] \in Added(vs, rep, off)
      <3>1. k \in m+1..m+p \/ k \in m+p+1..m+p+q
        BY <2>9
      <3> QED
        BY <2>1, <2>12, <2>13, <3>1
    <2>15. ASSUME NEW k \in m+1..m+p+q, NEW n \in m+1..m+p+q, new[k].item = new[n].item
           PROVE  k = n
      <3>1. CASE k \in m+1..m+p /\ n \in m+1..m+p
        <4>1. s[k - m].item = s[n - m].item /\ k - m \in 1..p /\ n - m \in 1..p
          BY <2>12, <2>15, <3>1
        <4>2. k - m = n - m
          BY <2>5, <4>1 DEF p
        <4> QED
          BY <2>9, <3>1, <4>2
      <3>2. CASE k \in m+p+1..m+p+q /\ n \in m+p+1..m+p+q
        <4>1. /\ v[k - (m + p)].item = v[n - (m + p)].item
              /\ k - (m + p) \in 1..q /\ n - (m + p) \in 1..q
          BY <2>12, <2>15, <3>2
        <4>2. k - (m + p) = n - (m + p)
          BY <2>6, <4>1 DEF q
        <4> QED
          BY <2>9, <3>2, <4>2
      <3>3. CASE k \in m+1..m+p /\ n \in m+p+1..m+p+q
        BY <2>4, <2>12, <2>13, <2>15, <3>3
      <3>4. CASE n \in m+1..m+p /\ k \in m+p+1..m+p+q
        BY <2>4, <2>12, <2>13, <2>15, <3>4
      <3> QED
        BY <2>9, <3>1, <3>2, <3>3, <3>4
    <2>16. ASSUME NEW a \in Added(vs, rep, off) PROVE \E k \in m+1..m+p+q : new[k] = a
      <3>1. a \in S \/ a \in V
        BY DEF Added, S, V
      <3>2. CASE a \in S
        <4> PICK k \in 1..p : s[k] = a
          BY <2>5, <3>2 DEF p
        <4>1. k + m \in m+1..m+p /\ k + m \in m+1..m+p+q /\ (k + m) - m = k
          BY <2>9
        <4> QED
          BY <2>12, <4>1
      <3>3. CASE a \in V
        <4> PICK k \in 1..q : v[k] = a
          BY <2>6, <3>3 DEF q
        <4>1. /\ k + (m + p) \in m+p+1..m+p+q /\ k + (m + p) \in m+1..m+p+q
              /\ (k + (m + p)) - (m + p) = k
          BY <2>9
        <4> QED
          BY <2>12, <4>1
      <3> QED
        BY <3>1, <3>2, <3>3
    <2>17. Len(vs) = m /\ Len(new) = m + p + q /\ m <= m + p + q
      BY <2>9, <2>11 DEF m
    <2> QED
      BY <1>2, <2>11, <2>12, <2>14, <2>15, <2>16, <2>17 DEF new
  <1> QED
    BY <1>1, <1>2

-----------------------------------------------------------------------------
(* The axis after one report *)

\* Rows behind the others that are of other items leave the newest version.
LEMMA NewestExtends ==
  ASSUME NEW vs \in Seq(Row), NEW new \in Seq(Row), Len(vs) <= Len(new),
         \A k \in 1..Len(vs) : new[k] = vs[k],
         NEW i, \A k \in Len(vs)+1..Len(new) : new[k].item # i
  PROVE  NewestVersion(new, i) = NewestVersion(vs, i)
  <1>0. Len(vs) \in Nat /\ Len(new) \in Nat
    BY LenProperties
  <1>1. CASE \E k \in 1..Len(vs) : vs[k].item = i
    <2> PICK k \in 1..Len(vs) : vs[k].item = i /\ IsNewest(vs, k)
      BY <1>1, NewestExists
    <2>1. k \in 1..Len(new) /\ new[k] = vs[k]
      BY <1>0
    <2>2. IsNewest(new, k)
      <3> SUFFICES ASSUME NEW n \in k+1..Len(new) PROVE new[n].item # i
        BY <2>1 DEF IsNewest
      <3>1. n \in k+1..Len(vs) \/ n \in Len(vs)+1..Len(new)
        BY <1>0
      <3>2. n \in k+1..Len(vs) => n \in 1..Len(vs)
        BY <1>0
      <3> QED
        BY <3>1, <3>2 DEF IsNewest
    <2>3. NewestVersion(vs, i) = vs[k]
      BY NewestIs
    <2>4. NewestVersion(new, i) = new[k]
      BY <2>1, <2>2, NewestIs
    <2> QED
      BY <2>1, <2>3, <2>4
  <1>2. CASE \A k \in 1..Len(vs) : vs[k].item # i
    <2>1. \A k \in 1..Len(new) : k \in 1..Len(vs) \/ k \in Len(vs)+1..Len(new)
      BY <1>0
    <2>2. \A k \in 1..Len(new) : new[k].item # i
      BY <1>2, <2>1
    <2> QED
      BY <1>2, <2>2, NewestNone
  <1> QED
    BY <1>1, <1>2

\* The newest version of an item after a report: the row it added, if any.
LEMMA NewestAfter ==
  ASSUME NEW vs \in Seq(Row), NEW rep \in Report, NEW off
  PROVE  LET new == RecordVersions(vs, rep, off)
         IN  /\ DOMAIN rep # {} => \A a \in Added(vs, rep, off) : NewestVersion(new, a.item) = a
             /\ \A i : (\A a \in Added(vs, rep, off) : a.item # i)
                         => NewestVersion(new, i) = NewestVersion(vs, i)
  <1> DEFINE new == RecordVersions(vs, rep, off)
  <1>0. /\ new \in Seq(Row) /\ Len(vs) <= Len(new)
        /\ \A k \in 1..Len(vs) : new[k] = vs[k]
        /\ \A k, n \in Len(vs)+1..Len(new) : new[k].item = new[n].item => k = n
        /\ \A k \in Len(vs)+1..Len(new) : new[k] \in Added(vs, rep, off)
        /\ DOMAIN rep # {} => \A a \in Added(vs, rep, off) :
                                 \E k \in Len(vs)+1..Len(new) : new[k] = a
    BY Recorded
  <1>1. Len(vs) \in Nat /\ Len(new) \in Nat
    BY <1>0, LenProperties
  <1> SUFFICES /\ DOMAIN rep # {} =>
                     \A a \in Added(vs, rep, off) : NewestVersion(new, a.item) = a
               /\ \A i : (\A a \in Added(vs, rep, off) : a.item # i)
                           => NewestVersion(new, i) = NewestVersion(vs, i)
    OBVIOUS
  <1> HIDE DEF new
  <1>2. ASSUME DOMAIN rep # {}, NEW a \in Added(vs, rep, off)
        PROVE  NewestVersion(new, a.item) = a
    <2> PICK k \in Len(vs)+1..Len(new) : new[k] = a
      BY <1>0, <1>2
    <2>1. k \in 1..Len(new)
      BY <1>1
    <2>2. IsNewest(new, k)
      <3> SUFFICES ASSUME NEW n \in k+1..Len(new), new[n].item = new[k].item PROVE FALSE
        BY DEF IsNewest
      <3>1. n \in Len(vs)+1..Len(new) /\ n # k
        BY <1>1
      <3> QED
        BY <1>0, <3>1
    <2> QED
      BY <1>0, <2>1, <2>2, NewestIs
  <1>3. ASSUME NEW i, \A a \in Added(vs, rep, off) : a.item # i
        PROVE  NewestVersion(new, i) = NewestVersion(vs, i)
    <2>1. \A k \in Len(vs)+1..Len(new) : new[k].item # i
      BY <1>0, <1>3
    <2> QED
      BY <1>0, <2>1, NewestExtends
  <1> QED
    BY <1>2, <1>3

\* The axis vs leads to report rep, looked for with the items off switched off.
Leads(vs, rep, off) == \A i \in Item :
    LET last == NewestVersion(vs, i)
    IN  IF i \in DOMAIN rep
        THEN last.kind # "gone" /\ last.st = rep[i].st /\ last.ds = rep[i].ds
        ELSE i \in off \/ last.kind = "gone"

\* Whatever the axis was before, a report makes it lead to that report.
LEMMA LeadsAfter ==
  ASSUME NEW vs \in Seq(Row), NEW rep \in Report, NEW off, DOMAIN rep # {}
  PROVE  Leads(RecordVersions(vs, rep, off), rep, off)
  <1> DEFINE new == RecordVersions(vs, rep, off)
             A == Added(vs, rep, off)
  <1>1. /\ \A a \in A : NewestVersion(new, a.item) = a
        /\ \A i : (\A a \in A : a.item # i) => NewestVersion(new, i) = NewestVersion(vs, i)
    BY NewestAfter
  <1>2. \A a \in A : Follows(vs, rep, off, a)
    BY AddedFollow
  <1> SUFFICES ASSUME NEW i \in Item
               PROVE  LET last == NewestVersion(new, i)
                      IN  IF i \in DOMAIN rep
                          THEN last.kind # "gone" /\ last.st = rep[i].st /\ last.ds = rep[i].ds
                          ELSE i \in off \/ last.kind = "gone"
    BY DEF Leads
  <1> HIDE DEF new, A
  <1> DEFINE old == NewestVersion(vs, i)
  <1>3. CASE i \in DOMAIN rep /\ old.kind = "gone"
    <2> DEFINE a == Appear(vs, rep, i)
    <2>1. /\ a.item = i /\ a.st = rep[i].st /\ a.ds = rep[i].ds
          /\ a.kind # "gone"
      BY DEF Appear
    <2>2. a \in A
      BY <1>3 DEF A, Added, Appeared
    <2> HIDE DEF a
    <2>3. NewestVersion(new, i) = a
      BY <1>1, <2>1, <2>2
    <2> QED
      BY <1>3, <2>1, <2>3
  <1>4. CASE /\ i \in DOMAIN rep /\ old.kind # "gone"
             /\ old.st # rep[i].st \/ old.ds # rep[i].ds
    <2> DEFINE a == Alter(old, rep, i)
    <2>1. /\ a.item = i /\ a.st = rep[i].st /\ a.ds = rep[i].ds
          /\ a.kind # "gone"
      BY DEF Alter
    <2>2. a \in A
      BY <1>4 DEF A, Added, Altered
    <2> HIDE DEF a
    <2>3. NewestVersion(new, i) = a
      BY <1>1, <2>1, <2>2
    <2> QED
      BY <1>4, <2>1, <2>3
  <1>5. CASE i \in DOMAIN rep /\ old.kind # "gone" /\ old.st = rep[i].st /\ old.ds = rep[i].ds
    <2>1. \A a \in A : a.item # i
      BY <1>2, <1>5 DEF Follows
    <2> QED
      BY <1>1, <1>5, <2>1
  <1>6. CASE i \notin DOMAIN rep /\ i \notin off /\ old.kind # "gone"
    <2> DEFINE a == Vanish(old, i)
    <2>1. a.item = i /\ a.kind = "gone"
      BY DEF Vanish
    <2>2. a \in A
      BY <1>6 DEF A, Added, Vanished
    <2> HIDE DEF a
    <2>3. NewestVersion(new, i) = a
      BY <1>1, <2>1, <2>2
    <2> QED
      BY <1>6, <2>1, <2>3
  <1>7. CASE i \notin DOMAIN rep /\ i \notin off /\ old.kind = "gone"
    <2>1. \A a \in A : a.item # i
      BY <1>2, <1>7 DEF Follows
    <2> QED
      BY <1>1, <1>7, <2>1
  <1> QED
    BY <1>3, <1>4, <1>5, <1>6, <1>7

\* An axis that leads to a report has nothing to add for it.
LEMMA NothingToAdd ==
  ASSUME NEW vs \in Seq(Row), NEW rep \in Report, NEW off, NEW before \in SUBSET off,
         Leads(vs, rep, before)
  PROVE  RecordVersions(vs, rep, off) = vs
  <1> DEFINE new == RecordVersions(vs, rep, off)
  <1>1. /\ new \in Seq(Row) /\ Len(vs) <= Len(new)
        /\ \A k \in 1..Len(vs) : new[k] = vs[k]
        /\ \A k \in Len(vs)+1..Len(new) : new[k] \in Added(vs, rep, off)
    BY Recorded
  <1>2. Added(vs, rep, off) = {}
    <2> SUFFICES ASSUME NEW a \in Added(vs, rep, off) PROVE FALSE
      OBVIOUS
    <2>1. Follows(vs, rep, off, a)
      BY AddedFollow
    <2>2. a.item \in Item
      BY <2>1, ReportTyped DEF Follows
    <2> QED
      BY <2>1, <2>2 DEF Follows, Leads
  <1> HIDE DEF new
  <1>3. Len(vs) \in Nat /\ Len(new) \in Nat
    BY <1>1, LenProperties
  <1>4. Len(new) = Len(vs)
    <2> SUFFICES ASSUME Len(new) # Len(vs) PROVE FALSE
      OBVIOUS
    <2>1. Len(new) \in Len(vs)+1..Len(new)
      BY <1>1, <1>3
    <2> QED
      BY <1>1, <1>2, <2>1
  <1> QED
    BY <1>1, <1>4, SeqEqual DEF new

-----------------------------------------------------------------------------
(* Chains *)

\* A version follows on the one before it.
Link(old, new) == IF new.kind = "new" THEN old.kind = "gone"
                  ELSE old.kind # "gone" /\ new.before = old.st

\* Every version of an item follows on the one before it.
Chained(vs) == \A k, n \in 1..Len(vs) :
    k < n /\ vs[k].item = vs[n].item /\ (\A x \in k+1..n-1 : vs[x].item # vs[k].item)
      => Link(vs[k], vs[n])

LEMMA ChainRecorded ==
  ASSUME NEW vs \in Seq(Row), NEW rep \in Report, NEW off, Chained(vs)
  PROVE  Chained(RecordVersions(vs, rep, off))
  <1> DEFINE new == RecordVersions(vs, rep, off)
  <1>1. /\ new \in Seq(Row) /\ Len(vs) <= Len(new)
        /\ \A k \in 1..Len(vs) : new[k] = vs[k]
        /\ \A k, n \in Len(vs)+1..Len(new) : new[k].item = new[n].item => k = n
        /\ \A k \in Len(vs)+1..Len(new) : new[k] \in Added(vs, rep, off)
    BY Recorded
  <1> HIDE DEF new
  <1>2. Len(vs) \in Nat /\ Len(new) \in Nat
    BY <1>1, LenProperties
  <1>3. SUFFICES ASSUME NEW k \in 1..Len(new), NEW n \in 1..Len(new), k < n,
                        new[k].item = new[n].item,
                        \A x \in k+1..n-1 : new[x].item # new[k].item
                 PROVE  Link(new[k], new[n])
    BY DEF Chained, new
  <1>4. CASE n <= Len(vs)
    <2>1. /\ k \in 1..Len(vs) /\ n \in 1..Len(vs)
          /\ \A x \in k+1..n-1 : x \in 1..Len(vs)
      BY <1>2, <1>3, <1>4
    <2>2. new[k] = vs[k] /\ new[n] = vs[n] /\ \A x \in k+1..n-1 : vs[x].item # vs[k].item
      BY <1>1, <1>3, <2>1
    <2> QED
      BY <1>3, <2>1, <2>2 DEF Chained
  <1>5. CASE ~(n <= Len(vs))
    <2>1. n \in Len(vs)+1..Len(new)
      BY <1>2, <1>5
    <2>2. k \in 1..Len(vs)
      <3>1. CASE k \in Len(vs)+1..Len(new)
        BY <1>1, <1>2, <1>3, <2>1, <3>1
      <3> QED
        BY <1>2, <3>1
    <2>3. IsNewest(vs, k)
      <3> SUFFICES ASSUME NEW x \in k+1..Len(vs) PROVE vs[x].item # vs[k].item
        BY DEF IsNewest
      <3>1. x \in k+1..n-1 /\ x \in 1..Len(vs)
        BY <1>2, <2>1, <2>2
      <3> QED
        BY <1>1, <1>3, <2>2, <3>1
    <2> DEFINE a == new[n]
    <2>4. NewestVersion(vs, a.item) = new[k]
      BY <1>1, <1>3, <2>2, <2>3, NewestIs
    <2>5. Follows(vs, rep, off, a)
      BY <1>1, <2>1, AddedFollow
    <2>6. vs # <<>>
      BY <1>2, <2>2
    <2> HIDE DEF a
    <2>7. CASE a = Appear(vs, rep, a.item) /\ new[k].kind = "gone"
      BY <2>6, <2>7 DEF Appear, Link, a
    <2>8. CASE a \in {Alter(new[k], rep, a.item), Vanish(new[k], a.item)} /\ new[k].kind # "gone"
      <3>1. a.kind # "new" /\ a.before = new[k].st
        BY <2>8 DEF Alter, Vanish
      <3> QED
        BY <2>8, <3>1 DEF Link, a
    <2> QED
      BY <2>4, <2>5, <2>7, <2>8 DEF Follows
  <1> QED
    BY <1>4, <1>5

\* What the cap leaves: the newest rows, all of them below the cap.
LEMMA Trimmed ==
  ASSUME NEW vs \in Seq(Row)
  PROVE  LET new == TrimVersions(vs)
         IN  /\ new \in Seq(Row) /\ Len(new) <= Len(vs) /\ Len(new) <= Cap
             /\ Len(new) < Cap => new = vs
             /\ Len(new) < Len(vs) => Len(new) = Cap
             /\ \A k \in 1..Len(new) : new[k] = vs[k + (Len(vs) - Len(new))]
             /\ vs # <<>> => new # <<>>
  <1>0. Len(vs) \in Nat /\ Cap \in Nat \ {0}
    BY LenProperties, StoreAssumption
  <1>1. CASE Len(vs) <= Cap
    <2>1. TrimVersions(vs) = vs
      BY <1>1 DEF TrimVersions
    <2>2. \A k \in 1..Len(vs) : k + (Len(vs) - Len(vs)) = k
      BY <1>0
    <2> QED
      BY <1>0, <1>1, <2>1, <2>2
  <1>2. CASE ~(Len(vs) <= Cap)
    <2> DEFINE m == Len(vs) - Cap + 1
               new == SubSeq(vs, m, Len(vs))
    <2>1. TrimVersions(vs) = new
      BY <1>2 DEF TrimVersions
    <2>2. \A i \in m..Len(vs) : vs[i] \in Row
      <3> SUFFICES ASSUME NEW i \in m..Len(vs) PROVE vs[i] \in Row
        OBVIOUS
      <3>1. i \in 1..Len(vs)
        BY <1>0, <1>2
      <3> QED
        BY <3>1, ElementOfSeq
    <2>3. /\ m \in Int /\ Len(vs) \in Int /\ m <= Len(vs)
          /\ Len(vs) - m + 1 = Cap
      BY <1>0, <1>2
    <2> HIDE DEF m
    <2>4. /\ new \in Seq(Row) /\ Len(new) = Cap
          /\ \A k \in 1..Cap : new[k] = vs[m + k - 1]
      BY <2>2, <2>3, SubSeqProperties
    <2>5. \A k \in 1..Cap : m + k - 1 = k + (Len(vs) - Cap)
      BY <1>0 DEF m
    <2>6. new # <<>>
      BY <1>0, <2>4, EmptySeq
    <2> HIDE DEF new
    <2> QED
      BY <1>0, <1>2, <2>1, <2>4, <2>5, <2>6
  <1> QED
    BY <1>1, <1>2

LEMMA ChainTrimmed ==
  ASSUME NEW vs \in Seq(Row), Chained(vs)
  PROVE  Chained(TrimVersions(vs))
  <1> DEFINE new == TrimVersions(vs)
             d == Len(vs) - Len(new)
  <1>1. /\ new \in Seq(Row) /\ Len(new) <= Len(vs)
        /\ \A k \in 1..Len(new) : new[k] = vs[k + d]
    BY Trimmed
  <1>2. Len(vs) \in Nat /\ Len(new) \in Nat
    BY <1>1, LenProperties
  <1>3. d \in Nat /\ Len(new) + d = Len(vs)
    BY <1>1, <1>2
  <1> HIDE DEF new, d
  <1>4. SUFFICES ASSUME NEW k \in 1..Len(new), NEW n \in 1..Len(new), k < n,
                        new[k].item = new[n].item,
                        \A x \in k+1..n-1 : new[x].item # new[k].item
                 PROVE  Link(new[k], new[n])
    BY DEF Chained, new
  <1>5. k + d \in 1..Len(vs) /\ n + d \in 1..Len(vs) /\ k + d < n + d
    BY <1>2, <1>3, <1>4
  <1>6. \A x \in (k+d)+1..(n+d)-1 : vs[x].item # vs[k+d].item
    <2> SUFFICES ASSUME NEW x \in (k+d)+1..(n+d)-1 PROVE vs[x].item # vs[k+d].item
      OBVIOUS
    <2>1. x - d \in k+1..n-1 /\ x - d \in 1..Len(new) /\ (x - d) + d = x
      BY <1>2, <1>3, <1>4
    <2> QED
      BY <1>1, <1>4, <2>1
  <1> QED
    BY <1>1, <1>4, <1>5, <1>6 DEF Chained

-----------------------------------------------------------------------------
(* The backfill of one host *)

\* The recursion of Replay has a solution: one more report extends the solution
\* for those before it.
LEMMA ReplaySteps ==
  ASSUME NEW rs \in Seq(Report)
  PROVE  \E upto : /\ upto[0] = <<>>
                   /\ \A n \in 1..Len(rs) : upto[n] = RecordVersions(upto[n - 1], rs[n], {})
                   /\ Replay(rs) = upto[Len(rs)]
  <1> DEFINE Solves(f, m) ==
        f = [n \in 0..m |-> IF n = 0 THEN <<>> ELSE RecordVersions(f[n - 1], rs[n], {})]
             Bad == {m \in Nat : ~\E f : Solves(f, m)}
  <1>1. Bad = {}
    <2> SUFFICES ASSUME Bad # {} PROVE FALSE
      OBVIOUS
    <2>1. PICK m \in Bad : \A k \in Bad : m <= k
      <3>1. Bad \in SUBSET Nat
        OBVIOUS
      <3> HIDE DEF Bad
      <3> QED
        BY <3>1, LeastNumber
    <2>2. CASE m = 0
      <3> DEFINE f == [n \in 0..0 |-> <<>>]
      <3>1. Solves(f, 0)
        OBVIOUS
      <3> QED
        BY <2>2, <3>1
    <2>3. CASE m # 0
      <3>1. m \in Nat /\ m - 1 \in Nat
        BY <2>3
      <3>2. PICK f : Solves(f, m - 1)
        <4>1. m - 1 \notin Bad
          <5> HIDE DEF Bad
          <5> QED
            BY <2>1, <3>1
        <4> QED
          BY <3>1, <4>1
      <3> DEFINE g == [n \in 0..m |-> IF n = m THEN RecordVersions(f[m - 1], rs[m], {}) ELSE f[n]]
                 h == [n \in 0..m |-> IF n = 0 THEN <<>> ELSE RecordVersions(g[n - 1], rs[n], {})]
      <3>3. ASSUME NEW n \in 0..m PROVE g[n] = h[n]
        <4>1. CASE n = m
          <5>1. m - 1 \in 0..m /\ m - 1 # m
            BY <3>1
          <5> QED
            BY <2>3, <4>1, <5>1
        <4>2. CASE n # m /\ n # 0
          <5>1. n \in 0..m-1 /\ n - 1 \in 0..m /\ n - 1 # m
            BY <3>1, <4>2
          <5>2. g[n] = f[n] /\ g[n - 1] = f[n - 1]
            BY <4>2, <5>1
          <5> QED
            BY <3>2, <4>2, <5>1, <5>2
        <4>3. CASE n # m /\ n = 0
          <5>1. n \in 0..m-1
            BY <3>1, <4>3
          <5> QED
            BY <3>2, <4>3, <5>1
        <4> QED
          BY <4>1, <4>2, <4>3
      <3>4. g = h
        BY <3>3
      <3> QED
        BY <2>1, <3>4
    <2> QED
      BY <2>2, <2>3
  <1>2. Len(rs) \in Nat
    BY LenProperties
  <1> DEFINE upto == CHOOSE f : Solves(f, Len(rs))
  <1>3. Solves(upto, Len(rs))
    BY <1>1, <1>2
  <1>4. Replay(rs) = upto[Len(rs)]
    BY DEF Replay
  <1>5. /\ upto[0] = <<>>
        /\ \A n \in 1..Len(rs) : upto[n] = RecordVersions(upto[n - 1], rs[n], {})
    <2> HIDE DEF upto
    <2> QED
      BY <1>2, <1>3
  <1> HIDE DEF upto
  <1> QED
    BY <1>4, <1>5

LEMMA RecordedSome ==
  ASSUME NEW vs \in Seq(Row), NEW rep \in Report, NEW off, vs # <<>> \/ DOMAIN rep # {}
  PROVE  RecordVersions(vs, rep, off) # <<>>
  <1> DEFINE new == RecordVersions(vs, rep, off)
  <1>1. new \in Seq(Row) /\ Len(vs) <= Len(new)
    BY Recorded
  <1>2. Len(vs) \in Nat /\ Len(new) \in Nat
    BY <1>1, LenProperties
  <1>3. CASE vs # <<>>
    <2>1. Len(vs) # 0
      BY <1>3, EmptySeq
    <2> HIDE DEF new
    <2>2. new # <<>>
      BY <1>1, <1>2, <2>1, EmptySeq
    <2> QED
      BY <2>2 DEF new
  <1>4. CASE DOMAIN rep # {}
    <2> PICK i \in DOMAIN rep : TRUE
      BY <1>4
    <2>1. i \in Item
      BY ReportTyped
    <2>2. NewestVersion(new, i).kind # "gone"
      BY <1>4, <2>1, LeadsAfter DEF Leads
    <2> HIDE DEF new
    <2>3. ASSUME new = <<>> PROVE FALSE
      <3>1. \A k \in 1..Len(new) : new[k].item # i
        BY <2>3, EmptySeq
      <3>2. NewestVersion(new, i) = NoVersion
        BY <1>1, <3>1, NewestNone
      <3> QED
        BY <2>2, <3>2 DEF NoVersion
    <2> QED
      BY <2>3 DEF new
  <1> QED
    BY <1>3, <1>4

\* The backfill gives a host a chained axis that leads to its newest report.
LEMMA Replayed ==
  ASSUME NEW rs \in Seq(Report)
  PROVE  /\ Replay(rs) \in Seq(Row)
         /\ Chained(Replay(rs))
         /\ (\E k \in 1..Len(rs) : DOMAIN rs[k] # {}) => Replay(rs) # <<>>
         /\ rs # <<>> /\ DOMAIN Last(rs) # {} => Leads(Replay(rs), Last(rs), {})
  <1> PICK upto : /\ upto[0] = <<>>
                  /\ \A n \in 1..Len(rs) : upto[n] = RecordVersions(upto[n - 1], rs[n], {})
                  /\ Replay(rs) = upto[Len(rs)]
    BY ReplaySteps
  <1> DEFINE Good(n) == /\ upto[n] \in Seq(Row) /\ Chained(upto[n])
                        /\ (\E k \in 1..n : DOMAIN rs[k] # {}) => upto[n] # <<>>
             Bad == {n \in 0..Len(rs) : ~Good(n)}
  <1>1. Len(rs) \in Nat
    BY LenProperties
  <1>2. Good(0)
    <2>1. <<>> \in Seq(Row) /\ Len(<<>>) = 0
      BY EmptySeq
    <2>2. Chained(<<>>)
      BY <2>1 DEF Chained
    <2> QED
      BY <2>1, <2>2
  <1>3. ASSUME NEW n \in 1..Len(rs), Good(n - 1)
        PROVE  Good(n)
    <2>1. rs[n] \in Report
      BY ElementOfSeq
    <2>2. upto[n - 1] \in Seq(Row) /\ Chained(upto[n - 1])
      BY <1>3
    <2>3. upto[n] \in Seq(Row) /\ Chained(upto[n])
      BY <2>1, <2>2, Recorded, ChainRecorded
    <2>4. ASSUME NEW k \in 1..n, DOMAIN rs[k] # {} PROVE upto[n] # <<>>
      <3>1. k = n \/ k \in 1..n-1
        BY <1>1
      <3>2. upto[n - 1] # <<>> \/ DOMAIN rs[n] # {}
        BY <1>3, <2>4, <3>1
      <3> QED
        BY <2>1, <2>2, <3>2, RecordedSome
    <2> QED
      BY <2>3, <2>4
  <1>4. Bad = {}
    <2> SUFFICES ASSUME Bad # {} PROVE FALSE
      OBVIOUS
    <2>1. PICK n \in Bad : \A k \in Bad : n <= k
      <3>1. Bad \in SUBSET Nat
        BY <1>1
      <3> HIDE DEF Bad
      <3> QED
        BY <3>1, LeastNumber
    <2>2. n \in 0..Len(rs) /\ ~Good(n)
      OBVIOUS
    <2> HIDE DEF Good
    <2>3. n \in 1..Len(rs) /\ n - 1 \in 0..Len(rs) /\ ~(n <= n - 1)
      BY <1>1, <1>2, <2>2
    <2>4. Good(n - 1)
      <3>1. n - 1 \notin Bad
        <4> HIDE DEF Bad
        <4> QED
          BY <2>1, <2>3
      <3> QED
        BY <2>3, <3>1
    <2> QED
      BY <1>3, <2>2, <2>3, <2>4
  <1>5. Good(Len(rs))
    <2> HIDE DEF Good
    <2>1. Len(rs) \in 0..Len(rs)
      BY <1>1
    <2> QED
      BY <1>4, <2>1
  <1>6. ASSUME rs # <<>>, DOMAIN Last(rs) # {}
        PROVE  Leads(Replay(rs), Last(rs), {})
    <2> DEFINE n == Len(rs)
    <2>1. n \in 1..Len(rs) /\ n - 1 \in 0..Len(rs)
      BY <1>1, <1>6, EmptySeq
    <2>2. Good(n - 1)
      <3> HIDE DEF Good
      <3> QED
        BY <1>4, <2>1
    <2>3. upto[n - 1] \in Seq(Row) /\ rs[n] \in Report
      BY <2>1, <2>2, ElementOfSeq
    <2>4. Leads(RecordVersions(upto[n - 1], rs[n], {}), rs[n], {})
      BY <1>6, <2>3, LeadsAfter DEF Last
    <2> QED
      BY <2>1, <2>4 DEF Last
  <1> QED
    BY <1>5, <1>6

-----------------------------------------------------------------------------
(* Steps *)

Change == [item : Item, before : Verdict, after : Verdict]

\* The types of the variables that have to do with hosts and their reports.
StoreTyped ==
    /\ runs \in [Host -> Seq(Report)]
    /\ changes \in [Host -> SUBSET Change]
    /\ versions \in [Host -> Seq(Row)]
    /\ disabled \subseteq Item
    /\ todo \subseteq Host /\ missed \subseteq Host
    /\ skipped \in [Host -> SUBSET Item]

\* What a step may do to the records of one host.
Rests(h) == /\ runs'[h] = runs[h] /\ changes'[h] = changes[h]
            /\ versions'[h] = versions[h] /\ skipped'[h] = skipped[h]
Reported(h, rep) ==
    /\ Up /\ DOMAIN rep \cap disabled = {}
    /\ runs'[h] = Append(runs[h], rep)
    /\ changes'[h] = Changes(runs[h], rep, disabled)
    /\ versions'[h] = TrimVersions(RecordVersions(versions[h], rep, disabled))
    /\ skipped'[h] = disabled /\ disabled' = disabled
Cut(h) == \E k \in 1..Len(runs[h]) :
    /\ Up /\ runs'[h] = SubSeq(runs[h], k + 1, Len(runs[h])) /\ changes'[h] \in {changes[h], {}}
    /\ versions'[h] = versions[h] /\ skipped'[h] = skipped[h]
Deleted(h) == /\ Up /\ runs'[h] = <<>> /\ changes'[h] = {}
              /\ versions'[h] = <<>> /\ skipped'[h] = {}
Rebuilt(h) == /\ boot = "rebuild" /\ h \in todo
              /\ runs'[h] = runs[h] /\ changes'[h] = changes[h]
              /\ versions'[h] = Replay(runs[h]) /\ skipped'[h] = {}

LEMMA FilteredTyped ==
  ASSUME NEW raw \in Reports([st : Status, ds : Desc]), NEW off
  PROVE  Filtered(raw, off) \in Report /\ DOMAIN Filtered(raw, off) \cap off = {}
  <1> DEFINE rep == Filtered(raw, off)
             D == DOMAIN raw \ off
  <1>1. DOMAIN raw \subseteq Item /\ \A i \in DOMAIN raw : raw[i] \in [st : Status, ds : Desc]
    BY DEF Reports
  <1>2. ASSUME NEW i \in D
        PROVE  [raw[i] EXCEPT !.st = IF @ \in Known THEN @ ELSE "manual"] \in [st : Known, ds : Text]
    BY <1>1 DEF Known, Text
  <1>3. rep \in [D -> [st : Known, ds : Text]]
    BY <1>2 DEF Filtered
  <1>4. D \in SUBSET Item
    BY <1>1
  <1> QED
    BY <1>3, <1>4 DEF Report, Reports

LEMMA HostSteps ==
  ASSUME StoreTyped, Next, NEW h \in Host
  PROVE  \/ Rests(h) \/ Cut(h) \/ Deleted(h) \/ Rebuilt(h)
         \/ \E rep \in Report : Reported(h, rep)
  <1>1. ASSUME NEW g \in Host, NEW raw \in Reports([st : Status, ds : Desc]), SaveReport(g, raw)
        PROVE  Rests(h) \/ \E rep \in Report : Reported(h, rep)
    <2> DEFINE rep == Filtered(raw, disabled)
    <2>1. rep \in Report /\ DOMAIN rep \cap disabled = {}
      BY FilteredTyped
    <2> HIDE DEF rep
    <2>2. CASE g = h
      BY <1>1, <2>1, <2>2 DEF SaveReport, Reported, StoreTyped, rep
    <2>3. CASE g # h
      BY <1>1, <2>3 DEF SaveReport, Rests, StoreTyped
    <2> QED
      BY <2>2, <2>3
  <1>2. ASSUME NEW g \in Host, Cleanup(g)
        PROVE  Rests(h) \/ Cut(h)
    <2>1. CASE g = h
      BY <1>2, <2>1 DEF Cleanup, Cut, StoreTyped
    <2>2. CASE g # h
      BY <1>2, <2>2 DEF Cleanup, Rests, StoreTyped
    <2> QED
      BY <2>1, <2>2
  <1>3. ASSUME NEW g \in Host, Delete(g)
        PROVE  Rests(h) \/ Deleted(h)
    BY <1>3 DEF Delete, Deleted, Rests, StoreTyped
  <1>4. ASSUME NEW g \in Host, RebuildHost(g)
        PROVE  Rests(h) \/ Rebuilt(h)
    BY <1>4 DEF RebuildHost, Rebuilt, Rests, StoreTyped
  <1>5. CASE \/ RebuildSkips \/ RebuildBegins \/ RebuildEnds \/ RebuildFails \/ Crash
             \/ \E i \in Item : Toggle(i)
    BY <1>5 DEF RebuildSkips, RebuildBegins, RebuildEnds, RebuildFails, Crash, Toggle, Rests
  <1> QED
    BY <1>1, <1>2, <1>3, <1>4, <1>5 DEF Next

LEMMA LastTyped ==
  ASSUME NEW rs \in Seq(Report), rs # <<>>
  PROVE  Last(rs) \in Report
  <1>1. Len(rs) \in 1..Len(rs)
    BY LenProperties, EmptySeq
  <1> QED
    BY <1>1, ElementOfSeq DEF Last

\* What a recent change says of its item.
LEMMA ChangeSays ==
  ASSUME NEW rs \in Seq(Report), NEW rep \in Report, NEW off, NEW c \in Changes(rs, rep, off)
  PROVE  LET known == DOMAIN Last(rs) \ off
         IN  /\ rs # <<>> /\ DOMAIN rep # {}
             /\ c.item \in DOMAIN rep \cup known
             /\ c.before = IF c.item \in known THEN Last(rs)[c.item].st ELSE Absent
             /\ c.after = IF c.item \in DOMAIN rep THEN rep[c.item].st ELSE Absent
             /\ c.before # c.after
             /\ c = [item |-> c.item, before |-> c.before, after |-> c.after]
  <1> DEFINE prev == Previous(rs, off)
             old(i) == IF i \in DOMAIN prev THEN prev[i].st ELSE Absent
             now(i) == IF i \in DOMAIN rep THEN rep[i].st ELSE Absent
  <1>1. rs # <<>> /\ DOMAIN rep # {}
    BY DEF Changes
  <1>2. DOMAIN prev = DOMAIN Last(rs) \ off /\ \A i \in DOMAIN prev : prev[i] = Last(rs)[i]
    BY DEF Previous
  <1>3. PICK i \in DOMAIN rep \cup DOMAIN prev :
             c = [item |-> i, before |-> old(i), after |-> now(i)] /\ old(i) # now(i)
    BY <1>1 DEF Changes
  <1>4. c.item = i /\ c.before = old(i) /\ c.after = now(i)
    BY <1>3
  <1> HIDE DEF prev
  <1> QED
    BY <1>1, <1>2, <1>3, <1>4

LEMMA ChangesTyped ==
  ASSUME NEW rs \in Seq(Report), NEW rep \in Report, NEW off
  PROVE  Changes(rs, rep, off) \in SUBSET Change
  <1> SUFFICES ASSUME NEW c \in Changes(rs, rep, off) PROVE c \in Change
    OBVIOUS
  <1> DEFINE known == DOMAIN Last(rs) \ off
  <1>1. /\ rs # <<>>
        /\ c.item \in DOMAIN rep \cup known
        /\ c.before = IF c.item \in known THEN Last(rs)[c.item].st ELSE Absent
        /\ c.after = IF c.item \in DOMAIN rep THEN rep[c.item].st ELSE Absent
        /\ c = [item |-> c.item, before |-> c.before, after |-> c.after]
    BY ChangeSays
  <1>2. /\ DOMAIN rep \subseteq Item /\ DOMAIN Last(rs) \subseteq Item
        /\ \A i \in DOMAIN rep : rep[i].st \in Known
        /\ \A i \in DOMAIN Last(rs) : Last(rs)[i].st \in Known
    BY <1>1, LastTyped, ReportTyped
  <1>3. c.item \in Item /\ c.before \in Verdict /\ c.after \in Verdict
    BY <1>1, <1>2 DEF Verdict
  <1> QED
    BY <1>1, <1>3 DEF Change

LEMMA StoreTypedStays ==
  ASSUME StoreTyped, Next
  PROVE  StoreTyped'
  <1>1. ASSUME NEW h \in Host
        PROVE  /\ runs'[h] \in Seq(Report) /\ changes'[h] \in SUBSET Change
               /\ versions'[h] \in Seq(Row) /\ skipped'[h] \in SUBSET Item
    <2>0. /\ runs[h] \in Seq(Report) /\ changes[h] \in SUBSET Change
          /\ versions[h] \in Seq(Row) /\ skipped[h] \in SUBSET Item /\ disabled \in SUBSET Item
      BY DEF StoreTyped
    <2>1. ASSUME NEW rep \in Report, Reported(h, rep)
          PROVE  /\ runs'[h] \in Seq(Report) /\ changes'[h] \in SUBSET Change
                 /\ versions'[h] \in Seq(Row) /\ skipped'[h] \in SUBSET Item
      <3>1. RecordVersions(versions[h], rep, disabled) \in Seq(Row)
        BY <2>0, Recorded
      <3>2. versions'[h] \in Seq(Row)
        BY <2>1, <3>1, Trimmed DEF Reported
      <3>3. runs'[h] \in Seq(Report)
        BY <2>0, <2>1, AppendProperties DEF Reported
      <3>4. changes'[h] \in SUBSET Change
        BY <2>0, <2>1, ChangesTyped DEF Reported
      <3> QED
        BY <2>0, <2>1, <3>2, <3>3, <3>4 DEF Reported
    <2>2. CASE Cut(h)
      <3> PICK k \in 1..Len(runs[h]) : runs'[h] = SubSeq(runs[h], k + 1, Len(runs[h]))
        BY <2>2 DEF Cut
      <3>0. Len(runs[h]) \in Nat
        BY <2>0, LenProperties
      <3>1. \A i \in k+1..Len(runs[h]) : i \in 1..Len(runs[h])
        BY <3>0
      <3>2. \A i \in k+1..Len(runs[h]) : runs[h][i] \in Report
        BY <2>0, <3>1, ElementOfSeq
      <3>3. runs'[h] \in Seq(Report)
        BY <3>0, <3>2, SubSeqProperties
      <3> QED
        BY <2>0, <2>2, <3>3 DEF Cut
    <2>3. CASE Deleted(h)
      BY <2>3, EmptySeq DEF Deleted
    <2>4. CASE Rebuilt(h)
      BY <2>0, <2>4, Replayed DEF Rebuilt
    <2>5. CASE Rests(h)
      BY <2>0, <2>5 DEF Rests
    <2> QED
      BY <2>1, <2>2, <2>3, <2>4, <2>5, HostSteps
  <1>2. /\ runs' = [h \in Host |-> runs'[h]] /\ changes' = [h \in Host |-> changes'[h]]
        /\ versions' = [h \in Host |-> versions'[h]] /\ skipped' = [h \in Host |-> skipped'[h]]
    BY DEF StoreTyped, Next, SaveReport, Toggle, Cleanup, Delete, RebuildHost, RebuildSkips,
           RebuildBegins, RebuildEnds, RebuildFails, Crash
  <1>3. disabled' \subseteq Item /\ todo' \subseteq Host /\ missed' \subseteq Host
    BY DEF StoreTyped, Next, SaveReport, Toggle, Cleanup, Delete, RebuildHost, RebuildSkips,
           RebuildBegins, RebuildEnds, RebuildFails, Crash
  <1>4. /\ runs' \in [Host -> Seq(Report)] /\ changes' \in [Host -> SUBSET Change]
        /\ versions' \in [Host -> Seq(Row)] /\ skipped' \in [Host -> SUBSET Item]
    BY <1>1, <1>2
  <1> QED
    BY <1>3, <1>4 DEF StoreTyped

LEMMA StoreTypedInit == Init => StoreTyped
  <1> SUFFICES ASSUME Init PROVE StoreTyped
    OBVIOUS
  <1>1. Earlier \subseteq Seq(Report)
    BY StoreAssumption DEF Report
  <1>2. <<>> \in Seq(Row)
    BY EmptySeq
  <1> QED
    BY <1>1, <1>2 DEF Init, StoreTyped

\* What keeps the axis of a host behind its reports, outside the program's
\* running times as well.
Leading == \A h \in Host :
    Untrimmed(h) /\ versions[h] # <<>> /\ DOMAIN Newest(h) # {}
      => Leads(versions[h], Newest(h), skipped[h])

\* A host with reports but without axis was missed by a backfill, or it is one
\* that the backfill under way, or the one of this start, will get to.
Filled == \A h \in Host :
    (\E k \in 1..Len(runs[h]) : DOMAIN runs[h][k] # {}) /\ versions[h] = <<>>
      => \/ h \in missed
         \/ boot = "rebuild" /\ h \in todo
         \/ boot = "start" /\ \A g \in Host : versions[g] = <<>>

FirstBackfill == boot = "rebuild" => missed = {}

StoreInv == StoreTyped /\ Leading /\ Filled /\ FirstBackfill /\ ChainOfVersions

LEMMA NewestTypedReport ==
  ASSUME StoreTyped, NEW h \in Host, DOMAIN Newest(h) # {}
  PROVE  runs[h] # <<>> /\ Newest(h) = Last(runs[h]) /\ Newest(h) \in Report
  <1>1. DOMAIN <<>> = {}
    OBVIOUS
  <1>2. runs[h] # <<>> /\ Newest(h) = Last(runs[h])
    BY <1>1 DEF Newest
  <1> QED
    BY <1>2, LastTyped DEF StoreTyped

LEMMA LeadingStays ==
  ASSUME StoreTyped, Leading, Next
  PROVE  Leading'
  <1> SUFFICES ASSUME NEW h \in Host, Untrimmed(h)', versions'[h] # <<>>, DOMAIN Newest(h)' # {}
               PROVE  Leads(versions'[h], Newest(h)', skipped'[h])
    BY DEF Leading, Leads
  <1>0. /\ runs[h] \in Seq(Report) /\ versions[h] \in Seq(Row)
        /\ Len(runs[h]) \in Nat
    BY LenProperties DEF StoreTyped
  <1>1. CASE Rests(h)
    BY <1>1 DEF Rests, Leading, Newest, Untrimmed
  <1>2. ASSUME NEW rep \in Report, Reported(h, rep)
        PROVE  Leads(versions'[h], Newest(h)', skipped'[h])
    <2> DEFINE new == RecordVersions(versions[h], rep, disabled)
    <2>1. new \in Seq(Row)
      BY <1>0, Recorded
    <2>2. versions'[h] = new
      BY <1>2, <2>1, Trimmed DEF Reported, Untrimmed
    <2>3. Newest(h)' = rep
      BY <1>0, <1>2, AppendProperties DEF Reported, Newest, Last
    <2>4. Leads(new, rep, disabled)
      BY <1>0, <2>3, LeadsAfter
    <2> HIDE DEF new
    <2> QED
      BY <1>2, <2>2, <2>3, <2>4 DEF Reported
  <1>3. CASE Cut(h)
    <2> PICK k \in 1..Len(runs[h]) :
             /\ runs'[h] = SubSeq(runs[h], k + 1, Len(runs[h]))
             /\ versions'[h] = versions[h] /\ skipped'[h] = skipped[h]
      BY <1>3 DEF Cut
    <2>1. \A i \in k+1..Len(runs[h]) : runs[h][i] \in Report
      <3>1. \A i \in k+1..Len(runs[h]) : i \in 1..Len(runs[h])
        BY <1>0
      <3> QED
        BY <1>0, <3>1, ElementOfSeq
    <2>2. runs'[h] # <<>> /\ Newest(h)' = Last(runs'[h])
      <3>1. DOMAIN <<>> = {}
        OBVIOUS
      <3> QED
        BY <3>1 DEF Newest
    <2>3. k + 1 <= Len(runs[h])
      BY <1>0, <2>2, SubSeqEmpty
    <2>4. /\ Len(runs'[h]) = Len(runs[h]) - (k + 1) + 1
          /\ \A i \in 1..Len(runs[h]) - (k + 1) + 1 : runs'[h][i] = runs[h][(k + 1) + i - 1]
      BY <1>0, <2>1, <2>3, SubSeqProperties
    <2>5. runs'[h][Len(runs'[h])] = runs[h][Len(runs[h])]
      BY <1>0, <2>3, <2>4
    <2>6. Newest(h)' = Newest(h)
      <3>1. runs[h] # <<>>
        BY <1>0, <2>3, EmptySeq
      <3> QED
        BY <2>2, <2>5, <3>1 DEF Newest, Last
    <2> QED
      BY <2>6 DEF Leading, Untrimmed
  <1>4. CASE Deleted(h)
    BY <1>4 DEF Deleted
  <1>5. CASE Rebuilt(h)
    <2>1. Newest(h)' = Newest(h) /\ DOMAIN Newest(h) # {}
      BY <1>5 DEF Rebuilt, Newest
    <2>2. runs[h] # <<>> /\ Newest(h) = Last(runs[h])
      BY <2>1, NewestTypedReport
    <2> QED
      BY <1>0, <1>5, <2>1, <2>2, Replayed DEF Rebuilt
  <1> QED
    BY <1>1, <1>2, <1>3, <1>4, <1>5, HostSteps

LEMMA FilledStays ==
  ASSUME StoreTyped, Filled, FirstBackfill, Next
  PROVE  Filled'
  <1> SUFFICES ASSUME NEW h \in Host, NEW k \in 1..Len(runs'[h]), DOMAIN runs'[h][k] # {},
                      versions'[h] = <<>>
               PROVE  \/ h \in missed'
                      \/ boot' = "rebuild" /\ h \in todo'
                      \/ boot' = "start" /\ \A g \in Host : versions'[g] = <<>>
    BY DEF Filled
  <1>0. /\ runs[h] \in Seq(Report) /\ versions[h] \in Seq(Row)
        /\ Len(runs[h]) \in Nat
    BY LenProperties DEF StoreTyped
  <1>1. CASE RebuildBegins
    BY <1>1 DEF RebuildBegins
  <1> DEFINE before == /\ \E n \in 1..Len(runs[h]) : DOMAIN runs[h][n] # {}
                       /\ versions[h] = <<>>
  <1>2. CASE RebuildSkips \/ RebuildEnds
    <2>1. before
      BY <1>2 DEF RebuildSkips, RebuildEnds
    <2> QED
      BY <1>2, <2>1 DEF Filled, RebuildSkips, RebuildEnds
  <1>3. CASE RebuildFails \/ Crash
    <2>1. before
      BY <1>3 DEF RebuildFails, Crash
    <2> QED
      BY <1>3, <2>1 DEF Filled, FirstBackfill, RebuildFails, Crash
  <1>4. CASE ~(RebuildBegins \/ RebuildSkips \/ RebuildEnds \/ RebuildFails \/ Crash)
    <2>1. \/ \E i \in Item : Toggle(i)
          \/ /\ missed' = missed /\ boot' = boot /\ boot # "start"
             /\ \A g \in todo : g \in todo' \/ RebuildHost(g)
      BY <1>4 DEF Next, SaveReport, Cleanup, Delete, RebuildHost, Up
    <2>2. missed' = missed /\ boot' = boot /\ boot # "start"
      BY <2>1 DEF Toggle, Up
    <2>3. h \in todo => h \in todo' \/ RebuildHost(h)
      BY <2>1 DEF Toggle
    <2>4. ASSUME before PROVE h \in missed' \/ (boot' = "rebuild" /\ h \in todo')
      <3>1. h \in missed \/ (boot = "rebuild" /\ h \in todo)
        BY <2>2, <2>4 DEF Filled
      <3>2. CASE RebuildHost(h)
        <4>1. versions'[h] = Replay(runs[h])
          BY <3>2 DEF RebuildHost, StoreTyped
        <4>2. Replay(runs[h]) # <<>>
          BY <1>0, <2>4, Replayed
        <4> QED
          BY <4>1, <4>2
      <3> QED
        BY <2>2, <2>3, <3>1, <3>2
    <2>5. ASSUME NEW rep \in Report, Reported(h, rep) PROVE before
      <3> DEFINE new == RecordVersions(versions[h], rep, disabled)
      <3>1. new \in Seq(Row)
        BY <1>0, Recorded
      <3>2. new = <<>>
        BY <2>5, <3>1, Trimmed DEF Reported
      <3>3. versions[h] = <<>> /\ DOMAIN rep = {}
        BY <1>0, <3>2, RecordedSome
      <3> HIDE DEF new
      <3>4. /\ Len(runs'[h]) = Len(runs[h]) + 1
            /\ \A n \in 1..Len(runs[h]) : runs'[h][n] = runs[h][n]
            /\ runs'[h][Len(runs[h]) + 1] = rep
        BY <1>0, <2>5, AppendProperties DEF Reported
      <3>5. k \in 1..Len(runs[h])
        BY <1>0, <3>3, <3>4
      <3> QED
        BY <3>3, <3>4, <3>5
    <2>6. CASE Cut(h)
      <3> PICK n \in 1..Len(runs[h]) :
               /\ runs'[h] = SubSeq(runs[h], n + 1, Len(runs[h]))
               /\ versions'[h] = versions[h]
        BY <2>6 DEF Cut
      <3>1. \A i \in n+1..Len(runs[h]) : runs[h][i] \in Report
        <4>1. \A i \in n+1..Len(runs[h]) : i \in 1..Len(runs[h])
          BY <1>0
        <4> QED
          BY <1>0, <4>1, ElementOfSeq
      <3>2. /\ Len(runs'[h]) = IF n + 1 <= Len(runs[h]) THEN Len(runs[h]) - (n + 1) + 1 ELSE 0
            /\ \A i \in 1..Len(runs[h]) - (n + 1) + 1 : runs'[h][i] = runs[h][(n + 1) + i - 1]
        BY <1>0, <3>1, SubSeqProperties
      <3>3. k \in 1..Len(runs[h]) - (n + 1) + 1 /\ (n + 1) + k - 1 \in 1..Len(runs[h])
        BY <1>0, <3>2
      <3> QED
        BY <2>4, <3>2, <3>3
    <2>7. CASE Deleted(h)
      <3>1. Len(runs'[h]) = 0
        BY <2>7, EmptySeq DEF Deleted
      <3> QED
        BY <3>1
    <2>8. CASE Rebuilt(h)
      <3>1. Replay(runs[h]) # <<>>
        BY <1>0, <2>8, Replayed DEF Rebuilt
      <3> QED
        BY <2>8, <3>1 DEF Rebuilt
    <2>9. CASE Rests(h)
      BY <2>4, <2>9 DEF Rests
    <2> QED
      BY <2>4, <2>5, <2>6, <2>7, <2>8, <2>9, HostSteps
  <1> QED
    BY <1>1, <1>2, <1>3, <1>4

LEMMA ChainIs == ChainOfVersions <=> \A h \in Host : Chained(versions[h])
  BY DEF ChainOfVersions, Chained, Link

LEMMA ChainStays ==
  ASSUME StoreTyped, ChainOfVersions, Next
  PROVE  ChainOfVersions'
  <1> SUFFICES ASSUME NEW h \in Host PROVE Chained(versions'[h])
    BY DEF ChainOfVersions, Chained, Link
  <1>0. runs[h] \in Seq(Report) /\ versions[h] \in Seq(Row) /\ Chained(versions[h])
    BY ChainIs DEF StoreTyped
  <1>1. ASSUME NEW rep \in Report, Reported(h, rep) PROVE Chained(versions'[h])
    <2> DEFINE new == RecordVersions(versions[h], rep, disabled)
    <2>1. new \in Seq(Row) /\ Chained(new)
      BY <1>0, Recorded, ChainRecorded
    <2>2. Chained(TrimVersions(new))
      BY <2>1, ChainTrimmed
    <2> QED
      BY <1>1, <2>2 DEF Reported
  <1>2. CASE Deleted(h)
    BY <1>2, EmptySeq DEF Deleted, Chained
  <1>3. CASE Rebuilt(h)
    BY <1>0, <1>3, Replayed DEF Rebuilt
  <1>4. CASE Rests(h) \/ Cut(h)
    BY <1>0, <1>4 DEF Rests, Cut
  <1> QED
    BY <1>1, <1>2, <1>3, <1>4, HostSteps

LEMMA StoreInvariant == Spec => []StoreInv
  <1>1. Init => StoreInv
    <2> SUFFICES ASSUME Init PROVE StoreInv
      OBVIOUS
    <2>1. \A h \in Host : versions[h] = <<>>
      BY DEF Init
    <2>2. ChainOfVersions
      BY <2>1, ChainIs, EmptySeq DEF Chained
    <2> QED
      BY <2>1, <2>2, StoreTypedInit DEF Init, StoreInv, Leading, Filled, FirstBackfill
  <1>2. StoreInv /\ [Next]_vars => StoreInv'
    <2>1. CASE UNCHANGED vars
      BY <2>1 DEF vars, StoreInv, StoreTyped, Leading, Filled, FirstBackfill, ChainOfVersions,
                  Untrimmed, Newest
    <2>2. ASSUME FirstBackfill, Next PROVE FirstBackfill'
      BY <2>2 DEF FirstBackfill, Next, SaveReport, Toggle, Cleanup, Delete, RebuildHost,
                  RebuildSkips, RebuildBegins, RebuildEnds, RebuildFails, Crash, Up
    <2>3. ASSUME StoreInv, Next PROVE StoreInv'
      BY <2>2, <2>3, StoreTypedStays, LeadingStays, FilledStays, ChainStays DEF StoreInv
    <2> QED
      BY <2>1, <2>3
  <1> QED
    BY <1>1, <1>2, PTL DEF Spec

-----------------------------------------------------------------------------
(* Theorems *)

\* However reports, switches, cleanups and interrupted backfills follow one
\* another, the newest versions of a host's items say what its newest report
\* said, with an item that vanished marked as gone (_record_versions).
THEOREM AxisLeadsToReport == Spec => []AxisFollowsReports
  <1>1. StoreInv => AxisFollowsReports
    <2> SUFFICES ASSUME StoreInv, NEW h \in Host, Untrimmed(h), versions[h] # <<>>,
                        DOMAIN Newest(h) # {}, NEW i \in Item
                 PROVE  IF i \in DOMAIN Newest(h)
                        THEN LET last == NewestVersion(versions[h], i)
                             IN  /\ last.kind # "gone"
                                 /\ [st |-> last.st, ds |-> last.ds] = Newest(h)[i]
                        ELSE i \in skipped[h] \/ NewestVersion(versions[h], i).kind = "gone"
      BY DEF AxisFollowsReports
    <2>1. Leads(versions[h], Newest(h), skipped[h])
      BY DEF StoreInv, Leading
    <2>2. Newest(h) \in Report
      BY NewestTypedReport DEF StoreInv
    <2>3. CASE i \in DOMAIN Newest(h)
      <3>1. Newest(h)[i] \in [st : Known, ds : Text]
        BY <2>2, <2>3, ReportTyped
      <3> QED
        BY <2>1, <2>3, <3>1 DEF Leads
    <2> QED
      BY <2>1, <2>3 DEF Leads
  <1> QED
    BY <1>1, StoreInvariant, PTL

\* Each version of an item starts where the one before it ended, whatever the
\* cap has cut off and whatever the backfill replayed.
THEOREM VersionsChain == Spec => []ChainOfVersions
  BY StoreInvariant, PTL DEF StoreInv

\* Only a host that an interrupted backfill did not get to is without axis.
THEOREM BackfillFills == Spec => []BackfillComplete
  <1>1. StoreInv => BackfillComplete
    BY DEF StoreInv, Filled, BackfillComplete, Up, Unreached
  <1> QED
    BY <1>1, StoreInvariant, PTL

\* Only save_report adds a report to those of a host.
LEMMA SavedIsReported ==
  ASSUME StoreTyped, Next, NEW h \in Host, Saved(h)
  PROVE  \E rep \in Report : Reported(h, rep) /\ Last(runs'[h]) = rep
  <1>0. runs[h] \in Seq(Report) /\ Len(runs[h]) \in Nat
    BY LenProperties DEF StoreTyped
  <1>1. ASSUME NEW rep \in Report, Reported(h, rep) PROVE Last(runs'[h]) = rep
    BY <1>0, <1>1, AppendProperties DEF Reported, Last
  <1>2. CASE Rests(h) \/ Rebuilt(h)
    BY <1>0, <1>2 DEF Rests, Rebuilt, Saved
  <1>3. CASE Deleted(h)
    BY <1>0, <1>3, EmptySeq DEF Deleted, Saved
  <1>4. CASE Cut(h)
    <2> PICK n \in 1..Len(runs[h]) : runs'[h] = SubSeq(runs[h], n + 1, Len(runs[h]))
      BY <1>4 DEF Cut
    <2>1. \A i \in n+1..Len(runs[h]) : runs[h][i] \in Report
      <3>1. \A i \in n+1..Len(runs[h]) : i \in 1..Len(runs[h])
        BY <1>0
      <3> QED
        BY <1>0, <3>1, ElementOfSeq
    <2>2. Len(runs'[h]) = IF n + 1 <= Len(runs[h]) THEN Len(runs[h]) - (n + 1) + 1 ELSE 0
      BY <1>0, <2>1, SubSeqProperties
    <2> QED
      BY <1>0, <2>2 DEF Saved
  <1> QED
    BY <1>1, <1>2, <1>3, <1>4, HostSteps

\* As long as the cap takes nothing, a save leaves exactly what was recorded.
LEMMA UntrimmedSave ==
  ASSUME StoreTyped, NEW h \in Host, NEW rep \in Report, Reported(h, rep), Untrimmed(h)'
  PROVE  /\ versions'[h] = RecordVersions(versions[h], rep, disabled)
         /\ Untrimmed(h)
  <1> DEFINE new == RecordVersions(versions[h], rep, disabled)
  <1>0. versions[h] \in Seq(Row) /\ Len(versions[h]) \in Nat
    BY LenProperties DEF StoreTyped
  <1>1. new \in Seq(Row) /\ Len(versions[h]) <= Len(new)
    BY <1>0, Recorded
  <1>2. versions'[h] = new
    BY <1>1, Trimmed DEF Reported, Untrimmed
  <1>3. Len(new) \in Nat /\ Cap \in Nat
    BY <1>1, LenProperties, StoreAssumption
  <1> HIDE DEF new
  <1> QED
    BY <1>0, <1>1, <1>2, <1>3 DEF Untrimmed, new

\* A report like the one before adds neither a version nor a recent change, as
\* long as the cap took nothing and no item was switched on again: the axis has
\* no echo of repeated checks.
THEOREM NoEcho == Spec => RepeatRecordsNothing
  <1>1. StoreInv /\ [Next]_vars => \A h \in Host :
           /\ Saved(h) /\ Untrimmed(h) /\ runs[h] # <<>> /\ versions[h] # <<>>
           /\ Last(runs'[h]) = Newest(h) /\ skipped[h] \subseteq disabled
           => versions'[h] = versions[h] /\ changes'[h] = {}
    <2> SUFFICES ASSUME StoreInv, [Next]_vars, NEW h \in Host,
                        Saved(h), Untrimmed(h), runs[h] # <<>>, versions[h] # <<>>,
                        Last(runs'[h]) = Newest(h), skipped[h] \subseteq disabled
                 PROVE  versions'[h] = versions[h] /\ changes'[h] = {}
      OBVIOUS
    <2>0. /\ StoreTyped /\ Leading
          /\ runs[h] \in Seq(Report) /\ versions[h] \in Seq(Row) /\ skipped[h] \in SUBSET Item
          /\ Len(runs[h]) \in Nat /\ Len(versions[h]) \in Nat /\ Cap \in Nat
      BY LenProperties, StoreAssumption DEF StoreInv, StoreTyped
    <2>1. Next
      BY <2>0 DEF vars, Saved
    <2>2. PICK rep \in Report : Reported(h, rep) /\ Last(runs'[h]) = rep
      BY <2>0, <2>1, SavedIsReported
    <2>3. rep = Last(runs[h]) /\ Newest(h) = rep
      BY <2>2 DEF Newest
    <2>4. RecordVersions(versions[h], rep, disabled) = versions[h]
      <3>1. CASE DOMAIN rep = {}
        BY <3>1 DEF RecordVersions
      <3>2. CASE DOMAIN rep # {}
        <4>1. Leads(versions[h], rep, skipped[h])
          BY <2>0, <2>3, <3>2 DEF Leading
        <4> QED
          BY <2>0, <4>1, NothingToAdd
      <3> QED
        BY <3>1, <3>2
    <2>5. versions'[h] = versions[h]
      BY <2>0, <2>2, <2>4 DEF Reported, TrimVersions, Untrimmed
    <2>6. ASSUME NEW c \in Changes(runs[h], rep, disabled) PROVE FALSE
      <3>1. DOMAIN rep \cap disabled = {}
        BY <2>2 DEF Reported
      <3> DEFINE known == DOMAIN Last(runs[h]) \ disabled
      <3>2. /\ c.item \in DOMAIN rep \cup known
            /\ c.before = IF c.item \in known THEN Last(runs[h])[c.item].st ELSE Absent
            /\ c.after = IF c.item \in DOMAIN rep THEN rep[c.item].st ELSE Absent
            /\ c.before # c.after
        BY <2>0, ChangeSays
      <3>3. known = DOMAIN rep
        BY <2>3, <3>1
      <3> HIDE DEF known
      <3> QED
        BY <2>3, <3>2, <3>3
    <2> QED
      BY <2>2, <2>5, <2>6 DEF Reported
  <1> QED
    BY <1>1, StoreInvariant, PTL DEF Spec, RepeatRecordsNothing

\* A switched off item neither vanishes in the recent changes nor gets a version:
\* its place on the axis is kept until it is switched on again.
THEOREM DisabledKept == Spec => NothingVanishesByDisabling
  <1>1. StoreInv /\ [Next]_vars => \A h \in Host : Saved(h) /\ Untrimmed(h)' =>
           /\ \A c \in changes'[h] : c.after = Absent => c.item \notin disabled
           /\ \A i \in disabled : NewestVersion(versions'[h], i) = NewestVersion(versions[h], i)
    <2> SUFFICES ASSUME StoreInv, [Next]_vars, NEW h \in Host, Saved(h), Untrimmed(h)'
                 PROVE  /\ \A c \in changes'[h] : c.after = Absent => c.item \notin disabled
                        /\ \A i \in disabled :
                              NewestVersion(versions'[h], i) = NewestVersion(versions[h], i)
      OBVIOUS
    <2>0. /\ StoreTyped /\ disabled \subseteq Item
          /\ runs[h] \in Seq(Report) /\ versions[h] \in Seq(Row) /\ Len(runs[h]) \in Nat
      BY LenProperties DEF StoreInv, StoreTyped
    <2>1. Next
      BY <2>0 DEF vars, Saved
    <2>2. PICK rep \in Report : Reported(h, rep)
      BY <2>0, <2>1, SavedIsReported
    <2>3. ASSUME NEW c \in changes'[h], c.after = Absent PROVE c.item \notin disabled
      <3> DEFINE known == DOMAIN Last(runs[h]) \ disabled
      <3>1. c \in Changes(runs[h], rep, disabled) /\ DOMAIN rep \cap disabled = {}
        BY <2>2, <2>3 DEF Reported
      <3>2. c.item \in DOMAIN rep \cup known
        BY <2>0, <3>1, ChangeSays
      <3> QED
        BY <3>1, <3>2
    <2>4. ASSUME NEW i \in disabled
          PROVE  NewestVersion(versions'[h], i) = NewestVersion(versions[h], i)
      <3>1. \A a \in Added(versions[h], rep, disabled) : a.item # i
        <4> SUFFICES ASSUME NEW a \in Added(versions[h], rep, disabled) PROVE a.item # i
          OBVIOUS
        <4>1. Follows(versions[h], rep, disabled, a)
          BY <2>0, AddedFollow
        <4>2. DOMAIN rep \cap disabled = {}
          BY <2>2 DEF Reported
        <4> QED
          BY <2>4, <4>1, <4>2 DEF Follows
      <3>2. versions'[h] = RecordVersions(versions[h], rep, disabled)
        BY <2>0, <2>2, UntrimmedSave
      <3> QED
        BY <2>0, <3>1, <3>2, NewestAfter
    <2> QED
      BY <2>3, <2>4
  <1> QED
    BY <1>1, StoreInvariant, PTL DEF Spec, NothingVanishesByDisabling

\* The recent changes compare with the run before, the axis with its own newest
\* versions: a status change or a disappearance among the former is among the
\* latter too, with the same two statuses.
THEOREM ChangesOnAxis == Spec => ChangesAreOnAxis
  <1>1. StoreInv /\ [Next]_vars => \A h \in Host :
           Saved(h) /\ Untrimmed(h)' /\ ~Unreached(h) => \A c \in changes'[h] : c.before # Absent =>
             \E k \in Len(versions[h])+1..Len(versions'[h]) :
               /\ versions'[h][k].item = c.item
               /\ versions'[h][k].before = c.before /\ versions'[h][k].st = c.after
    <2> SUFFICES ASSUME StoreInv, [Next]_vars, NEW h \in Host,
                        Saved(h), Untrimmed(h)', ~Unreached(h),
                        NEW c \in changes'[h], c.before # Absent
                 PROVE  \E k \in Len(versions[h])+1..Len(versions'[h]) :
                           /\ versions'[h][k].item = c.item
                           /\ versions'[h][k].before = c.before /\ versions'[h][k].st = c.after
      OBVIOUS
    <2>0. /\ StoreTyped /\ Leading /\ Filled
          /\ runs[h] \in Seq(Report) /\ versions[h] \in Seq(Row) /\ Len(runs[h]) \in Nat
      BY LenProperties DEF StoreInv, StoreTyped
    <2>1. Next
      BY <2>0 DEF vars, Saved
    <2>2. PICK rep \in Report : Reported(h, rep)
      BY <2>0, <2>1, SavedIsReported
    <2> DEFINE vs == versions[h]
               prev == Last(runs[h])
               known == DOMAIN prev \ disabled
               i == c.item
               last == NewestVersion(vs, i)
    <2>3. /\ runs[h] # <<>> /\ DOMAIN rep # {}
          /\ i \in known
          /\ c.before = prev[i].st
          /\ c.after = IF i \in DOMAIN rep THEN rep[i].st ELSE Absent
          /\ c.before # c.after
      <3>1. c \in Changes(runs[h], rep, disabled)
        BY <2>2 DEF Reported
      <3> QED
        BY <2>0, <3>1, ChangeSays
    <2>4. versions'[h] = RecordVersions(vs, rep, disabled) /\ Untrimmed(h)
      BY <2>0, <2>2, UntrimmedSave
    <2>5. prev \in Report /\ i \in Item /\ Newest(h) = prev /\ DOMAIN prev # {}
      <3>1. prev \in Report
        BY <2>0, <2>3, LastTyped
      <3> QED
        BY <2>3, <3>1, ReportTyped DEF Newest
    <2>6. vs # <<>>
      <3>1. Len(runs[h]) \in 1..Len(runs[h])
        BY <2>0, <2>3, EmptySeq
      <3>2. DOMAIN runs[h][Len(runs[h])] # {}
        BY <2>5 DEF Last
      <3>3. boot = "up"
        BY <2>2 DEF Reported, Up
      <3> QED
        BY <2>0, <3>1, <3>2, <3>3 DEF Filled, Unreached
    <2>7. last.kind # "gone" /\ last.st = c.before
      <3>1. Leads(vs, prev, skipped[h])
        BY <2>0, <2>4, <2>5, <2>6 DEF Leading
      <3> QED
        BY <2>3, <2>5, <3>1 DEF Leads
    <2>8. PICK a \in Added(vs, rep, disabled) : a.item = i /\ a.before = c.before /\ a.st = c.after
      <3>1. CASE i \in DOMAIN rep
        <4> DEFINE a == Alter(last, rep, i)
        <4>1. a.item = i /\ a.before = c.before /\ a.st = c.after
          BY <2>3, <2>7, <3>1 DEF Alter
        <4>2. a \in Added(vs, rep, disabled)
          BY <2>3, <2>7, <3>1 DEF Added, Altered
        <4> QED
          BY <4>1, <4>2
      <3>2. CASE i \notin DOMAIN rep
        <4> DEFINE a == Vanish(last, i)
        <4>1. a.item = i /\ a.before = c.before /\ a.st = c.after
          BY <2>3, <2>7, <3>2 DEF Vanish
        <4>2. a \in Added(vs, rep, disabled)
          BY <2>3, <2>5, <2>7, <3>2 DEF Added, Vanished
        <4> QED
          BY <4>1, <4>2
      <3> QED
        BY <3>1, <3>2
    <2>9. \E k \in Len(vs)+1..Len(versions'[h]) : versions'[h][k] = a
      BY <2>0, <2>3, <2>4, Recorded
    <2> QED
      BY <2>8, <2>9
  <1> QED
    BY <1>1, StoreInvariant, PTL DEF Spec, ChangesAreOnAxis

\* One report adds at most a version of every item.
LEMMA AddedFits ==
  ASSUME NEW vs \in Seq(Row), NEW rep \in Report, NEW off
  PROVE  Len(RecordVersions(vs, rep, off)) - Len(vs) <= Cardinality(Item)
  <1> DEFINE new == RecordVersions(vs, rep, off)
             m == Len(new) - Len(vs)
  <1>1. /\ new \in Seq(Row) /\ Len(vs) <= Len(new)
        /\ \A k, n \in Len(vs)+1..Len(new) : new[k].item = new[n].item => k = n
    BY Recorded
  <1>2. Len(vs) \in Nat /\ Len(new) \in Nat
    BY <1>1, LenProperties
  <1> HIDE DEF new
  <1>3. m \in Nat
    BY <1>1, <1>2
  <1> DEFINE f == [k \in 1..m |-> new[Len(vs) + k].item]
  <1>4. \A k \in 1..m : Len(vs) + k \in Len(vs)+1..Len(new) /\ Len(vs) + k \in 1..Len(new)
    BY <1>1, <1>2
  <1>5. \A k \in 1..m : new[Len(vs) + k].item \in Item
    <2> SUFFICES ASSUME NEW k \in 1..m PROVE new[Len(vs) + k].item \in Item
      OBVIOUS
    <2>1. new[Len(vs) + k] \in Row
      <3>1. Len(vs) + k \in 1..Len(new)
        BY <1>4
      <3> HIDE DEF m
      <3> QED
        BY <1>1, <3>1, ElementOfSeq
    <2> QED
      BY <2>1 DEF Row
  <1> HIDE DEF m
  <1>6. f \in Injection(1..m, Item)
    <2>1. f \in [1..m -> Item]
      BY <1>5
    <2>2. \A k, n \in 1..m : f[k] = f[n] => k = n
      <3> SUFFICES ASSUME NEW k \in 1..m, NEW n \in 1..m, f[k] = f[n] PROVE k = n
        OBVIOUS
      <3>1. Len(vs) + k = Len(vs) + n
        BY <1>1, <1>4
      <3> QED
        BY <1>2, <1>3, <3>1
    <2> QED
      BY <2>1, <2>2 DEF Injection, IsInjective
  <1>7. Cardinality(1..m) <= Cardinality(Item)
    BY <1>6, FS_Injection, StoreAssumption
  <1>8. Cardinality(1..m) = m
    BY <1>3, FS_Interval
  <1> QED
    BY <1>7, <1>8 DEF m, new

\* With room under the cap for one report, _trim_versions never removes what the
\* save has just recorded, and leaves the axis at the cap.
THEOREM CapKeepsNewest ==
  ASSUME Cardinality(Item) <= Cap
  PROVE  Spec => AxisBounded
  <1>1. StoreInv /\ [Next]_vars => \A h \in Host : Saved(h) =>
           /\ Len(versions'[h]) <= Cap
           /\ \A i \in DOMAIN Last(runs'[h]) :
                 NewestVersion(versions'[h], i).st = Last(runs'[h])[i].st
                    \/ NewestVersion(versions[h], i).st = Last(runs'[h])[i].st
    <2> SUFFICES ASSUME StoreInv, [Next]_vars, NEW h \in Host, Saved(h)
                 PROVE  /\ Len(versions'[h]) <= Cap
                        /\ \A i \in DOMAIN Last(runs'[h]) :
                              NewestVersion(versions'[h], i).st = Last(runs'[h])[i].st
                                 \/ NewestVersion(versions[h], i).st = Last(runs'[h])[i].st
      OBVIOUS
    <2>0. /\ StoreTyped
          /\ runs[h] \in Seq(Report) /\ versions[h] \in Seq(Row) /\ Len(runs[h]) \in Nat
      BY LenProperties DEF StoreInv, StoreTyped
    <2>1. Next
      BY <2>0 DEF vars, Saved
    <2>2. PICK rep \in Report : Reported(h, rep) /\ Last(runs'[h]) = rep
      BY <2>0, <2>1, SavedIsReported
    <2> DEFINE vs == versions[h]
               rec == RecordVersions(vs, rep, disabled)
               cut == TrimVersions(rec)
    <2>3. versions'[h] = cut
      BY <2>2 DEF Reported
    <2>4. /\ rec \in Seq(Row) /\ Len(vs) <= Len(rec)
          /\ \A k \in Len(vs)+1..Len(rec) : rec[k] \in Added(vs, rep, disabled)
          /\ \A k, n \in Len(vs)+1..Len(rec) : rec[k].item = rec[n].item => k = n
      BY <2>0, Recorded
    <2>5. /\ cut \in Seq(Row) /\ Len(cut) <= Len(rec) /\ Len(cut) <= Cap
          /\ Len(cut) < Len(rec) => Len(cut) = Cap
          /\ \A k \in 1..Len(cut) : cut[k] = rec[k + (Len(rec) - Len(cut))]
      BY <2>4, Trimmed
    <2>6. /\ Len(vs) \in Nat /\ Len(rec) \in Nat /\ Len(cut) \in Nat /\ Cap \in Nat
          /\ Cardinality(Item) \in Nat
      BY <2>0, <2>4, <2>5, LenProperties, FS_CardinalityType, StoreAssumption
    <2>7. Len(rec) - Len(vs) <= Cardinality(Item)
      BY <2>0, AddedFits
    <2>8. /\ \A a \in Added(vs, rep, disabled) : Follows(vs, rep, disabled, a)
          /\ DOMAIN rep # {} => Leads(rec, rep, disabled)
          /\ \A i : (\A a \in Added(vs, rep, disabled) : a.item # i)
                      => NewestVersion(rec, i) = NewestVersion(vs, i)
          /\ DOMAIN rep # {} => \A a \in Added(vs, rep, disabled) :
                                   \E k \in Len(vs)+1..Len(rec) : rec[k] = a
      BY <2>0, AddedFollow, LeadsAfter, NewestAfter, Recorded
    <2> HIDE DEF rec, cut
    <2>9. ASSUME NEW i \in DOMAIN rep
          PROVE  NewestVersion(cut, i).st = rep[i].st \/ NewestVersion(vs, i).st = rep[i].st
      <3>1. NewestVersion(rec, i).st = rep[i].st
        BY <2>8, <2>9, ReportTyped DEF Leads
      <3>2. CASE \A a \in Added(vs, rep, disabled) : a.item # i
        BY <2>8, <3>1, <3>2
      <3>3. CASE \E a \in Added(vs, rep, disabled) : a.item = i
        <4> PICK k \in Len(vs)+1..Len(rec) : rec[k].item = i
          BY <2>8, <2>9, <3>3
        <4> DEFINE d == Len(rec) - Len(cut)
        <4>1. /\ k - d \in 1..Len(cut) /\ (k - d) + d = k /\ k \in 1..Len(rec) /\ d \in Nat
              /\ \A n \in (k-d)+1..Len(cut) : n + d \in k+1..Len(rec) /\ n \in 1..Len(cut)
          BY <2>4, <2>5, <2>6, <2>7
        <4>2. \A n \in k+1..Len(rec) : rec[n].item # i
          <5> SUFFICES ASSUME NEW n \in k+1..Len(rec), rec[n].item = i PROVE FALSE
            OBVIOUS
          <5>1. n \in Len(vs)+1..Len(rec) /\ n # k
            BY <2>6
          <5> QED
            BY <2>4, <5>1
        <4>3. IsNewest(rec, k)
          BY <4>2 DEF IsNewest
        <4>4. cut[k - d] = rec[k] /\ \A n \in (k-d)+1..Len(cut) : cut[n] = rec[n + d]
          BY <2>5, <4>1
        <4>5. IsNewest(cut, k - d)
          BY <4>1, <4>2, <4>4 DEF IsNewest
        <4>6. NewestVersion(rec, i) = rec[k]
          BY <2>4, <4>1, <4>3, NewestIs
        <4>7. NewestVersion(cut, i) = cut[k - d]
          BY <2>5, <4>1, <4>4, <4>5, NewestIs
        <4> QED
          BY <3>1, <4>4, <4>6, <4>7
      <3> QED
        BY <3>2, <3>3
    <2> QED
      BY <2>2, <2>3, <2>5, <2>9
  <1> QED
    BY <1>1, StoreInvariant, PTL DEF Spec, AxisBounded
=============================================================================
