---------------------------- MODULE ListingProofs ----------------------------
(***************************************************************************)
(* The pages of a listing ascend and show only what was there, for any     *)
(* keys, queries, page sizes and changes to the bucket.                    *)
(***************************************************************************)
EXTENDS Listing, FiniteSetTheorems, SequenceTheorems, TLAPS

-----------------------------------------------------------------------------
(* The order of keys *)

\* A set of numbers that is not empty has a least element.
LEMMA Least ==
    ASSUME NEW S, S \subseteq Nat, S # {}
    PROVE  \E m \in S : \A n \in S : m <= n
<1>1. PICK m \in S : \A n \in S : ~(<<n, m>> \in OpToRel(<, Nat))
  BY NatLessThanWellFounded, WFMin
<1>2. ASSUME NEW n \in S PROVE m <= n
  <2>1. n \in Nat /\ m \in Nat
    OBVIOUS
  <2>2. ~(n < m)
    BY <1>1, <2>1 DEF OpToRel
  <2> QED
    BY <2>1, <2>2
<1> QED
  BY <1>2

\* s and t part at i, where s ends or has the lesser character.
Parts(s, t, i) ==
    /\ i \in 1..Len(t) /\ i <= Len(s) + 1
    /\ \A j \in 1..(i - 1) : s[j] = t[j]
    /\ i <= Len(s) => s[i] < t[i]

\* The walk's order puts -1 for Slash: what follows holds of integers too.
LEMMA Integral == \A s \in Seq(Nat) : s \in Seq(Int)
BY SeqMonotonic

\* Two sequences with the same beginning.
LEMMA SameBeginning ==
    ASSUME NEW s \in Seq(Int), NEW t \in Seq(Int), NEW n \in Nat, n <= Len(s), n <= Len(t)
    PROVE  SubSeq(s, 1, n) = SubSeq(t, 1, n) <=> \A j \in 1..n : s[j] = t[j]
<1>1. /\ SubSeq(s, 1, n) \in Seq(Int) /\ Len(SubSeq(s, 1, n)) = n
      /\ SubSeq(t, 1, n) \in Seq(Int) /\ Len(SubSeq(t, 1, n)) = n
      /\ \A j \in 1..n : SubSeq(s, 1, n)[j] = s[j] /\ SubSeq(t, 1, n)[j] = t[j]
  OBVIOUS
<1>2. ASSUME \A j \in 1..n : s[j] = t[j]
      PROVE  SubSeq(s, 1, n) = SubSeq(t, 1, n)
  BY <1>1, <1>2, SeqEqual
<1> QED
  BY <1>1, <1>2

\* Prefixes, character by character.
LEMMA PrefixIs ==
    ASSUME NEW s \in Seq(Int), NEW t \in Seq(Int)
    PROVE  IsPrefix(s, t) <=> Len(s) <= Len(t) /\ \A j \in 1..Len(s) : s[j] = t[j]
BY SameBeginning, LenProperties DEF IsPrefix

\* Where one key is less than another they part.
LEMMA LessParts ==
    ASSUME NEW s \in Seq(Int), NEW t \in Seq(Int)
    PROVE  Less(s, t) <=> \E i \in Nat : Parts(s, t, i)
<1>1. ASSUME IsStrictPrefix(s, t) PROVE Parts(s, t, Len(s) + 1)
  <2>1. Len(s) <= Len(t) /\ s # t /\ \A j \in 1..Len(s) : s[j] = t[j]
    BY <1>1, PrefixIs DEF IsStrictPrefix
  <2>2. Len(s) # Len(t)
    BY <2>1, SeqEqual
  <2> QED
    BY <2>1, <2>2 DEF Parts
<1>2. ASSUME NEW i \in 1..Len(s), i <= Len(t), s[i] < t[i],
             SubSeq(s, 1, i - 1) = SubSeq(t, 1, i - 1)
      PROVE  Parts(s, t, i)
  <2>1. i - 1 \in Nat /\ i - 1 <= Len(s) /\ i - 1 <= Len(t)
    BY <1>2
  <2>2. \A j \in 1..(i - 1) : s[j] = t[j]
    BY <1>2, <2>1, SameBeginning
  <2> QED
    BY <1>2, <2>2 DEF Parts
<1>3. ASSUME NEW i \in Nat, Parts(s, t, i) PROVE Less(s, t)
  <2>1. CASE i = Len(s) + 1
    <3>1. Len(s) < Len(t) /\ \A j \in 1..Len(s) : s[j] = t[j]
      BY <1>3, <2>1 DEF Parts
    <3>2. IsPrefix(s, t)
      BY <3>1, PrefixIs
    <3> QED
      BY <3>1, <3>2 DEF Less, IsStrictPrefix
  <2>2. CASE i # Len(s) + 1
    <3>1. i \in 1..Len(s) /\ i <= Len(t) /\ s[i] < t[i] /\ \A j \in 1..(i - 1) : s[j] = t[j]
      BY <1>3, <2>2 DEF Parts
    <3>2. SubSeq(s, 1, i - 1) = SubSeq(t, 1, i - 1)
      BY <3>1, SameBeginning
    <3> QED
      BY <3>1, <3>2 DEF Less
  <2> QED
    BY <2>1, <2>2
<1> QED
  BY <1>1, <1>2, <1>3 DEF Less

\* The order is strict, ...
LEMMA LessIrreflexive ==
    ASSUME NEW s \in Seq(Int)
    PROVE  ~Less(s, s)
<1>1. ASSUME NEW i \in Nat, Parts(s, s, i) PROVE FALSE
  BY <1>1 DEF Parts
<1> QED
  BY <1>1, LessParts

\* ... transitive, ...
LEMMA LessTransitive ==
    ASSUME NEW s \in Seq(Nat), NEW t \in Seq(Nat), NEW u \in Seq(Nat), Less(s, t), Less(t, u)
    PROVE  Less(s, u)
<1>0. s \in Seq(Int) /\ t \in Seq(Int) /\ u \in Seq(Int)
  BY Integral
<1>1. PICK i \in Nat : Parts(s, t, i)
  BY <1>0, LessParts
<1>2. PICK k \in Nat : Parts(t, u, k)
  BY <1>0, LessParts
<1>3. CASE i < k
  <2>1. Parts(s, u, i)
    BY <1>1, <1>2, <1>3 DEF Parts
  <2> QED
    BY <1>0, <2>1, LessParts
<1>4. CASE i = k
  <2>1. Parts(s, u, i)
    BY <1>1, <1>2, <1>4 DEF Parts
  <2> QED
    BY <1>0, <2>1, LessParts
<1>5. CASE k < i
  <2>1. /\ i \in 1..Len(t) /\ i <= Len(s) + 1 /\ Len(s) \in Nat /\ Len(t) \in Nat
        /\ \A j \in 1..(i - 1) : s[j] = t[j]
    BY <1>1 DEF Parts
  <2>2. /\ k \in 1..Len(u) /\ k <= Len(t) + 1 /\ (k <= Len(t) => t[k] < u[k])
        /\ \A j \in 1..(k - 1) : t[j] = u[j]
    BY <1>2 DEF Parts
  <2>3. k \in 1..(i - 1) /\ k <= Len(t) /\ k <= Len(s) + 1
    BY <1>5, <2>1, <2>2
  <2>4. ASSUME NEW j \in 1..(k - 1) PROVE s[j] = u[j]
    <3>1. j \in 1..(i - 1)
      BY <1>5
    <3> QED
      BY <2>1, <2>2, <3>1
  <2>5. s[k] < u[k]
    BY <2>1, <2>2, <2>3
  <2>6. Parts(s, u, k)
    BY <2>2, <2>3, <2>4, <2>5 DEF Parts
  <2> QED
    BY <1>0, <2>6, LessParts
<1> QED
  BY <1>3, <1>4, <1>5

\* ... and total.
LEMMA LessTotal ==
    ASSUME NEW s \in Seq(Nat), NEW t \in Seq(Nat), s # t
    PROVE  Less(s, t) \/ Less(t, s)
<1> DEFINE D == {j \in Nat : j \in 1..Len(s) /\ j \in 1..Len(t) /\ s[j] # t[j]}
<1>1. CASE D = {}
  <2>1. \A j \in Nat : j \in 1..Len(s) /\ j \in 1..Len(t) => s[j] = t[j]
    BY <1>1
  <2>2. Len(s) # Len(t)
    BY <2>1, SeqEqual
  <2>3. CASE Len(s) < Len(t)
    <3>1. Parts(s, t, Len(s) + 1)
      BY <2>1, <2>3 DEF Parts
    <3> QED
      BY <3>1, LessParts, Integral
  <2>4. CASE Len(t) < Len(s)
    <3>1. Parts(t, s, Len(t) + 1)
      BY <2>1, <2>4 DEF Parts
    <3> QED
      BY <3>1, LessParts, Integral
  <2> QED
    BY <2>2, <2>3, <2>4
<1>2. CASE D # {}
  <2>1. PICK i \in D : \A j \in D : i <= j
    BY <1>2, Least
  <2>2. ASSUME NEW j \in 1..(i - 1) PROVE s[j] = t[j]
    <3>1. j \in Nat /\ j \in 1..Len(s) /\ j \in 1..Len(t) /\ ~(i <= j)
      OBVIOUS
    <3> QED
      BY <2>1, <3>1
  <2>3. s[i] < t[i] \/ t[i] < s[i]
    <3>1. s[i] \in Nat /\ t[i] \in Nat /\ s[i] # t[i]
      OBVIOUS
    <3> QED
      BY <3>1
  <2>4. CASE s[i] < t[i]
    <3>1. Parts(s, t, i)
      BY <2>2, <2>4 DEF Parts
    <3> QED
      BY <3>1, LessParts, Integral
  <2>5. CASE t[i] < s[i]
    <3>1. Parts(t, s, i)
      BY <2>2, <2>5 DEF Parts
    <3> QED
      BY <3>1, LessParts, Integral
  <2> QED
    BY <2>3, <2>4, <2>5
<1> QED
  BY <1>1, <1>2

-----------------------------------------------------------------------------
(* Finite sets, and what Sorted makes of them *)

\* The values of a function on a finite set.
LEMMA ImageFinite ==
    ASSUME NEW f, IsFiniteSet(DOMAIN f)
    PROVE  IsFiniteSet({f[x] : x \in DOMAIN f})
<1> DEFINE T == {f[x] : x \in DOMAIN f}
<1>1. [x \in DOMAIN f |-> f[x]] \in Surjection(DOMAIN f, T)
  BY DEF Surjection
<1> HIDE DEF T
<1>2. IsFiniteSet(T)
  BY <1>1, FS_Surjection
<1> QED
  BY <1>2 DEF T

\* Entries and nodes have keys, and no two the same.
Keyed(S) ==
    /\ IsFiniteSet(S) /\ \A e \in S : e.key \in Seq(Nat)
    /\ \A e, f \in S : e.key = f.key => e = f

\* Those that come before a member of S, and the member itself.
UpTo(S, e) == {f \in S : f = e \/ Before(f, e)}

\* The rank of a member.
LEMMA Ranks ==
    ASSUME NEW S, Keyed(S)
    PROVE  /\ \A e \in S : Cardinality(UpTo(S, e)) \in 1..Cardinality(S)
           /\ \A e, f \in S : Before(e, f) =>
                Cardinality(UpTo(S, e)) < Cardinality(UpTo(S, f))
           /\ \A e, f \in S : e = f \/ Before(e, f) \/ Before(f, e)
<1>1. \A e \in S : /\ UpTo(S, e) \in SUBSET S /\ IsFiniteSet(UpTo(S, e))
                   /\ Cardinality(UpTo(S, e)) \in Nat /\ Cardinality(S) \in Nat
                   /\ Cardinality(UpTo(S, e)) <= Cardinality(S)
  <2> SUFFICES ASSUME NEW e \in S
               PROVE  /\ UpTo(S, e) \in SUBSET S /\ IsFiniteSet(UpTo(S, e))
                      /\ Cardinality(UpTo(S, e)) \in Nat /\ Cardinality(S) \in Nat
                      /\ Cardinality(UpTo(S, e)) <= Cardinality(S)
    OBVIOUS
  <2>1. UpTo(S, e) \in SUBSET S /\ IsFiniteSet(S)
    BY DEF UpTo, Keyed
  <2>2. IsFiniteSet(UpTo(S, e)) /\ Cardinality(UpTo(S, e)) <= Cardinality(S)
    BY <2>1, FS_Subset
  <2> QED
    BY <2>1, <2>2, FS_CardinalityType
<1>2. ASSUME NEW e \in S PROVE Cardinality(UpTo(S, e)) # 0
  <2>1. e \in UpTo(S, e)
    BY DEF UpTo
  <2> QED
    BY <1>1, <2>1, FS_EmptySet
<1>3. ASSUME NEW e \in S, NEW f \in S, Before(e, f)
      PROVE  Cardinality(UpTo(S, e)) < Cardinality(UpTo(S, f))
  <2>1. ASSUME NEW g \in UpTo(S, e) PROVE g \in UpTo(S, f)
    <3>1. g \in S /\ (g = e \/ Less(g.key, e.key)) /\ Less(e.key, f.key)
      BY <1>3 DEF UpTo, Before
    <3>2. g = e \/ Less(g.key, f.key)
      BY <3>1, LessTransitive DEF Keyed
    <3> QED
      BY <1>3, <3>1, <3>2 DEF UpTo, Before
  <2>2. f \in UpTo(S, f) /\ f \notin UpTo(S, e)
    <3>1. f # e
      BY <1>3, LessIrreflexive, Integral DEF Before, Keyed
    <3>2. ~Before(f, e)
      BY <1>3, LessIrreflexive, Integral, LessTransitive DEF Before, Keyed
    <3> QED
      BY <3>1, <3>2 DEF UpTo
  <2>3. UpTo(S, e) \in SUBSET UpTo(S, f) /\ UpTo(S, e) # UpTo(S, f)
    BY <2>1, <2>2
  <2>4. /\ Cardinality(UpTo(S, e)) <= Cardinality(UpTo(S, f))
        /\ Cardinality(UpTo(S, f)) # Cardinality(UpTo(S, e))
    BY <1>1, <2>3, FS_Subset
  <2> QED
    BY <1>1, <2>4
<1>4. ASSUME NEW e \in S, NEW f \in S PROVE e = f \/ Before(e, f) \/ Before(f, e)
  BY LessTotal DEF Keyed, Before
<1> QED
  BY <1>1, <1>2, <1>3, <1>4

\* The members of a finite set can be put in order, ...
LEMMA OrderExists ==
    ASSUME NEW S, Keyed(S)
    PROVE  \E s \in [1..Cardinality(S) -> S] : Ascending(s)
<1> DEFINE n == Cardinality(S)
           rank == [e \in S |-> Cardinality(UpTo(S, e))]
           s == [i \in 1..n |-> CHOOSE e \in S : rank[e] = i]
<1>1. n \in Nat /\ IsFiniteSet(S) /\ IsFiniteSet(1..n) /\ Cardinality(1..n) = n
  <2>1. IsFiniteSet(S) /\ n \in Nat
    BY FS_CardinalityType DEF Keyed
  <2> HIDE DEF n
  <2>2. IsFiniteSet(1..n) /\ Cardinality(1..n) = IF 1 > n THEN 0 ELSE n - 1 + 1
    BY <2>1, FS_Interval
  <2> QED
    BY <2>1, <2>2
<1>2. /\ rank \in [S -> 1..n]
      /\ \A e, f \in S : Before(e, f) => rank[e] < rank[f]
      /\ \A e, f \in S : e = f \/ Before(e, f) \/ Before(f, e)
  BY Ranks
<1>3. rank \in Injection(S, 1..n)
  <2> HIDE DEF rank, n
  <2>1. ASSUME NEW e \in S, NEW f \in S, rank[e] = rank[f] PROVE e = f
    <3>1. rank[e] \in 1..n
      BY <1>2
    <3> QED
      BY <1>2, <2>1, <3>1
  <2> QED
    BY <1>2, <2>1 DEF Injection, IsInjective
<1>4. rank \in Surjection(S, 1..n)
  <2> HIDE DEF rank
  <2> QED
    BY <1>1, <1>3, FS_Injection
<1>5. \A i \in 1..n : \E e \in S : rank[e] = i
  <2> HIDE DEF rank, n
  <2> QED
    BY <1>4 DEF Surjection
<1>6. \A i \in 1..n : s[i] \in S /\ rank[s[i]] = i
  <2> HIDE DEF rank, n
  <2> QED
    BY <1>5
<1>7. ASSUME NEW i \in 1..n, NEW j \in 1..n, i < j PROVE Before(s[i], s[j])
  <2> HIDE DEF rank, s
  <2>1. ~Before(s[j], s[i]) /\ s[i] # s[j]
    BY <1>1, <1>2, <1>6, <1>7
  <2> QED
    BY <1>2, <1>6, <2>1
<1>8. s \in [1..n -> S] /\ DOMAIN s = 1..n
  BY <1>6
<1> QED
  BY <1>7, <1>8 DEF Ascending

\* ... and that is what Sorted does.
LEMMA SortedIs ==
    ASSUME NEW S, Keyed(S)
    PROVE  /\ Sorted(S) \in Seq(S) /\ Len(Sorted(S)) = Cardinality(S)
           /\ Cardinality(S) \in Nat /\ DOMAIN Sorted(S) = 1..Cardinality(S)
           /\ Ascending(Sorted(S))
           /\ \A e \in S : \E i \in DOMAIN Sorted(S) : Sorted(S)[i] = e
<1> DEFINE n == Cardinality(S)
           s == Sorted(S)
<1>1. n \in Nat /\ IsFiniteSet(S)
  BY FS_CardinalityType DEF Keyed
<1>2. s \in [1..n -> S] /\ Ascending(s)
  BY OrderExists DEF Sorted
<1> HIDE DEF n, s
<1>3. s \in Seq(S) /\ Len(s) = n /\ DOMAIN s = 1..n
  BY <1>1, <1>2, LenProperties
<1>4. IsFiniteSet(1..n) /\ Cardinality(1..n) = n
  <2>1. IsFiniteSet(1..n) /\ Cardinality(1..n) = IF 1 > n THEN 0 ELSE n - 1 + 1
    BY <1>1, FS_Interval
  <2> QED
    BY <1>1, <2>1
<1>5. ASSUME NEW i \in 1..n, NEW j \in 1..n, i < j PROVE s[i] # s[j]
  <2>1. Less(s[i].key, s[j].key) /\ s[i].key \in Seq(Nat)
    BY <1>2, <1>3, <1>5 DEF Ascending, Before, Keyed
  <2> QED
    BY <2>1, LessIrreflexive, Integral
<1>6. s \in Injection(1..n, S)
  <2>1. ASSUME NEW i \in 1..n, NEW j \in 1..n, s[i] = s[j] PROVE i = j
    BY <1>1, <1>5, <2>1
  <2> QED
    BY <1>2, <2>1 DEF Injection, IsInjective
<1>7. s \in Surjection(1..n, S)
  <2>1. Cardinality(1..n) = Cardinality(S)
    BY <1>4 DEF n
  <2> QED
    BY <1>1, <1>6, <2>1, FS_Injection
<1>8. \A e \in S : \E i \in 1..n : s[i] = e
  BY <1>7 DEF Surjection
<1> QED
  BY <1>1, <1>2, <1>3, <1>8 DEF n, s

-----------------------------------------------------------------------------
(* Directories *)

\* A parent ends before a separator.
LEMMA ParentsIs ==
    ASSUME NEW path \in Seq(Nat), NEW d
    PROVE  d \in Parents(path) <=>
             \E i \in 1..Len(path) : /\ path[i] = Slash /\ d = SubSeq(path, 1, i - 1)
                                     /\ d \in Seq(Nat) /\ Len(d) = i - 1
                                     /\ \A j \in 1..(i - 1) : d[j] = path[j]
<1>1. \A i \in 1..Len(path) : /\ SubSeq(path, 1, i - 1) \in Seq(Nat)
                              /\ Len(SubSeq(path, 1, i - 1)) = i - 1
                              /\ \A j \in 1..(i - 1) : SubSeq(path, 1, i - 1)[j] = path[j]
  OBVIOUS
<1>2. DOMAIN path = 1..Len(path)
  OBVIOUS
<1> QED
  BY <1>1, <1>2 DEF Parents

\* A sequence with the beginning of another is that beginning.
LEMMA BeginningIs ==
    ASSUME NEW path \in Seq(Nat), NEW i \in 1..Len(path), NEW d \in Seq(Nat), Len(d) = i - 1,
           \A j \in 1..(i - 1) : d[j] = path[j]
    PROVE  d = SubSeq(path, 1, i - 1)
<1>1. /\ SubSeq(path, 1, i - 1) \in Seq(Nat) /\ Len(SubSeq(path, 1, i - 1)) = i - 1
      /\ \A j \in 1..(i - 1) : SubSeq(path, 1, i - 1)[j] = path[j]
  OBVIOUS
<1> QED
  BY <1>1, SeqEqual

\* A path has finitely many parents.
LEMMA ParentsFinite ==
    ASSUME NEW path \in Seq(Nat)
    PROVE  IsFiniteSet(Parents(path))
<1> DEFINE D == {j \in DOMAIN path : path[j] = Slash}
           f == [i \in D |-> SubSeq(path, 1, i - 1)]
<1>1. IsFiniteSet(1..Len(path)) /\ D \in SUBSET (1..Len(path))
  BY FS_Interval
<1>2. IsFiniteSet(D)
  BY <1>1, FS_Subset
<1>3. DOMAIN f = D /\ Parents(path) = {f[i] : i \in D}
  BY DEF Parents
<1> HIDE DEF D, f
<1> QED
  BY <1>2, <1>3, ImageFinite

\* The directories that the keys call for.
Directories == {<<>>} \cup UNION {Parents(k) : k \in Keys}

\* There are finitely many.
LEMMA DirectoriesFinite == IsFiniteSet(Directories) /\ Directories \subseteq Seq(Nat)
<1>1. \A k \in Keys : k \in Seq(Nat)
  BY KeysAssumption
<1> DEFINE f == [k \in Keys |-> Parents(k)]
           P == {f[k] : k \in DOMAIN f}
<1>2. IsFiniteSet(P)
  <2>1. IsFiniteSet(DOMAIN f)
    BY KeysAssumption
  <2> HIDE DEF f
  <2> QED
    BY <2>1, ImageFinite
<1>3. \A p \in P : IsFiniteSet(p) /\ p \subseteq Seq(Nat)
  BY <1>1, ParentsFinite, ParentsIs
<1>4. P = {Parents(k) : k \in Keys}
  OBVIOUS
<1> HIDE DEF P
<1>5. IsFiniteSet(UNION P) /\ UNION P \subseteq Seq(Nat)
  BY <1>2, <1>3, FS_UNION
<1>6. IsFiniteSet({<<>>}) /\ <<>> \in Seq(Nat)
  <2>1. \A x : IsFiniteSet({x})
    BY FS_Singleton
  <2>2. <<>> \in Seq(Nat)
    OBVIOUS
  <2> QED
    BY <2>1, <2>2
<1>7. Directories = {<<>>} \cup UNION P
  BY <1>4 DEF Directories
<1>8. IsFiniteSet({<<>>} \cup UNION P)
  BY <1>5, <1>6, FS_Union
<1> QED
  BY <1>5, <1>6, <1>7, <1>8

\* Files and directories of a bucket.
Tree(K, D) ==
    /\ K \subseteq Keys /\ D \subseteq Directories
    /\ \A k \in K : k \notin D /\ Parents(k) \subseteq D

\* What is in directory d.
Nodes(d) ==
    {Node(k, FALSE) : k \in {o \in objects : Holds(d, o)}}
      \cup {Node(s, TRUE) : s \in {x \in dirs : Holds(d, x)}}

\* The nodes of a directory have different names, for no file has that of a
\* directory.
LEMMA NodesKeyed ==
    ASSUME Tree(objects, dirs), NEW d
    PROVE  Keyed(Nodes(d)) /\ Nodes(d) \subseteq NodeType
<1> DEFINE O == {o \in objects : Holds(d, o)}
           X == {x \in dirs : Holds(d, x)}
           f == [k \in O |-> Node(k, FALSE)]
           g == [s \in X |-> Node(s, TRUE)]
<1>1. /\ O \in SUBSET Keys /\ X \in SUBSET Directories
      /\ \A k \in O : k \in Seq(Nat) /\ k \notin X
      /\ \A s \in X : s \in Seq(Nat)
  BY KeysAssumption, DirectoriesFinite DEF Tree
<1>2. IsFiniteSet(O) /\ IsFiniteSet(X)
  <2> HIDE DEF O, X
  <2> QED
    BY <1>1, KeysAssumption, DirectoriesFinite, FS_Subset
<1>3. DOMAIN f = O /\ DOMAIN g = X
  OBVIOUS
<1>4. IsFiniteSet({f[k] : k \in O}) /\ IsFiniteSet({g[s] : s \in X})
  <2> HIDE DEF O, X, f, g
  <2> QED
    BY <1>2, <1>3, ImageFinite
<1>5. Nodes(d) = {f[k] : k \in O} \cup {g[s] : s \in X}
  BY DEF Nodes
<1>6. IsFiniteSet(Nodes(d))
  <2> HIDE DEF O, X, f, g
  <2> QED
    BY <1>4, <1>5, FS_Union
<1> HIDE DEF O, X
<1>7. \A e \in Nodes(d) : \/ \E k \in O : e = Node(k, FALSE)
                          \/ \E s \in X : e = Node(s, TRUE)
  BY <1>5
<1>8. \A e \in Nodes(d) : \/ e \in NodeType /\ ~e.dir /\ e.key \in O /\ e = Node(e.key, FALSE)
                          \/ e \in NodeType /\ e.dir /\ e.key \in X /\ e = Node(e.key, TRUE)
  <2>1. ASSUME NEW k \in O
        PROVE  /\ Node(k, FALSE) \in NodeType /\ Node(k, FALSE).key = k
               /\ Node(k, FALSE).dir = FALSE
    BY <1>1, <2>1 DEF Node, NodeType
  <2>2. ASSUME NEW s \in X
        PROVE  /\ Node(s, TRUE) \in NodeType /\ Node(s, TRUE).key = s
               /\ Node(s, TRUE).dir = TRUE
    BY <1>1, <2>2 DEF Node, NodeType
  <2> QED
    BY <1>7, <2>1, <2>2
<1>9. \A e, h \in Nodes(d) : e.key = h.key => e = h
  BY <1>1, <1>8
<1> QED
  BY <1>6, <1>8, <1>9 DEF Keyed, NodeType

\* ReadDir finds them all.
LEMMA ReadDirIs ==
    ASSUME Tree(objects, dirs), NEW d
    PROVE  /\ ReadDir(d) \in Seq(NodeType) /\ Ascending(ReadDir(d))
           /\ \A i \in DOMAIN ReadDir(d) :
                LET e == ReadDir(d)[i]
                IN Holds(d, e.key) /\ e.key \in IF e.dir THEN dirs ELSE objects
           /\ \A k \in objects : Holds(d, k) =>
                \E i \in DOMAIN ReadDir(d) : ReadDir(d)[i] = Node(k, FALSE)
           /\ \A x \in dirs : Holds(d, x) =>
                \E i \in DOMAIN ReadDir(d) : ReadDir(d)[i] = Node(x, TRUE)
<1>1. Keyed(Nodes(d)) /\ Nodes(d) \subseteq NodeType
  BY NodesKeyed
<1>2. ReadDir(d) = Sorted(Nodes(d))
  BY DEF ReadDir, Nodes
<1>3. /\ ReadDir(d) \in Seq(Nodes(d)) /\ Ascending(ReadDir(d))
      /\ \A e \in Nodes(d) : \E i \in DOMAIN ReadDir(d) : ReadDir(d)[i] = e
  BY <1>1, <1>2, SortedIs
<1> DEFINE s == ReadDir(d)
<1>4. s \in Seq(NodeType) /\ \A i \in DOMAIN s : s[i] \in Nodes(d)
  <2>1. s \in Seq(Nodes(d))
    BY <1>3
  <2> HIDE DEF s
  <2> QED
    BY <1>1, <2>1
<1>5. \A e \in Nodes(d) : Holds(d, e.key) /\ e.key \in IF e.dir THEN dirs ELSE objects
  BY DEF Nodes, Node
<1>6. \A k \in objects : Holds(d, k) => Node(k, FALSE) \in Nodes(d)
  BY DEF Nodes
<1>7. \A x \in dirs : Holds(d, x) => Node(x, TRUE) \in Nodes(d)
  BY DEF Nodes
<1> QED
  BY <1>3, <1>4, <1>5, <1>6, <1>7

\* On the way from a directory to a key there is one step: the key itself, or
\* another directory on the way.
LEMMA NextOnTheWay ==
    ASSUME NEW k \in Keys, NEW d \in Parents(k) \cup {<<>>}
    PROVE  Holds(d, k) \/ \E x \in Parents(k) : Holds(d, x)
<1>1. k \in Seq(Nat) /\ k # <<>> /\ k[1] # Slash
  BY KeysAssumption
<1>2. PICK i \in 0..Len(k) : /\ i = 0 \/ k[i] = Slash
                             /\ d \in Seq(Nat) /\ Len(d) = IF i = 0 THEN 0 ELSE i - 1
                             /\ \A j \in 1..Len(d) : d[j] = k[j]
                             /\ i = 0 => d = <<>>
                             /\ i # 0 => d \in Parents(k)
  <2>1. CASE d = <<>>
    <3>1. d \in Seq(Nat) /\ Len(d) = 0 /\ 0 \in 0..Len(k)
      BY <1>1, <2>1
    <3> QED
      BY <2>1, <3>1
  <2>2. CASE d \in Parents(k)
    BY <1>1, <2>2, ParentsIs
  <2> QED
    BY <2>1, <2>2
<1> DEFINE J == {j \in Nat : i < j /\ j <= Len(k) /\ k[j] = Slash}
<1>3. ASSUME NEW p \in Seq(Nat), NEW m \in 1..Len(k), m <= i, Len(p) = m - 1,
             \A j \in 1..(m - 1) : p[j] = k[j]
      PROVE  IsPrefix(p, d)
  <2>1. Len(p) <= Len(d) /\ \A j \in 1..Len(p) : p[j] = d[j]
    BY <1>2, <1>3
  <2> QED
    BY <1>2, <2>1, PrefixIs, Integral
<1>4. CASE J = {}
  <2>1. ASSUME NEW p \in Parents(k) PROVE IsPrefix(p, d)
    <3>1. PICK m \in 1..Len(k) : /\ k[m] = Slash /\ p \in Seq(Nat) /\ Len(p) = m - 1
                                 /\ \A j \in 1..(m - 1) : p[j] = k[j]
      BY <1>1, ParentsIs
    <3>2. m <= i
      <4>1. m \notin J
        BY <1>4
      <4> QED
        BY <1>2, <3>1, <4>1
    <3> QED
      BY <1>3, <3>1, <3>2
  <2> QED
    BY <1>1, <2>1 DEF Holds
<1>5. CASE J # {}
  <2>1. PICK j \in J : \A m \in J : j <= m
    BY <1>5, Least
  <2> DEFINE x == SubSeq(k, 1, j - 1)
  <2>2. /\ j \in 1..Len(k) /\ k[j] = Slash /\ i < j /\ j # 1
        /\ x \in Seq(Nat) /\ Len(x) = j - 1 /\ \A m \in 1..(j - 1) : x[m] = k[m]
    BY <1>1, <1>2, <2>1
  <2>3. x \in Parents(k) /\ x # <<>>
    <3>1. x \in Parents(k)
      BY <1>1, <2>2, ParentsIs
    <3>2. Len(<<>>) = 0
      OBVIOUS
    <3> HIDE DEF x
    <3> QED
      BY <2>2, <3>1, <3>2
  <2> HIDE DEF x
  <2>4. d \in Parents(x) \cup {<<>>}
    <3>1. CASE i = 0
      BY <1>2, <3>1
    <3>2. CASE i # 0
      <4>1. /\ i \in 1..Len(x) /\ x[i] = Slash /\ Len(d) = i - 1
            /\ \A m \in 1..(i - 1) : d[m] = x[m]
        BY <1>2, <2>2, <3>2
      <4>2. d = SubSeq(x, 1, i - 1)
        BY <1>2, <2>2, <4>1, BeginningIs
      <4> QED
        BY <1>2, <2>2, <4>1, <4>2, ParentsIs
    <3> QED
      BY <3>1, <3>2
  <2>5. ASSUME NEW p \in Parents(x) PROVE IsPrefix(p, d)
    <3>1. PICK m \in 1..Len(x) : /\ x[m] = Slash /\ p \in Seq(Nat) /\ Len(p) = m - 1
                                 /\ \A l \in 1..(m - 1) : p[l] = x[l]
      BY <2>2, ParentsIs
    <3>2. m \in 1..Len(k) /\ k[m] = Slash /\ m < j /\ \A l \in 1..(m - 1) : p[l] = k[l]
      BY <2>2, <3>1
    <3>3. m <= i
      <4>1. m \notin J
        BY <2>1, <2>2, <3>2
      <4> QED
        BY <1>2, <3>2, <4>1
    <3> QED
      BY <1>3, <3>1, <3>2, <3>3
  <2>6. Holds(d, x)
    BY <2>3, <2>4, <2>5 DEF Holds
  <2> QED
    BY <2>3, <2>6
<1> QED
  BY <1>4, <1>5

\* A directory in which ReadDir finds nothing is on no object's way.
LEMMA EmptyDirectory ==
    ASSUME Tree(objects, dirs), NEW d, ReadDir(d) = <<>>, NEW k \in objects
    PROVE  d \notin Parents(k)
<1>1. SUFFICES ASSUME d \in Parents(k) PROVE FALSE
  OBVIOUS
<1>2. k \in Keys /\ Parents(k) \subseteq dirs
  BY DEF Tree
<1>3. Holds(d, k) \/ \E x \in dirs : Holds(d, x)
  BY <1>1, <1>2, NextOnTheWay
<1>4. \E i \in DOMAIN ReadDir(d) : TRUE
  BY <1>3, ReadDirIs
<1>5. DOMAIN <<>> = {}
  OBVIOUS
<1> QED
  BY <1>4, <1>5

-----------------------------------------------------------------------------
(* What a key is listed as *)

\* Where occurrences of the delimiter beyond the prefix end in a key, and where
\* they begin in what follows the prefix.
Ends(k, prefix, delimiter) ==
    {n \in Len(prefix) + Len(delimiter)..Len(k) :
       SubSeq(k, n - Len(delimiter) + 1, n) = delimiter}
Rests(k, prefix) == SubSeq(k, Len(prefix) + 1, Len(k))
Begins(text, delimiter) ==
    {i \in DOMAIN text : IsPrefix(delimiter, SubSeq(text, i, Len(text)))}

\* What a query shows for a key.
ShownAs(k, prefix, delimiter) ==
    IF delimiter = <<>> \/ Ends(k, prefix, delimiter) = {} THEN Entry(k, FALSE)
    ELSE Entry(SubSeq(k, 1, CHOOSE n \in Ends(k, prefix, delimiter) :
                              \A m \in Ends(k, prefix, delimiter) : n <= m), TRUE)

\* Shown is that of the query of the call.
LEMMA ShownIs ==
    ASSUME NEW k
    PROVE  Shown(k) = ShownAs(k, call.query.prefix, call.query.delimiter)
BY DEF Shown, ShownAs, Ends

\* An end, character by character.
LEMMA EndIs ==
    ASSUME NEW k \in Seq(Nat), NEW delimiter \in Seq(Nat), NEW n \in Len(delimiter)..Len(k)
    PROVE  SubSeq(k, n - Len(delimiter) + 1, n) = delimiter <=>
             \A j \in 1..Len(delimiter) : k[n - Len(delimiter) + j] = delimiter[j]
<1> DEFINE L == Len(delimiter)
           s == SubSeq(k, n - L + 1, n)
<1>1. /\ s \in Seq(Nat) /\ Len(s) = L
      /\ \A j \in 1..L : s[j] = k[n - L + j]
  OBVIOUS
<1> HIDE DEF s
<1>2. ASSUME \A j \in 1..L : k[n - L + j] = delimiter[j] PROVE s = delimiter
  BY <1>1, <1>2, SeqEqual
<1> QED
  BY <1>1, <1>2 DEF s

\* What follows the prefix.
LEMMA RestsIs ==
    ASSUME NEW k \in Seq(Nat), NEW prefix \in Seq(Nat), Len(prefix) <= Len(k)
    PROVE  /\ Rests(k, prefix) \in Seq(Nat) /\ Len(Rests(k, prefix)) = Len(k) - Len(prefix)
           /\ \A j \in 1..(Len(k) - Len(prefix)) : Rests(k, prefix)[j] = k[Len(prefix) + j]
BY DEF Rests

\* A beginning, character by character.
LEMMA BeginIs ==
    ASSUME NEW text \in Seq(Nat), NEW delimiter \in Seq(Nat), NEW i \in 1..Len(text)
    PROVE  i \in Begins(text, delimiter) <=>
             /\ i + Len(delimiter) - 1 <= Len(text)
             /\ \A j \in 1..Len(delimiter) : text[i + j - 1] = delimiter[j]
<1> DEFINE s == SubSeq(text, i, Len(text))
<1>1. /\ s \in Seq(Nat) /\ Len(s) = Len(text) - i + 1
      /\ \A j \in 1..(Len(text) - i + 1) : s[j] = text[i + j - 1]
  <2>1. Len(text) \in Nat /\ \A j \in i..Len(text) : text[j] \in Nat
    OBVIOUS
  <2>2. i \in Int /\ Len(text) \in Int /\ i <= Len(text)
    BY <2>1
  <2>3. s \in Seq(Nat) /\ Len(s) = Len(text) - i + 1
    BY <2>1, <2>2, SubSeqProperties
  <2>4. \A j \in 1..(Len(text) - i + 1) : s[j] = text[i + j - 1]
    BY <2>1, <2>2, SubSeqProperties
  <2> QED
    BY <2>3, <2>4
<1> HIDE DEF s
<1>2. i \in Begins(text, delimiter) <=> IsPrefix(delimiter, s)
  BY DEF Begins, s
<1>3. IsPrefix(delimiter, s) <=>
        Len(delimiter) <= Len(s) /\ \A j \in 1..Len(delimiter) : delimiter[j] = s[j]
  <2>1. delimiter \in Seq(Int) /\ s \in Seq(Int)
    BY <1>1, Integral
  <2> QED
    BY <2>1, PrefixIs
<1>4. Len(delimiter) \in Nat /\ Len(text) \in Nat
  OBVIOUS
<1>5. Len(delimiter) <= Len(s) <=> i + Len(delimiter) - 1 <= Len(text)
  BY <1>1, <1>4
<1>6. ASSUME Len(delimiter) <= Len(s), NEW j \in 1..Len(delimiter)
      PROVE  s[j] = text[i + j - 1]
  BY <1>1, <1>4, <1>6
<1> QED
  BY <1>2, <1>3, <1>5, <1>6

\* They are the same occurrences.
LEMMA Occurrences ==
    ASSUME NEW k \in Seq(Nat), NEW prefix \in Seq(Nat), Len(prefix) <= Len(k),
           NEW delimiter \in Seq(Nat), delimiter # <<>>, NEW i \in Int
    PROVE  i \in Begins(Rests(k, prefix), delimiter) <=>
             Len(prefix) + i + Len(delimiter) - 1 \in Ends(k, prefix, delimiter)
<1> DEFINE p == Len(prefix)
           L == Len(delimiter)
           K == Len(k)
           n == p + i + L - 1
           text == Rests(k, prefix)
           B == Begins(text, delimiter)
           E == Ends(k, prefix, delimiter)
<1>1. L \in Nat /\ L # 0 /\ p \in Nat /\ K \in Nat /\ p <= K /\ n \in Int
  <2>1. L # 0
    BY EmptySeq
  <2> QED
    BY <2>1
<1>2. /\ text \in Seq(Nat) /\ Len(text) = K - p /\ DOMAIN text = 1..(K - p)
      /\ \A j \in 1..(K - p) : text[j] = k[p + j]
  <2>1. text \in Seq(Nat) /\ Len(text) = K - p /\ \A j \in 1..(K - p) : text[j] = k[p + j]
    BY RestsIs
  <2> HIDE DEF text
  <2> QED
    BY <2>1
<1>3. ASSUME i \in 1..(K - p)
      PROVE  i \in B <=> i + L - 1 <= K - p /\ \A j \in 1..L : text[i + j - 1] = delimiter[j]
  <2> HIDE DEF text
  <2>1. i \in 1..Len(text)
    BY <1>2, <1>3
  <2>2. text \in Seq(Nat)
    BY <1>2
  <2>3. i \in B <=> /\ i + L - 1 <= Len(text)
                   /\ \A j \in 1..L : text[i + j - 1] = delimiter[j]
    BY <2>1, <2>2, BeginIs
  <2> HIDE DEF B, L, K, p
  <2> QED
    BY <1>2, <2>3
<1>4. B \subseteq 1..(K - p) /\ E \subseteq (p + L)..K
  BY <1>2 DEF Begins, Ends
<1>5. ASSUME n \in (p + L)..K
      PROVE  n \in E <=> \A j \in 1..L : k[n - L + j] = delimiter[j]
  <2>1. n \in L..K
    <3> HIDE DEF n, p, L, K
    <3> QED
      BY <1>1, <1>5
  <2>2. SubSeq(k, n - L + 1, n) = delimiter <=> \A j \in 1..L : k[n - L + j] = delimiter[j]
    <3> HIDE DEF n
    <3> QED
      BY <2>1, EndIs
  <2>3. n \in E <=> SubSeq(k, n - L + 1, n) = delimiter
    BY <1>5 DEF Ends
  <2> QED
    BY <2>2, <2>3
<1>6. n = p + i + L - 1
  OBVIOUS
<1> HIDE DEF text, B, E, p, L, K, n
<1>7. CASE i \in 1..(K - p) /\ n <= K
  <2>1. i \in B <=> \A j \in 1..L : text[i + j - 1] = delimiter[j]
    BY <1>1, <1>3, <1>6, <1>7
  <2>2. n \in E <=> \A j \in 1..L : k[n - L + j] = delimiter[j]
    BY <1>1, <1>5, <1>6, <1>7
  <2>3. ASSUME NEW j \in 1..L PROVE text[i + j - 1] = k[n - L + j]
    <3>1. i + j - 1 \in 1..(K - p) /\ p + (i + j - 1) = n - L + j
      BY <1>1, <1>6, <1>7
    <3> QED
      BY <1>2, <3>1
  <2>4. i \in B <=> n \in E
    BY <2>1, <2>2, <2>3
  <2> QED
    BY <2>4 DEF B, E, text, n, p, L
<1>8. CASE ~(i \in 1..(K - p) /\ n <= K)
  <2>1. n \notin E
    <3>1. n \notin (p + L)..K
      BY <1>1, <1>6, <1>8
    <3> QED
      BY <1>4, <3>1
  <2>2. i \notin B
    <3>1. CASE i \in 1..(K - p)
      <4>1. ~(i + L - 1 <= K - p)
        BY <1>1, <1>6, <1>8, <3>1
      <4> QED
        BY <1>3, <3>1, <4>1
    <3>2. CASE i \notin 1..(K - p)
      BY <1>4, <3>2
    <3> QED
      BY <3>1, <3>2
  <2>3. i \in B <=> n \in E
    BY <2>1, <2>2
  <2> QED
    BY <2>3 DEF B, E, text, n, p, L
<1> QED
  BY <1>7, <1>8

\* The least of a set of numbers is what CHOOSE gives.
LEMMA ChooseLeast ==
    ASSUME NEW S, S \subseteq Nat, S # {}
    PROVE  LET m == CHOOSE i \in S : \A j \in S : i <= j
           IN m \in S /\ \A j \in S : m <= j
<1>1. \E i \in S : \A j \in S : i <= j
  BY Least
<1> QED
  BY <1>1

\* A prefix and the beginning of what follows it.
LEMMA JoinIs ==
    ASSUME NEW k \in Seq(Nat), NEW prefix \in Seq(Nat), IsPrefix(prefix, k),
           NEW m \in 0..(Len(k) - Len(prefix))
    PROVE  prefix \o SubSeq(Rests(k, prefix), 1, m) = SubSeq(k, 1, Len(prefix) + m)
<1> DEFINE p == Len(prefix)
           K == Len(k)
           text == Rests(k, prefix)
           a == SubSeq(text, 1, m)
           s == prefix \o a
           t == SubSeq(k, 1, p + m)
<1>1. p <= K /\ p \in Nat /\ K \in Nat /\ m \in Nat /\ \A j \in 1..p : prefix[j] = k[j]
  BY PrefixIs, Integral
<1>2. /\ text \in Seq(Nat) /\ Len(text) = K - p
      /\ \A j \in 1..(K - p) : text[j] = k[p + j]
  BY <1>1, RestsIs
<1>3. a \in Seq(Nat) /\ Len(a) = m /\ \A j \in 1..m : a[j] = text[j]
  <2> HIDE DEF text, p, K
  <2>1. m \in 0..Len(text) /\ Len(text) \in Nat
    BY <1>1, <1>2 DEF p, K
  <2> QED
    BY <1>2, <2>1
<1>4. t \in Seq(Nat) /\ Len(t) = p + m /\ \A j \in 1..(p + m) : t[j] = k[j]
  <2>1. p + m \in 0..Len(k)
    BY <1>1
  <2> HIDE DEF p
  <2> QED
    BY <1>1, <2>1
<1>5. /\ s \in Seq(Nat) /\ Len(s) = p + m
      /\ \A j \in 1..(p + m) : s[j] = IF j <= p THEN prefix[j] ELSE a[j - p]
  <2>1. a \in Seq(Nat) /\ prefix \in Seq(Nat) /\ Len(a) = m
    BY <1>3
  <2> HIDE DEF a
  <2> QED
    BY <2>1, ConcatProperties
<1>6. m <= K - p
  OBVIOUS
<1> HIDE DEF p, K, text, a, s, t
<1>7. ASSUME NEW j \in 1..(p + m) PROVE s[j] = t[j]
  <2>1. CASE j <= p
    <3>1. j \in 1..p
      BY <1>1, <2>1
    <3> QED
      BY <1>1, <1>4, <1>5, <2>1, <3>1
  <2>2. CASE ~(j <= p)
    <3>1. j - p \in 1..m /\ j - p \in 1..(K - p) /\ p + (j - p) = j
      BY <1>1, <1>6, <2>2
    <3> QED
      BY <1>2, <1>3, <1>4, <1>5, <2>2, <3>1
  <2> QED
    BY <2>1, <2>2
<1>8. s = t
  BY <1>1, <1>4, <1>5, <1>7, SeqEqual
<1> QED
  BY <1>8 DEF s, t, a, text, p

\* groupEntriesByDelimiter lists a key as what Shown says.
LEMMA RollUpIs ==
    ASSUME NEW k \in Seq(Nat), NEW prefix \in Seq(Nat), IsPrefix(prefix, k),
           NEW delimiter \in Seq(Nat)
    PROVE  RollUp(k, prefix, delimiter) = ShownAs(k, prefix, delimiter)
<1> DEFINE p == Len(prefix)
           L == Len(delimiter)
           text == Rests(k, prefix)
           B == Begins(text, delimiter)
           E == Ends(k, prefix, delimiter)
           least == CHOOSE i \in B : \A j \in B : i <= j
           first == CHOOSE n \in E : \A m \in E : n <= m
<1>1. p <= Len(k) /\ p \in Nat /\ L \in Nat /\ Len(k) \in Nat /\ \A j \in 1..p : prefix[j] = k[j]
  BY PrefixIs, Integral
<1>2. CASE delimiter = <<>>
  BY <1>2 DEF RollUp, ShownAs
<1>3. CASE delimiter # <<>>
  <2>1. \A i \in Int : i \in B <=> p + i + L - 1 \in E
    BY <1>1, <1>3, Occurrences
  <2>2. /\ text \in Seq(Nat) /\ Len(text) = Len(k) - p
        /\ \A j \in 1..(Len(k) - p) : text[j] = k[p + j]
    BY <1>1, RestsIs
  <2>3. B \subseteq Nat \ {0} /\ B \subseteq 1..Len(text) /\ E \subseteq Nat /\ E \subseteq 1..Len(k) \cup {0}
    <3>1. B \subseteq DOMAIN text /\ E \subseteq (p + L)..Len(k)
      BY DEF Begins, Ends
    <3>2. DOMAIN text = 1..Len(text) /\ Len(text) \in Nat
      BY <2>2, LenProperties
    <3> HIDE DEF text, B, E
    <3>3. (p + L)..Len(k) \subseteq Nat /\ (p + L)..Len(k) \subseteq 1..Len(k) \cup {0}
      <4> HIDE DEF p, L
      <4> QED
        BY <1>1
    <3> QED
      BY <3>1, <3>2, <3>3
  <2>4. RollUp(k, prefix, delimiter) =
          IF B = {} THEN Entry(k, FALSE)
          ELSE Entry(prefix \o SubSeq(text, 1, least + L - 1), TRUE)
    <3>1. Index(text, delimiter) = IF B = {} THEN 0 ELSE least
      BY DEF Index, Begins
    <3>2. B # {} => least # 0
      <4> HIDE DEF B
      <4>1. B # {} => least \in B
        BY <2>3, ChooseLeast
      <4> QED
        BY <2>3, <4>1
    <3>3. RollUp(k, prefix, delimiter) =
            IF Index(text, delimiter) = 0 THEN Entry(k, FALSE)
            ELSE Entry(prefix \o SubSeq(text, 1, Index(text, delimiter) + L - 1), TRUE)
      BY <1>3 DEF RollUp, Rests
    <3> HIDE DEF B, text, least
    <3> QED
      BY <3>1, <3>2, <3>3
  <2>5. B = {} <=> E = {}
    <3> HIDE DEF B, E
    <3>1. ASSUME NEW n \in E PROVE n - p - L + 1 \in B
      <4>1. n \in Int /\ n - p - L + 1 \in Int /\ p + (n - p - L + 1) + L - 1 = n
        BY <1>1, <2>3
      <4> QED
        BY <2>1, <4>1
    <3>2. ASSUME NEW i \in B PROVE p + i + L - 1 \in E
      BY <2>1, <2>3
    <3> QED
      BY <3>1, <3>2
  <2>6. CASE E = {}
    BY <1>3, <2>4, <2>5, <2>6 DEF ShownAs
  <2>7. CASE E # {}
    <3>1. /\ least \in B /\ \A j \in B : least <= j
          /\ first \in E /\ \A m \in E : first <= m
      <4> HIDE DEF B, E
      <4> QED
        BY <2>3, <2>5, <2>7, ChooseLeast
    <3> HIDE DEF B, E, least, first
    <3>2. first = p + least + L - 1
      <4>1. p + least + L - 1 \in E /\ first <= p + least + L - 1
        BY <2>1, <2>3, <3>1
      <4>2. first - p - L + 1 \in B
        <5>1. first \in Int
          BY <2>3, <3>1
        <5>2. first - p - L + 1 \in Int /\ p + (first - p - L + 1) + L - 1 = first
          <6> HIDE DEF p, L
          <6> QED
            BY <1>1, <5>1
        <5> QED
          BY <2>1, <3>1, <5>2
      <4>3. least <= first - p - L + 1 /\ least \in Nat /\ first \in Nat
        BY <2>3, <3>1, <4>2
      <4> QED
        BY <1>1, <4>1, <4>3
    <3>3. prefix \o SubSeq(text, 1, least + L - 1) = SubSeq(k, 1, first)
      <4>1. least \in Nat \ {0} /\ first \in Nat /\ first <= Len(k)
        <5>1. first \in 1..Len(k) \cup {0}
          BY <2>3, <3>1
        <5> QED
          BY <1>1, <2>3, <3>1, <5>1
      <4>2. least + L - 1 \in 0..(Len(k) - p) /\ first = p + (least + L - 1)
        <5> HIDE DEF p, L
        <5> QED
          BY <1>1, <3>2, <4>1
      <4> DEFINE m == least + L - 1
      <4> HIDE DEF m
      <4>3. m \in 0..(Len(k) - Len(prefix)) /\ first = Len(prefix) + m
        BY <4>2 DEF m
      <4>4. prefix \o SubSeq(Rests(k, prefix), 1, m) = SubSeq(k, 1, Len(prefix) + m)
        BY <4>3, JoinIs
      <4> QED
        BY <4>3, <4>4 DEF m, text
    <3>4. ShownAs(k, prefix, delimiter) = Entry(SubSeq(k, 1, first), TRUE)
      BY <1>3, <2>7 DEF ShownAs, E, first
    <3> QED
      BY <2>4, <2>5, <2>7, <3>3, <3>4
  <2> QED
    BY <2>6, <2>7
<1> QED
  BY <1>2, <1>3

\* What is shown has a key, and an object and a common prefix never the same.
LEMMA ShownKeyed ==
    ASSUME NEW prefix \in Seq(Nat), NEW delimiter \in Seq(Nat)
    PROVE  /\ \A k \in Seq(Nat) : ShownAs(k, prefix, delimiter).key \in Seq(Nat)
           /\ \A j, k \in Seq(Nat) :
                ShownAs(j, prefix, delimiter).key = ShownAs(k, prefix, delimiter).key =>
                  ShownAs(j, prefix, delimiter) = ShownAs(k, prefix, delimiter)
<1> DEFINE E(k) == Ends(k, prefix, delimiter)
           Cut(k) == SubSeq(k, 1, CHOOSE n \in E(k) : \A m \in E(k) : n <= m)
<1>1. ASSUME NEW k \in Seq(Nat), E(k) # {}
      PROVE  Cut(k) \in Seq(Nat) /\ E(Cut(k)) # {}
  <2> DEFINE n == CHOOSE n \in E(k) : \A m \in E(k) : n <= m
  <2>1. E(k) \subseteq (Len(prefix) + Len(delimiter))..Len(k)
    BY DEF Ends
  <2>2. n \in E(k)
    <3>1. E(k) \subseteq Nat
      BY <2>1
    <3> HIDE DEF E
    <3> QED
      BY <1>1, <3>1, ChooseLeast
  <2>3. /\ n \in (Len(prefix) + Len(delimiter))..Len(k) /\ n \in Len(delimiter)..Len(k)
        /\ SubSeq(k, n - Len(delimiter) + 1, n) = delimiter
    <3> HIDE DEF n
    <3>1. n \in (Len(prefix) + Len(delimiter))..Len(k)
      BY <2>1, <2>2
    <3>2. SubSeq(k, n - Len(delimiter) + 1, n) = delimiter
      BY <2>2 DEF Ends
    <3> QED
      BY <3>1, <3>2
  <2> HIDE DEF n
  <2> DEFINE c == SubSeq(k, 1, n)
  <2>4. c \in Seq(Nat) /\ Len(c) = n /\ \A j \in 1..n : c[j] = k[j]
    BY <2>3
  <2> HIDE DEF c
  <2>5. \A j \in 1..Len(delimiter) : k[n - Len(delimiter) + j] = delimiter[j]
    BY <2>3, EndIs
  <2>6. ASSUME NEW j \in 1..Len(delimiter) PROVE c[n - Len(delimiter) + j] = delimiter[j]
    <3>1. n - Len(delimiter) + j \in 1..n
      BY <2>3
    <3> QED
      BY <2>4, <2>5, <3>1
  <2>7. n \in Len(delimiter)..Len(c)
    BY <2>3, <2>4
  <2>8. SubSeq(c, n - Len(delimiter) + 1, n) = delimiter
    BY <2>4, <2>6, <2>7, EndIs
  <2>9. n \in E(c)
    BY <2>3, <2>4, <2>8 DEF Ends
  <2>10. c = Cut(k)
    BY DEF c, n
  <2> QED
    BY <2>4, <2>9, <2>10
<1>2. ASSUME NEW k \in Seq(Nat)
      PROVE  \/ /\ delimiter = <<>> \/ E(k) = {}
                /\ ShownAs(k, prefix, delimiter) = Entry(k, FALSE)
                /\ ShownAs(k, prefix, delimiter).key = k
             \/ /\ delimiter # <<>> /\ E(k) # {} /\ E(Cut(k)) # {} /\ Cut(k) \in Seq(Nat)
                /\ ShownAs(k, prefix, delimiter) = Entry(Cut(k), TRUE)
                /\ ShownAs(k, prefix, delimiter).key = Cut(k)
  <2>1. CASE delimiter = <<>> \/ E(k) = {}
    <3>1. ShownAs(k, prefix, delimiter) = Entry(k, FALSE)
      BY <2>1 DEF ShownAs
    <3> HIDE DEF E
    <3> QED
      BY <2>1, <3>1 DEF Entry
  <2>2. CASE ~(delimiter = <<>> \/ E(k) = {})
    <3>1. ShownAs(k, prefix, delimiter) = Entry(Cut(k), TRUE)
      BY <2>2 DEF ShownAs
    <3>2. E(Cut(k)) # {} /\ Cut(k) \in Seq(Nat)
      BY <1>1, <2>2
    <3> HIDE DEF E, Cut
    <3> QED
      BY <2>2, <3>1, <3>2 DEF Entry
  <2> QED
    BY <2>1, <2>2
<1>4. ASSUME NEW j \in Seq(Nat), NEW k \in Seq(Nat),
             ShownAs(j, prefix, delimiter).key = ShownAs(k, prefix, delimiter).key
      PROVE  ShownAs(j, prefix, delimiter) = ShownAs(k, prefix, delimiter)
  <2> DEFINE a == ShownAs(j, prefix, delimiter)
             b == ShownAs(k, prefix, delimiter)
             c == Cut(j)
             d == Cut(k)
             Ej == E(j)
             Ek == E(k)
             Ec == E(c)
             Ed == E(d)
  <2>1. \/ (delimiter = <<>> \/ Ej = {}) /\ a = Entry(j, FALSE) /\ a.key = j
        \/ delimiter # <<>> /\ Ej # {} /\ Ec # {} /\ a = Entry(c, TRUE) /\ a.key = c
    BY <1>2
  <2>2. \/ (delimiter = <<>> \/ Ek = {}) /\ b = Entry(k, FALSE) /\ b.key = k
        \/ delimiter # <<>> /\ Ek # {} /\ Ed # {} /\ b = Entry(d, TRUE) /\ b.key = d
    BY <1>2
  <2>3. (c = k => Ec = Ek) /\ (d = j => Ed = Ej) /\ a.key = b.key
    BY <1>4
  <2> HIDE DEF a, b, c, d, Ej, Ek, Ec, Ed
  <2>4. a = b
    BY <2>1, <2>2, <2>3
  <2> QED
    BY <2>4 DEF a, b
<1>5. \A k \in Seq(Nat) : ShownAs(k, prefix, delimiter).key \in Seq(Nat)
  <2> HIDE DEF E, Cut
  <2> QED
    BY <1>2
<1> QED
  BY <1>4, <1>5

-----------------------------------------------------------------------------
(* The invariant.  Its parts speak of a call c, the keys K that stay, the *)
(* keys S that were seen and the entries L that are listed.               *)

CallType == [pc : {"walk", "done"}, query : Query, startAt : Seq(Nat),
             stack : Seq(NodeType), found : SUBSET Keys, walked : Nat]

\* What the walk has found or will find was there and, once found, is asked for.
Walks(c, S) ==
    /\ c \in CallType /\ c.walked <= c.query.maxKeys + 1
    /\ c.pc = "done" => c.stack = <<>>
    /\ \A k \in c.found : k \in S /\ IsPrefix(c.query.prefix, k)
    /\ \A i \in DOMAIN c.stack : ~c.stack[i].dir => c.stack[i].key \in S

Typed ==
    /\ Tree(objects, dirs)
    /\ stable \subseteq objects /\ objects \subseteq seen /\ seen \subseteq Keys
    /\ Walks(call, seen)
    /\ changes \in 0..MaxChanges /\ faults \in 0..MaxFaults

\* The pages are in order, and end at the marker of the page to come.
Ordered(c, L) ==
    /\ \A e \in L :
         /\ e.key \in Seq(Nat) /\ Less(c.query.first, e.key)
         /\ c.pc = "walk" => e.key = c.startAt \/ Less(e.key, c.startAt)
    /\ c.pc = "walk" => c.startAt = c.query.first \/ Less(c.query.first, c.startAt)

\* An entry is what is shown for a key of the query that was seen.
Founded(q, S, L) ==
    \A e \in L : \E k \in S : IsPrefix(q.prefix, k) /\ e = ShownAs(k, q.prefix, q.delimiter)

\* j comes before k in the walk.
Comes(j, k) == Less(Walked(j), Walked(k))

\* The keys a node of the walk may lead to.
Under(n) == {k \in Keys : IF n.dir THEN n.key \in Parents(k) \cup {<<>>} ELSE k = n.key}

\* The walk goes through the bucket in its order.
InTurn(c) ==
    /\ \A i, j \in DOMAIN c.stack : i < j =>
         \A k \in Under(c.stack[i]), l \in Under(c.stack[j]) : Comes(k, l)
    /\ \A j \in c.found, i \in DOMAIN c.stack : \A k \in Under(c.stack[i]) : Comes(j, k)

\* Without a delimiter the walk counts the keys beyond the marker.
Beyond(F, startAt) == {k \in F : Less(startAt, k)}
Counted(c) == c.query.delimiter = <<>> => c.walked = Cardinality(Beyond(c.found, c.startAt))

\* The walk has given up, with more keys than the page takes, before key k.
GivenUp(c, k) ==
    /\ c.query.delimiter = <<>> /\ c.stack = <<>>
    /\ c.walked = c.query.maxKeys + 1
    /\ \A j \in c.found : Comes(j, k)

\* A key that stays is found, or will be, unless the walk gives up before it.
Covered(c, K) ==
    c.pc = "walk" =>
      \A k \in K : IsPrefix(c.query.prefix, k) =>
        \/ k \in c.found
        \/ \E i \in DOMAIN c.stack : k \in Under(c.stack[i])
        \/ GivenUp(c, k)

\* The walk meets the keys of a query in their order.
Agree(S, prefix) ==
    \A j, k \in S : IsPrefix(prefix, j) /\ IsPrefix(prefix, k) => (Less(j, k) <=> Comes(j, k))

\* What is shown for a key that stays, and is not beyond the marker, is listed.
Delivered(c, K, S, L) ==
    c.query.delimiter # <<>> \/ Agree(S, c.query.prefix) =>
      \A k \in K :
        LET e == ShownAs(k, c.query.prefix, c.query.delimiter)
        IN /\ IsPrefix(c.query.prefix, k) /\ Less(c.query.first, e.key)
           /\ c.pc = "walk" => ~Less(c.startAt, e.key)
           => e \in L

\* Together they are inductive.
Complete ==
    InTurn(call) /\ Counted(call) /\ Covered(call, stable) /\ Delivered(call, stable, seen, listed)
IInv ==
    /\ Typed /\ displaced = {} /\ Ordered(call, listed)
    /\ Founded(call.query, seen, listed) /\ Complete

-----------------------------------------------------------------------------
(* The walk *)

\* A query and its parts.
LEMMA QueryIs ==
    ASSUME NEW q \in Query
    PROVE  /\ q.prefix \in Seq(Nat) /\ q.delimiter \in Seq(Nat) /\ q.first \in Seq(Nat)
           /\ q.maxKeys \in Nat \ {0}
BY ParametersAssumption DEF Query

\* A page begins with the bucket's directory, which holds every key.
LEMMA Begun ==
    ASSUME NEW q \in Query, NEW startAt \in Seq(Nat), NEW S, NEW K \in SUBSET Keys
    PROVE  LET c == Walk(q, startAt)
           IN /\ Walks(c, S) /\ InTurn(c) /\ Counted(c) /\ Covered(c, K)
              /\ c.pc = "walk" /\ c.query = q /\ c.startAt = startAt
<1> DEFINE root == Node(<<>>, TRUE)
           c == Walk(q, startAt)
<1>1. root \in NodeType /\ root.dir /\ root.key = <<>>
  BY EmptySeq DEF NodeType, Node
<1>2. <<root>> \in Seq(NodeType) /\ DOMAIN <<root>> = {1} /\ <<root>>[1] = root
  <2> HIDE DEF root
  <2> QED
    BY <1>1
<1>3. /\ c.pc = "walk" /\ c.query = q /\ c.startAt = startAt /\ c.stack = <<root>>
      /\ c.found = {} /\ c.walked = 0
  BY DEF Walk
<1>4. c \in CallType
  BY <1>2 DEF Walk, CallType
<1>5. Walks(c, S)
  <2> HIDE DEF root, c
  <2> QED
    BY <1>1, <1>2, <1>3, <1>4, QueryIs DEF Walks
<1>6. InTurn(c)
  <2> HIDE DEF root, c
  <2> QED
    BY <1>2, <1>3 DEF InTurn
<1>7. Counted(c)
  <2>1. Beyond({}, startAt) = {}
    BY DEF Beyond
  <2> HIDE DEF root, c
  <2> QED
    BY <1>3, <2>1, FS_EmptySet DEF Counted
<1>8. Covered(c, K)
  <2>1. \A k \in K : k \in Under(root)
    BY <1>1 DEF Under
  <2> HIDE DEF root, c
  <2> QED
    BY <1>2, <1>3, <2>1 DEF Covered
<1> QED
  BY <1>3, <1>5, <1>6, <1>7, <1>8

\* A key that is neither empty nor begins with Slash, as every file and every
\* directory is but the bucket's.
Path(k) == k \in Seq(Nat) /\ k # <<>> /\ k[1] # Slash

\* What a node leads to begins with its name, and goes on with Slash below it.
LEMMA UnderIs ==
    ASSUME NEW e \in NodeType, Path(e.key), NEW k \in Under(e)
    PROVE  /\ k \in Keys /\ k \in Seq(Nat) /\ Len(e.key) <= Len(k)
           /\ \A j \in 1..Len(e.key) : k[j] = e.key[j]
           /\ ~e.dir => k = e.key
           /\ e.dir => Len(e.key) < Len(k) /\ k[Len(e.key) + 1] = Slash
<1>1. k \in Keys /\ k \in Seq(Nat) /\ e.key \in Seq(Nat) /\ e.dir \in BOOLEAN
  BY KeysAssumption DEF Under, NodeType
<1>2. CASE ~e.dir
  BY <1>1, <1>2 DEF Under
<1>3. CASE e.dir
  <2> DEFINE d == e.key
  <2>1. d \in Parents(k)
    BY <1>3 DEF Under, Path
  <2> HIDE DEF d
  <2>2. PICK i \in 1..Len(k) : /\ k[i] = Slash /\ Len(d) = i - 1
                               /\ \A j \in 1..(i - 1) : d[j] = k[j]
    BY <1>1, <2>1, ParentsIs
  <2> USE DEF d
  <2> QED
    BY <1>1, <1>3, <2>2
<1> QED
  BY <1>2, <1>3

\* What a directory holds leads on to what the directory leads to.
LEMMA UnderDown ==
    ASSUME NEW t \in NodeType, t.dir, NEW e \in NodeType, Path(e.key), Holds(t.key, e.key),
           NEW k \in Under(e)
    PROVE  k \in Under(t)
<1>1. /\ k \in Keys /\ k \in Seq(Nat) /\ Len(e.key) <= Len(k) /\ e.key \in Seq(Nat)
      /\ \A j \in 1..Len(e.key) : k[j] = e.key[j]
  BY UnderIs DEF NodeType
<1>2. t.key \in Parents(e.key) \cup {<<>>}
  BY DEF Holds
<1>3. CASE t.key = <<>>
  BY <1>1, <1>3 DEF Under
<1>4. CASE t.key \in Parents(e.key)
  <2> DEFINE d == t.key
             x == e.key
  <2>0. d \in Parents(x) /\ x \in Seq(Nat) /\ Len(x) <= Len(k) /\ \A j \in 1..Len(x) : k[j] = x[j]
    BY <1>1, <1>4
  <2> HIDE DEF d, x
  <2>1. PICK i \in 1..Len(x) : /\ x[i] = Slash /\ d \in Seq(Nat) /\ Len(d) = i - 1
                               /\ \A j \in 1..(i - 1) : d[j] = x[j]
    BY <2>0, ParentsIs
  <2>2. i \in 1..Len(k) /\ k[i] = Slash /\ \A j \in 1..(i - 1) : d[j] = k[j]
    BY <1>1, <2>0, <2>1
  <2>3. d = SubSeq(k, 1, i - 1)
    BY <1>1, <2>1, <2>2, BeginningIs
  <2>4. t.key \in Parents(k)
    BY <1>1, <2>1, <2>2, <2>3, ParentsIs DEF d
  <2> QED
    BY <1>1, <2>4 DEF Under
<1> QED
  BY <1>2, <1>3, <1>4

\* A path beyond the directory that holds it has no Slash.
LEMMA HeldIs ==
    ASSUME NEW d \in Seq(Nat), NEW x, Path(x), Holds(d, x)
    PROVE  /\ d # <<>> => /\ Len(d) < Len(x) /\ x[Len(d) + 1] = Slash
                          /\ \A j \in 1..Len(d) : x[j] = d[j]
           /\ \A i \in 1..Len(x) : x[i] = Slash => d # <<>> /\ i <= Len(d) + 1
<1>0. x \in Seq(Nat) /\ x[1] # Slash /\ Len(d) \in Nat /\ (d = <<>> <=> Len(d) = 0)
  BY EmptySeq DEF Path
<1>1. CASE d = <<>>
  <2>1. ASSUME NEW i \in 1..Len(x), x[i] = Slash PROVE FALSE
    <3>1. SubSeq(x, 1, i - 1) \in Parents(x)
      BY <1>0, <2>1 DEF Parents
    <3>2. IsPrefix(SubSeq(x, 1, i - 1), d)
      BY <3>1 DEF Holds
    <3>3. Len(SubSeq(x, 1, i - 1)) = i - 1
      BY <1>0, <2>1
    <3>4. i - 1 <= Len(d)
      BY <3>2, <3>3 DEF IsPrefix
    <3> QED
      BY <1>0, <1>1, <2>1, <3>4
  <2> QED
    BY <1>1, <2>1
<1>2. CASE d # <<>>
  <2>1. d \in Parents(x)
    BY <1>2 DEF Holds
  <2>2. PICK n \in 1..Len(x) : /\ x[n] = Slash /\ Len(d) = n - 1
                               /\ \A j \in 1..(n - 1) : d[j] = x[j]
    BY <1>0, <2>1, ParentsIs
  <2>3. ASSUME NEW i \in 1..Len(x), x[i] = Slash PROVE i <= Len(d) + 1
    <3>1. SubSeq(x, 1, i - 1) \in Parents(x)
      BY <1>0, <2>3 DEF Parents
    <3>2. IsPrefix(SubSeq(x, 1, i - 1), d)
      BY <3>1 DEF Holds
    <3>3. Len(SubSeq(x, 1, i - 1)) = i - 1
      BY <1>0, <2>3
    <3> QED
      BY <1>0, <3>2, <3>3 DEF IsPrefix
  <2> QED
    BY <1>0, <1>2, <2>2, <2>3
<1> QED
  BY <1>1, <1>2

\* The walk's order, character by character.
LEMMA ComesIs ==
    ASSUME NEW k \in Seq(Nat), NEW l \in Seq(Nat)
    PROVE  /\ Comes(k, l) <=> \E i \in Nat : Parts(Walked(k), Walked(l), i)
           /\ Walked(k) \in Seq(Int) /\ Len(Walked(k)) = Len(k)
           /\ \A i \in 1..Len(k) : Walked(k)[i] = IF k[i] = Slash THEN -1 ELSE k[i]
           /\ ~Comes(k, k)
<1>1. ASSUME NEW s \in Seq(Nat)
      PROVE  /\ Walked(s) \in Seq(Int) /\ Len(Walked(s)) = Len(s)
             /\ \A i \in 1..Len(s) : Walked(s)[i] = IF s[i] = Slash THEN -1 ELSE s[i]
  <2>1. Walked(s) \in [1..Len(s) -> Int] /\ Len(s) \in Nat
    BY DEF Walked
  <2>2. Walked(s) \in Seq(Int) /\ DOMAIN Walked(s) = 1..Len(s)
    <3> DEFINE w == Walked(s)
               n == Len(s)
    <3> HIDE DEF w, n
    <3>1. w \in [1..n -> Int] /\ n \in Nat
      BY <2>1 DEF w, n
    <3>2. w \in Seq(Int) /\ DOMAIN w = 1..n
      BY <3>1
    <3> QED
      BY <3>2 DEF w, n
  <2>3. Len(Walked(s)) = Len(s)
    BY <2>1, <2>2, LenProperties
  <2> QED
    BY <2>2, <2>3 DEF Walked
<1> QED
  BY <1>1, LessParts, LessIrreflexive DEF Comes

\* Of two names in a directory, what the lesser leads to comes first: where
\* the names part neither has a Slash, and below the shorter one there is one.
LEMMA Siblings ==
    ASSUME NEW d \in Seq(Nat), NEW e \in NodeType, NEW f \in NodeType, Path(e.key), Path(f.key),
           Holds(d, e.key), Holds(d, f.key), Before(e, f), NEW k \in Under(e), NEW l \in Under(f)
    PROVE  Comes(k, l)
<1> DEFINE x == e.key
           y == f.key
<1>1. x \in Seq(Nat) /\ y \in Seq(Nat) /\ e.dir \in BOOLEAN /\ f.dir \in BOOLEAN
  BY DEF NodeType
<1>2. PICK i \in Nat : Parts(x, y, i)
  BY <1>1, LessParts, Integral DEF Before
<1>3. /\ k \in Seq(Nat) /\ Len(x) <= Len(k) /\ \A j \in 1..Len(x) : k[j] = x[j]
      /\ ~e.dir => k = x
      /\ e.dir => Len(x) < Len(k) /\ k[Len(x) + 1] = Slash
  BY UnderIs
<1>4. l \in Seq(Nat) /\ Len(y) <= Len(l) /\ \A j \in 1..Len(y) : l[j] = y[j]
  BY UnderIs
<1>5. /\ d # <<>> => /\ Len(d) < Len(x) /\ x[Len(d) + 1] = Slash
                     /\ \A j \in 1..Len(d) : x[j] = d[j]
      /\ \A n \in 1..Len(x) : x[n] = Slash => d # <<>> /\ n <= Len(d) + 1
  BY HeldIs
<1>6. /\ d # <<>> => /\ Len(d) < Len(y) /\ y[Len(d) + 1] = Slash
                     /\ \A j \in 1..Len(d) : y[j] = d[j]
      /\ \A n \in 1..Len(y) : y[n] = Slash => d # <<>> /\ n <= Len(d) + 1
  BY HeldIs
<1>7. Slash \in Nat
  BY ParametersAssumption
<1> HIDE DEF x, y
<1>8. /\ i \in 1..Len(y) /\ i <= Len(x) + 1
      /\ \A j \in 1..(i - 1) : x[j] = y[j]
      /\ i <= Len(x) => x[i] < y[i]
  BY <1>2 DEF Parts
<1>9. Len(d) \in Nat /\ Len(x) \in Nat /\ Len(y) \in Nat /\ Len(k) \in Nat /\ Len(l) \in Nat
      /\ (\A j \in 1..Len(x) : x[j] \in Nat) /\ (\A j \in 1..Len(y) : y[j] \in Nat)
  BY <1>1, <1>3, <1>4
<1>10. /\ y[i] # Slash
       /\ i <= Len(x) => x[i] # Slash
  <2>1. CASE d = <<>>
    BY <1>5, <1>6, <1>8, <1>9, <2>1
  <2>2. CASE d # <<>>
    <3>1. i > Len(d) + 1
      <4>1. CASE i <= Len(d)
        BY <1>5, <1>6, <1>8, <1>9, <2>2, <4>1
      <4>2. CASE i = Len(d) + 1
        BY <1>5, <1>6, <1>8, <1>9, <2>2, <4>2
      <4> QED
        BY <1>9, <4>1, <4>2
    <3> QED
      BY <1>5, <1>6, <1>8, <1>9, <2>2, <3>1
  <2> QED
    BY <2>1, <2>2
<1>11. /\ Len(Walked(k)) = Len(k) /\ Len(Walked(l)) = Len(l)
       /\ \A j \in 1..Len(k) : Walked(k)[j] = IF k[j] = Slash THEN -1 ELSE k[j]
       /\ \A j \in 1..Len(l) : Walked(l)[j] = IF l[j] = Slash THEN -1 ELSE l[j]
  BY <1>3, <1>4, ComesIs
<1>12. i \in 1..Len(l) /\ i <= Len(k) + 1
  BY <1>3, <1>4, <1>8, <1>9
<1>13. \A j \in 1..(i - 1) : Walked(k)[j] = Walked(l)[j]
  <2> SUFFICES ASSUME NEW j \in 1..(i - 1) PROVE Walked(k)[j] = Walked(l)[j]
    OBVIOUS
  <2>1. j \in 1..Len(k) /\ j \in 1..Len(l) /\ j \in 1..Len(x) /\ j \in 1..Len(y)
    <3>1. j \in Nat /\ 1 <= j /\ j < i /\ i <= Len(y) /\ i <= Len(x) + 1
      BY <1>8, <1>9
    <3> QED
      BY <1>3, <1>4, <1>9, <3>1
  <2>2. k[j] = l[j]
    BY <1>3, <1>4, <1>8, <2>1
  <2> QED
    BY <1>11, <2>1, <2>2
<1>14. Walked(l)[i] = y[i]
  BY <1>4, <1>8, <1>10, <1>11, <1>12
<1>15. i <= Len(k) => Walked(k)[i] < y[i]
  <2>1. CASE i <= Len(x)
    BY <1>3, <1>8, <1>9, <1>10, <1>11, <2>1
  <2>2. CASE i = Len(x) + 1 /\ e.dir
    BY <1>3, <1>8, <1>9, <1>11, <2>2
  <2>3. CASE i = Len(x) + 1 /\ ~e.dir
    BY <1>3, <1>9, <2>3
  <2> QED
    BY <1>1, <1>8, <1>9, <2>1, <2>2, <2>3
<1>16. Parts(Walked(k), Walked(l), i)
  BY <1>11, <1>12, <1>13, <1>14, <1>15 DEF Parts
<1> QED
  BY <1>3, <1>4, <1>16, ComesIs

\* The names that the walk meets.
LEMMA PathIs ==
    ASSUME NEW x \in Keys \cup Directories, x # <<>>
    PROVE  Path(x)
<1>1. CASE x \in Keys
  BY <1>1, KeysAssumption DEF Path
<1>2. CASE x \notin Keys
  <2>1. PICK k \in Keys : x \in Parents(k)
    BY <1>2 DEF Directories
  <2>2. k \in Seq(Nat) /\ k[1] # Slash
    BY KeysAssumption
  <2>3. PICK i \in 1..Len(k) : /\ x \in Seq(Nat) /\ Len(x) = i - 1
                               /\ \A j \in 1..(i - 1) : x[j] = k[j]
    BY <2>1, <2>2, ParentsIs
  <2>4. Len(x) # 0
    BY <2>3, EmptySeq
  <2> QED
    BY <2>2, <2>3, <2>4 DEF Path
<1> QED
  BY <1>1, <1>2

\* The node at the top of the stack, and the others.
LEMMA StackIs ==
    ASSUME NEW s \in Seq(NodeType), s # <<>>
    PROVE  /\ Len(s) \in Nat \ {0} /\ DOMAIN s = 1..Len(s)
           /\ Head(s) = s[1] /\ s[1] \in NodeType
           /\ Tail(s) \in Seq(NodeType) /\ DOMAIN Tail(s) = 1..(Len(s) - 1)
           /\ \A i \in 1..(Len(s) - 1) : Tail(s)[i] = s[i + 1]
<1>1. Len(s) \in Nat \ {0}
  BY EmptySeq
<1>2. Tail(s) \in Seq(NodeType) /\ Len(Tail(s)) = Len(s) - 1
  BY <1>1
<1> QED
  BY <1>1, <1>2, LenProperties

\* Walks, for the parts of the call.
LEMMA WalkIs ==
    ASSUME NEW c, NEW S, Walks(c, S)
    PROVE  /\ c.pc \in {"walk", "done"} /\ c.query \in Query /\ c.startAt \in Seq(Nat)
           /\ c.stack \in Seq(NodeType) /\ c.found \subseteq Keys /\ c.walked \in Nat
           /\ c.walked <= c.query.maxKeys + 1
BY DEF Walks, CallType

\* A directory read: its files and directories take its place, in their order.
LEMMA DescendKeeps ==
    ASSUME Typed, InTurn(call), Counted(call), Covered(call, stable), Descend
    PROVE  /\ Walks(call', seen) /\ InTurn(call') /\ Counted(call') /\ Covered(call', stable)
           /\ call'.pc = call.pc /\ call'.query = call.query /\ call'.startAt = call.startAt
<1> DEFINE c == call
           s == call.stack
           d == s[1].key
           N == ReadDir(d)
           R == Tail(s)
           n == Len(N)
           r == Len(s) - 1
           t == N \o R
<1>1. /\ Tree(objects, dirs) /\ stable \subseteq objects /\ objects \subseteq seen /\ seen \subseteq Keys
      /\ c \in CallType /\ Walks(c, seen)
  BY DEF Typed, Walks
<1>2. s \in Seq(NodeType) /\ s # <<>>
  BY <1>1, WalkIs DEF Descend, Walking
<1>3. /\ r \in Nat /\ DOMAIN s = 1..(r + 1) /\ s[1] \in NodeType
      /\ R \in Seq(NodeType) /\ Len(R) = r /\ \A i \in 1..r : R[i] = s[i + 1]
  BY <1>2, StackIs
<1>4. s[1].dir /\ d \in dirs /\ call' = [call EXCEPT !.stack = t]
  BY <1>2, StackIs DEF Descend, Top, Rest
<1>5. /\ N \in Seq(NodeType) /\ Ascending(N)
      /\ \A i \in DOMAIN N : Holds(d, N[i].key) /\ N[i].key \in IF N[i].dir THEN dirs ELSE objects
      /\ \A k \in objects : Holds(d, k) => \E i \in DOMAIN N : N[i] = Node(k, FALSE)
      /\ \A x \in dirs : Holds(d, x) => \E i \in DOMAIN N : N[i] = Node(x, TRUE)
  BY <1>1, ReadDirIs
<1>6. n \in Nat /\ DOMAIN N = 1..n
  BY <1>5, LenProperties
<1>7. d \in Seq(Nat)
  BY <1>3 DEF NodeType
<1>8. ASSUME NEW i \in 1..n
      PROVE  /\ N[i] \in NodeType /\ Path(N[i].key) /\ Holds(d, N[i].key)
             /\ ~N[i].dir => N[i].key \in seen
             /\ \A k \in Under(N[i]) : k \in Under(s[1])
  <2>1. N[i] \in NodeType /\ Holds(d, N[i].key) /\ N[i].key \in IF N[i].dir THEN dirs ELSE objects
    BY <1>5, <1>6
  <2>2. Path(N[i].key)
    <3>1. N[i].key # <<>> /\ N[i].key \in Keys \cup Directories
      BY <1>1, <2>1 DEF Holds, Tree
    <3> QED
      BY <3>1, PathIs
  <2>3. \A k \in Under(N[i]) : k \in Under(s[1])
    BY <1>3, <1>4, <2>1, <2>2, UnderDown
  <2> QED
    BY <1>1, <2>1, <2>2, <2>3
<1> HIDE DEF N, R, n, r
<1>9. /\ t \in Seq(NodeType) /\ DOMAIN t = 1..(n + r)
      /\ \A i \in 1..n : t[i] = N[i]
      /\ \A i \in (n + 1)..(n + r) : t[i] = s[i - n + 1]
  <2>1. Len(N) = n /\ Len(R) = r
    BY <1>3 DEF n
  <2>2. /\ t \in Seq(NodeType) /\ Len(t) = n + r
        /\ \A i \in 1..(n + r) : t[i] = IF i <= n THEN N[i] ELSE R[i - n]
    <3>1. /\ N \o R \in Seq(NodeType) /\ Len(N \o R) = Len(N) + Len(R)
          /\ \A i \in 1..(Len(N) + Len(R)) :
               (N \o R)[i] = IF i <= Len(N) THEN N[i] ELSE R[i - Len(N)]
      BY <1>3, <1>5, ConcatProperties
    <3> QED
      BY <2>1, <3>1
  <2>3. DOMAIN t = 1..(n + r)
    BY <2>2, LenProperties
  <2>4. ASSUME NEW i \in (n + 1)..(n + r) PROVE t[i] = s[i - n + 1]
    <3>0. n \in Nat /\ r \in Nat
      BY <1>3, <1>6
    <3>1. i \in 1..(n + r) /\ ~(i <= n) /\ i - n \in 1..r
      BY <3>0
    <3>2. t[i] = R[i - n]
      BY <2>2, <3>1
    <3>3. R[i - n] = s[(i - n) + 1]
      BY <1>3, <3>1
    <3> QED
      BY <3>2, <3>3
  <2>5. ASSUME NEW i \in 1..n PROVE t[i] = N[i]
    <3>1. i \in 1..(n + r) /\ i <= n
      BY <1>3, <1>6
    <3> QED
      BY <2>2, <3>1
  <2> HIDE DEF t
  <2> QED
    BY <2>2, <2>3, <2>4, <2>5
<1> HIDE DEF t
<1>10. /\ call'.pc = c.pc /\ call'.query = c.query /\ call'.startAt = c.startAt /\ call'.stack = t
       /\ call'.found = c.found /\ call'.walked = c.walked /\ call' \in CallType
  BY <1>1, <1>4, <1>9 DEF CallType
<1>11. ASSUME NEW i \in 1..(n + r)
       PROVE  \/ i \in 1..n /\ t[i] = N[i]
              \/ i > n /\ i - n + 1 \in 2..(r + 1) /\ t[i] = s[i - n + 1]
  <2>1. CASE i <= n
    BY <1>6, <1>9, <2>1
  <2>2. CASE i > n
    <3>1. i \in (n + 1)..(n + r) /\ i - n + 1 \in 2..(r + 1)
      BY <1>3, <1>6, <2>2
    <3> QED
      BY <1>9, <2>2, <3>1
  <2> QED
    BY <1>3, <1>6, <2>1, <2>2
<1>12. Walks(call', seen)
  <2>1. \A i \in DOMAIN t : ~t[i].dir => t[i].key \in seen
    BY <1>1, <1>3, <1>8, <1>9, <1>11 DEF Walks
  <2>2. call'.pc = "done" => FALSE
    BY <1>1, <1>2, <1>10 DEF Walks
  <2> QED
    BY <1>1, <1>10, <2>1, <2>2 DEF Walks
<1>13. InTurn(call')
  <2>1. ASSUME NEW i \in DOMAIN t, NEW j \in DOMAIN t, i < j,
               NEW k \in Under(t[i]), NEW l \in Under(t[j])
        PROVE  Comes(k, l)
    <3>1. CASE i \in 1..n /\ j \in 1..n
      <4>1. Before(N[i], N[j])
        BY <1>5, <1>6, <2>1, <3>1 DEF Ascending
      <4> QED
        BY <1>7, <1>8, <1>9, <2>1, <3>1, <4>1, Siblings
    <3>2. CASE i \in 1..n /\ j \notin 1..n
      <4>1. j - n + 1 \in 2..(r + 1) /\ l \in Under(s[j - n + 1])
        BY <1>9, <1>11, <2>1, <3>2
      <4>2. k \in Under(s[1])
        BY <1>8, <1>9, <3>2
      <4> QED
        <5>1. 1 \in DOMAIN s /\ j - n + 1 \in DOMAIN s /\ 1 < j - n + 1
          BY <1>3, <4>1
        <5> QED
          BY <4>1, <4>2, <5>1 DEF InTurn
    <3>3. CASE i \notin 1..n
      <4>0. i \in Nat /\ j \in Nat /\ i \in 1..(n + r) /\ j \in 1..(n + r) /\ j \notin 1..n
        BY <1>3, <1>6, <1>9, <2>1, <3>3
      <4>1. i - n + 1 \in 2..(r + 1) /\ k \in Under(s[i - n + 1])
        BY <1>11, <3>3, <4>0
      <4>2. j - n + 1 \in 2..(r + 1) /\ l \in Under(s[j - n + 1])
        BY <1>11, <4>0
      <4>3. i - n + 1 < j - n + 1
        BY <1>6, <2>1, <4>0
      <4>4. i - n + 1 \in DOMAIN s /\ j - n + 1 \in DOMAIN s
        BY <1>3, <4>1, <4>2
      <4> QED
        BY <4>1, <4>2, <4>3, <4>4 DEF InTurn
    <3> QED
      BY <3>1, <3>2, <3>3
  <2>2. ASSUME NEW j \in c.found, NEW i \in DOMAIN t, NEW k \in Under(t[i])
        PROVE  Comes(j, k)
    <3>1. PICK m \in DOMAIN s : k \in Under(s[m])
      <4>1. CASE i \in 1..n
        BY <1>3, <1>8, <1>9, <4>1
      <4>2. CASE i \notin 1..n
        <5>1. i - n + 1 \in 2..(r + 1) /\ t[i] = s[i - n + 1]
          BY <1>9, <1>11, <4>2
        <5> QED
          BY <1>3, <5>1
      <4> QED
        BY <4>1, <4>2
    <3> QED
      BY <3>1 DEF InTurn
  <2> QED
    BY <1>10, <2>1, <2>2 DEF InTurn
<1>14. Counted(call')
  BY <1>10 DEF Counted
<1>15. Covered(call', stable)
  <2> SUFFICES ASSUME NEW k \in stable, IsPrefix(c.query.prefix, k), k \notin c.found, c.pc = "walk"
               PROVE  \E i \in DOMAIN t : k \in Under(t[i])
    BY <1>10 DEF Covered
  <2>1. k \in Keys /\ k \in objects /\ Parents(k) \subseteq dirs
    BY <1>1 DEF Tree
  <2>2. PICK m \in DOMAIN s : k \in Under(s[m])
    BY <1>2 DEF Covered, GivenUp
  <2>3. CASE m = 1
    <3>1. d \in Parents(k) \cup {<<>>}
      BY <1>4, <2>2, <2>3 DEF Under
    <3>2. PICK e \in NodeType : k \in Under(e) /\ \E i \in DOMAIN N : N[i] = e
      <4>1. CASE Holds(d, k)
        <5>1. k \in Under(Node(k, FALSE)) /\ Node(k, FALSE) \in NodeType
          BY <2>1, KeysAssumption DEF Under, Node, NodeType
        <5> QED
          BY <1>5, <2>1, <4>1, <5>1
      <4>2. CASE ~Holds(d, k)
        <5>1. PICK x \in Parents(k) : Holds(d, x)
          BY <2>1, <3>1, <4>2, NextOnTheWay
        <5>2. x \in dirs /\ x \in Seq(Nat)
          BY <1>1, <2>1, DirectoriesFinite DEF Tree
        <5>3. k \in Under(Node(x, TRUE)) /\ Node(x, TRUE) \in NodeType
          BY <2>1, <5>2 DEF Under, Node, NodeType
        <5> QED
          BY <1>5, <5>1, <5>2, <5>3
      <4> QED
        BY <4>1, <4>2
    <3>3. PICK i \in DOMAIN N : N[i] = e
      BY <3>2
    <3> QED
      <4>1. i \in 1..n /\ i \in 1..(n + r)
        BY <1>3, <1>6, <3>3
      <4> QED
        BY <1>9, <3>2, <3>3, <4>1
  <2>4. CASE m # 1
    <3>1. m + n - 1 \in (n + 1)..(n + r) /\ t[m + n - 1] = s[m]
      BY <1>3, <1>6, <1>9, <2>2, <2>4
    <3> QED
      BY <1>3, <1>6, <1>9, <2>2, <3>1
  <2> QED
    BY <2>3, <2>4
<1> QED
  BY <1>10, <1>12, <1>13, <1>14, <1>15

\* A file met: it is passed over, or enough, or found.
LEMMA CollectKeeps ==
    ASSUME Typed, InTurn(call), Counted(call), Covered(call, stable), Collect
    PROVE  /\ Walks(call', seen) /\ InTurn(call') /\ Counted(call') /\ Covered(call', stable)
           /\ call'.pc = call.pc /\ call'.query = call.query /\ call'.startAt = call.startAt
<1> DEFINE c == call
           q == call.query
           s == call.stack
           key == s[1].key
           R == Tail(s)
           r == Len(s) - 1
<1>1. /\ stable \subseteq objects /\ objects \subseteq seen /\ seen \subseteq Keys
      /\ c \in CallType /\ Walks(c, seen) /\ c.pc = "walk"
  BY DEF Typed, Walks, Collect, Walking
<1>2. s \in Seq(NodeType) /\ s # <<>>
  BY <1>1, WalkIs DEF Collect, Walking
<1>3. /\ r \in Nat /\ DOMAIN s = 1..(r + 1) /\ s[1] \in NodeType
      /\ R \in Seq(NodeType) /\ DOMAIN R = 1..r /\ \A i \in 1..r : R[i] = s[i + 1]
  BY <1>2, StackIs
<1>4. /\ ~s[1].dir
      /\ call' = IF ~IsPrefix(q.prefix, key) THEN [call EXCEPT !.stack = R]
                 ELSE IF Enough(key) THEN [call EXCEPT !.stack = <<>>]
                 ELSE [call EXCEPT !.stack = R, !.found = @ \cup {key},
                                   !.walked = @ + (IF Counts(key) THEN 1 ELSE 0)]
  BY <1>2, StackIs DEF Collect, Top, Rest
<1>5. key \in seen /\ key \in Keys /\ key \in Seq(Nat) /\ \A k \in Under(s[1]) : k = key
  <2>1. key \in seen
    BY <1>1, <1>3, <1>4 DEF Walks
  <2> QED
    BY <1>1, <1>4, <2>1, KeysAssumption DEF Under
<1>6. key \in Under(s[1])
  BY <1>4, <1>5 DEF Under
<1>7. \A j \in c.found : Comes(j, key)
  BY <1>3, <1>6 DEF InTurn
<1>8. key \notin c.found
  BY <1>5, <1>7, ComesIs
<1>9. \A i \in 1..r : \A k \in Under(R[i]) : Comes(key, k)
  <2> SUFFICES ASSUME NEW i \in 1..r, NEW k \in Under(R[i]) PROVE Comes(key, k)
    OBVIOUS
  <2>1. i + 1 \in DOMAIN s /\ 1 \in DOMAIN s /\ 1 < i + 1 /\ k \in Under(s[i + 1])
    BY <1>3
  <2> QED
    BY <1>6, <2>1 DEF InTurn
<1>10. \A k \in stable : IsPrefix(q.prefix, k) =>
         k \in c.found \/ k = key \/ \E i \in 1..r : k \in Under(R[i])
  <2> SUFFICES ASSUME NEW k \in stable, IsPrefix(q.prefix, k), k \notin c.found, k # key
               PROVE  \E i \in 1..r : k \in Under(R[i])
    OBVIOUS
  <2>1. PICK m \in DOMAIN s : k \in Under(s[m])
    BY <1>1, <1>2 DEF Covered, GivenUp
  <2>2. m # 1
    BY <1>5, <2>1
  <2>3. m - 1 \in 1..r /\ R[m - 1] = s[m]
    BY <1>3, <2>1, <2>2
  <2> QED
    BY <2>1, <2>3
<1>11. /\ \A i, j \in 1..r : i < j =>
            \A k \in Under(R[i]), l \in Under(R[j]) : Comes(k, l)
       /\ \A j \in c.found, i \in 1..r : \A k \in Under(R[i]) : Comes(j, k)
       /\ \A i \in 1..r : ~R[i].dir => R[i].key \in seen
  <2>1. \A i \in 1..r : i + 1 \in DOMAIN s /\ R[i] = s[i + 1]
    BY <1>3
  <2>2. \A i, j \in 1..r : i < j => i + 1 < j + 1
    BY <1>3
  <2> HIDE DEF R, r
  <2> QED
    BY <1>1, <2>1, <2>2 DEF InTurn, Walks
<1>12. q \in Query /\ q.maxKeys \in Nat \ {0} /\ c.walked \in Nat /\ c.walked <= q.maxKeys + 1
       /\ c.found \subseteq Keys /\ c.found \subseteq seen /\ \A k \in c.found : IsPrefix(q.prefix, k)
  BY <1>1, WalkIs, QueryIs DEF Walks
<1> HIDE DEF R, r, key
<1>13. CASE ~IsPrefix(q.prefix, key)
  <2>1. /\ call'.pc = c.pc /\ call'.query = q /\ call'.startAt = c.startAt /\ call'.stack = R
        /\ call'.found = c.found /\ call'.walked = c.walked /\ call' \in CallType
    BY <1>1, <1>3, <1>4, <1>13 DEF CallType
  <2>2. Walks(call', seen)
    BY <1>1, <1>3, <1>11, <1>12, <2>1 DEF Walks
  <2>3. InTurn(call')
    BY <1>3, <1>11, <2>1 DEF InTurn
  <2>4. Counted(call')
    BY <2>1 DEF Counted
  <2>5. Covered(call', stable)
    BY <1>3, <1>10, <1>13, <2>1 DEF Covered
  <2> QED
    BY <2>1, <2>2, <2>3, <2>4, <2>5
<1>14. CASE IsPrefix(q.prefix, key) /\ Enough(key)
  <2>0. <<>> \in Seq(NodeType) /\ DOMAIN <<>> = {}
    OBVIOUS
  <2>1. /\ call'.pc = c.pc /\ call'.query = q /\ call'.startAt = c.startAt /\ call'.stack = <<>>
        /\ call'.found = c.found /\ call'.walked = c.walked /\ call' \in CallType
    BY <1>1, <1>3, <1>4, <1>14, <2>0 DEF CallType
  <2>2. Walks(call', seen)
    BY <1>1, <1>12, <2>0, <2>1 DEF Walks
  <2>3. InTurn(call')
    BY <2>0, <2>1 DEF InTurn
  <2>4. Counted(call')
    BY <2>1 DEF Counted
  <2>5. q.delimiter = <<>> /\ c.walked = q.maxKeys + 1
    BY <1>12, <1>14 DEF Enough, Counts
  <2>6. Covered(call', stable)
    <3> SUFFICES ASSUME NEW k \in stable, IsPrefix(q.prefix, k), k \notin c.found
                 PROVE  \A j \in c.found : Comes(j, k)
      BY <2>1, <2>5 DEF Covered, GivenUp
    <3> QED
      BY <1>7, <1>10, <1>11
  <2> QED
    BY <2>1, <2>2, <2>3, <2>4, <2>6
<1>15. CASE IsPrefix(q.prefix, key) /\ ~Enough(key)
  <2> DEFINE w == c.walked + (IF Counts(key) THEN 1 ELSE 0)
             F == c.found \cup {key}
  <2>0. w \in Nat /\ w <= q.maxKeys + 1
    BY <1>12, <1>15 DEF Enough
  <2> HIDE DEF w
  <2>1. /\ call'.pc = c.pc /\ call'.query = q /\ call'.startAt = c.startAt /\ call'.stack = R
        /\ call'.found = F /\ call'.walked = w /\ call' \in CallType
    <3>1. call' = [call EXCEPT !.stack = R, !.found = @ \cup {key},
                               !.walked = @ + (IF Counts(key) THEN 1 ELSE 0)]
      BY <1>4, <1>15
    <3>2. call' = [call EXCEPT !.stack = R, !.found = F, !.walked = w]
      BY <3>1 DEF w
    <3>3. F \subseteq Keys
      BY <1>5, <1>12
    <3> HIDE DEF F
    <3> QED
      BY <1>1, <1>3, <2>0, <3>2, <3>3 DEF CallType
  <2>2. Walks(call', seen)
    BY <1>1, <1>3, <1>5, <1>11, <1>12, <1>15, <2>0, <2>1 DEF Walks
  <2>3. InTurn(call')
    BY <1>3, <1>9, <1>11, <2>1 DEF InTurn
  <2>4. Counted(call')
    <3> SUFFICES ASSUME q.delimiter = <<>> PROVE w = Cardinality(Beyond(F, c.startAt))
      BY <2>1 DEF Counted
    <3>1. c.walked = Cardinality(Beyond(c.found, c.startAt))
      BY DEF Counted
    <3>2. IsFiniteSet(Beyond(c.found, c.startAt))
      BY <1>12, KeysAssumption, FS_Subset DEF Beyond
    <3>3. CASE Less(c.startAt, key)
      <4>1. Beyond(F, c.startAt) = Beyond(c.found, c.startAt) \cup {key}
        BY <3>3 DEF Beyond
      <4>2. key \notin Beyond(c.found, c.startAt)
        BY <1>8 DEF Beyond
      <4>3. w = c.walked + 1
        BY <3>3 DEF w, Counts
      <4> QED
        BY <3>1, <3>2, <4>1, <4>2, <4>3, FS_AddElement
    <3>4. CASE ~Less(c.startAt, key)
      <4>1. Beyond(F, c.startAt) = Beyond(c.found, c.startAt)
        BY <3>4 DEF Beyond
      <4>2. w = c.walked
        BY <1>12, <3>4 DEF w, Counts
      <4> QED
        BY <3>1, <4>1, <4>2
    <3> QED
      BY <3>3, <3>4
  <2>5. Covered(call', stable)
    BY <1>3, <1>10, <2>1 DEF Covered
  <2> QED
    BY <2>1, <2>2, <2>3, <2>4, <2>5
<1> QED
  BY <1>13, <1>14, <1>15

-----------------------------------------------------------------------------
(* The page *)

\* The entries of what was found, and what Answer takes of them.
Entries(c) == {RollUp(k, c.query.prefix, c.query.delimiter) : k \in c.found}
PageOf(c) == Limit(After(Entries(c), c.startAt), c.query.maxKeys)

\* The entries are what is shown for the keys found, and differ in their keys.
LEMMA EntriesAre ==
    ASSUME NEW c, NEW S, Walks(c, S)
    PROVE  /\ Keyed(Entries(c))
           /\ \A e \in Entries(c) : \E k \in c.found :
                e = ShownAs(k, c.query.prefix, c.query.delimiter)
           /\ \A k \in c.found : ShownAs(k, c.query.prefix, c.query.delimiter) \in Entries(c)
<1> DEFINE p == c.query.prefix
           d == c.query.delimiter
           f == [k \in c.found |-> RollUp(k, p, d)]
<1>1. p \in Seq(Nat) /\ d \in Seq(Nat) /\ c.found \subseteq Keys
  BY WalkIs, QueryIs
<1>2. \A k \in c.found : k \in Seq(Nat) /\ IsPrefix(p, k)
  BY <1>1, KeysAssumption DEF Walks
<1>3. \A k \in c.found : RollUp(k, p, d) = ShownAs(k, p, d)
  BY <1>1, <1>2, RollUpIs
<1>4. IsFiniteSet(Entries(c))
  <2>1. IsFiniteSet(DOMAIN f)
    BY <1>1, KeysAssumption, FS_Subset
  <2>2. Entries(c) = {f[k] : k \in DOMAIN f}
    BY DEF Entries
  <2> HIDE DEF f
  <2> QED
    BY <2>1, <2>2, ImageFinite
<1>5. /\ \A e \in Entries(c) : \E k \in c.found : e = ShownAs(k, p, d)
      /\ \A k \in c.found : ShownAs(k, p, d) \in Entries(c)
  BY <1>3 DEF Entries
<1>6. /\ \A k \in c.found : ShownAs(k, p, d).key \in Seq(Nat)
      /\ \A j, k \in c.found : ShownAs(j, p, d).key = ShownAs(k, p, d).key =>
           ShownAs(j, p, d) = ShownAs(k, p, d)
  BY <1>1, <1>2, ShownKeyed
<1> HIDE DEF p, d
<1>7. Keyed(Entries(c))
  BY <1>4, <1>5, <1>6 DEF Keyed
<1> QED
  BY <1>5, <1>7 DEF p, d

\* A page holds entries beyond the marker, in their order; what it leaves out
\* comes after its last entry, and it is full then.
Pages(E, startAt, max, page) ==
    LET A == After(E, startAt)
    IN /\ Cardinality(A) \in Nat /\ IsFiniteSet(A)
       /\ Len(page) \in Nat /\ Len(page) <= max /\ (max <= Cardinality(A) => Len(page) = max)
       /\ DOMAIN page = 1..Len(page) /\ Ascending(page)
       /\ \A i \in DOMAIN page :
            page[i] \in E /\ page[i].key \in Seq(Nat) /\ Less(startAt, page[i].key)
       /\ \A e \in E : Less(startAt, e.key) =>
            \/ \E i \in DOMAIN page : page[i] = e
            \/ Len(page) = max /\ Before(page[max], e)

\* As Limit cuts it.
LEMMA PageIs ==
    ASSUME NEW E, Keyed(E), NEW startAt \in Seq(Nat), NEW max \in Nat \ {0}
    PROVE  Pages(E, startAt, max, Limit(After(E, startAt), max))
<1> DEFINE A == After(E, startAt)
           page == Limit(A, max)
           n == Cardinality(A)
           s == Sorted(A)
           m == IF max < n THEN max ELSE n
<1>1. /\ A \subseteq E
      /\ \A e \in A : e \in E /\ e.key \in Seq(Nat) /\ Less(startAt, e.key)
      /\ \A e \in E : Less(startAt, e.key) => e \in A
  BY DEF After, Keyed
<1>2. Keyed(A)
  BY <1>1, FS_Subset DEF Keyed
<1>3. /\ s \in Seq(A) /\ Len(s) = n /\ n \in Nat /\ DOMAIN s = 1..n /\ Ascending(s)
      /\ \A e \in A : \E i \in DOMAIN s : s[i] = e
  BY <1>2, SortedIs
<1>4. page = SubSeq(s, 1, m)
  BY <1>3 DEF Limit
<1>5. IsFiniteSet(A)
  BY <1>2 DEF Keyed
<1> HIDE DEF A, n, s, page
<1>6. m \in Nat /\ m <= n /\ m <= max /\ (m # max => m = n)
  BY <1>3
<1> HIDE DEF m
<1>7. page \in Seq(A) /\ Len(page) = m /\ \A i \in 1..m : page[i] = s[i]
  BY <1>3, <1>4, <1>6
<1>8. DOMAIN page = 1..m
  BY <1>7, LenProperties
<1>9. \A i \in 1..m : page[i] \in A /\ i \in DOMAIN s /\ page[i] = s[i]
  BY <1>3, <1>6, <1>7
<1>10. Ascending(page)
  BY <1>3, <1>8, <1>9 DEF Ascending
<1>11. ASSUME NEW e \in E, Less(startAt, e.key), \A i \in DOMAIN page : page[i] # e
       PROVE  m = max /\ Before(page[max], e)
  <2>1. PICK i \in 1..n : s[i] = e
    BY <1>1, <1>3, <1>11
  <2>2. i > m
    BY <1>6, <1>8, <1>9, <1>11, <2>1
  <2>3. m = max /\ max \in 1..m /\ max < i
    BY <1>3, <1>6, <2>1, <2>2
  <2> QED
    BY <1>3, <1>9, <2>1, <2>3 DEF Ascending
<1>12. \A i \in DOMAIN page : page[i] \in E /\ page[i].key \in Seq(Nat) /\ Less(startAt, page[i].key)
  BY <1>1, <1>8, <1>9
<1> QED
  <2>1. /\ n \in Nat /\ IsFiniteSet(A) /\ Len(page) = m /\ m \in Nat /\ m <= max /\ (max <= n => m = max)
        /\ DOMAIN page = 1..m /\ Ascending(page)
    BY <1>3, <1>5, <1>6, <1>7, <1>8, <1>10
  <2> QED
    BY <2>1, <1>11, <1>12 DEF A, n, page, Pages

\* The counted walk gave up with more entries than the page takes, and all of
\* them come before key k: so does the last entry of the page.
LEMMA GivenUpIs ==
    ASSUME NEW c, NEW S, Walks(c, S), S \subseteq Keys, Counted(c), NEW k \in S, GivenUp(c, k),
           IsPrefix(c.query.prefix, k), Agree(S, c.query.prefix)
    PROVE  /\ Len(PageOf(c)) = c.query.maxKeys
           /\ Less(PageOf(c)[c.query.maxKeys].key, k)
<1> DEFINE q == c.query
           E == Entries(c)
           A == After(E, c.startAt)
           B == Beyond(c.found, c.startAt)
           f == [j \in B |-> Entry(j, FALSE)]
           page == PageOf(c)
<1>1. /\ q.delimiter = <<>> /\ c.walked = q.maxKeys + 1 /\ c.walked = Cardinality(B)
      /\ q.maxKeys \in Nat \ {0} /\ c.startAt \in Seq(Nat)
      /\ \A j \in c.found : Comes(j, k) /\ j \in S /\ IsPrefix(q.prefix, j)
  BY WalkIs, QueryIs DEF GivenUp, Counted, Walks
<1>2. \A j : ShownAs(j, q.prefix, q.delimiter) = Entry(j, FALSE)
  BY <1>1 DEF ShownAs
<1>3. /\ Keyed(E)
      /\ \A e \in E : \E j \in c.found : e = Entry(j, FALSE)
      /\ \A j \in c.found : Entry(j, FALSE) \in E
  <2>1. /\ Keyed(E)
        /\ \A e \in E : \E j \in c.found : e = ShownAs(j, q.prefix, q.delimiter)
        /\ \A j \in c.found : ShownAs(j, q.prefix, q.delimiter) \in E
    BY EntriesAre
  <2> HIDE DEF E
  <2> QED
    BY <1>2, <2>1
<1>4. Pages(E, c.startAt, q.maxKeys, page)
  BY <1>1, <1>3, PageIs DEF PageOf
<1>5. f \in Injection(B, A)
  <2>1. \A j \in B : Entry(j, FALSE) \in A
    BY <1>3 DEF Beyond, After, Entry
  <2>2. \A i, j \in B : Entry(i, FALSE) = Entry(j, FALSE) => i = j
    BY DEF Entry
  <2> HIDE DEF A, B
  <2> QED
    BY <2>1, <2>2 DEF Injection, IsInjective
<1>6. Cardinality(A) \in Nat /\ IsFiniteSet(A)
  BY <1>4 DEF Pages
<1>7. Cardinality(B) <= Cardinality(A)
  <2> HIDE DEF A, B, f
  <2> QED
    BY <1>5, <1>6, FS_Injection
<1>8. Len(page) = q.maxKeys /\ q.maxKeys \in DOMAIN page /\ page[q.maxKeys] \in E
  <2>1. /\ q.maxKeys <= Cardinality(A) => Len(page) = q.maxKeys
        /\ DOMAIN page = 1..Len(page) /\ \A i \in DOMAIN page : page[i] \in E
    BY <1>4 DEF Pages
  <2>2. q.maxKeys <= Cardinality(A)
    <3> HIDE DEF A, B
    <3> QED
      BY <1>1, <1>6, <1>7
  <2> HIDE DEF A, B, page, E
  <2> QED
    BY <1>1, <2>1, <2>2
<1> HIDE DEF A, B, page, E
<1>9. PICK j \in c.found : page[q.maxKeys] = Entry(j, FALSE)
  BY <1>3, <1>8
<1>10. Less(j, k)
  BY <1>1 DEF Agree
<1>11. Entry(j, FALSE).key = j
  BY DEF Entry
<1> QED
  BY <1>8, <1>9, <1>10, <1>11 DEF page

\* A page answered: its entries go on from the marker, each stands for a key
\* that was found, and one that stays is left out only beyond the next marker.
LEMMA AnswerKeeps ==
    ASSUME IInv, Answer
    PROVE  /\ call'.query = call.query /\ displaced' = {}
           /\ Walks(call', seen) /\ Ordered(call', listed') /\ Founded(call'.query, seen, listed')
           /\ InTurn(call') /\ Counted(call') /\ Covered(call', stable)
           /\ Delivered(call', stable, seen, listed')
           /\ call'.pc = "done" \/ Less(call.startAt, call'.startAt)
<1> DEFINE c == call
           q == call.query
           E == Entries(call)
           page == PageOf(call)
           m == Len(page)
           start == call.startAt
           Earlier(i) == listed \cup {page[j] : j \in 1..(i - 1)}
           full == m >= q.maxKeys
           next == page[m].key
<1>1. /\ stable \subseteq seen /\ seen \subseteq Keys /\ c \in CallType /\ Walks(c, seen)
      /\ c.pc = "walk" /\ c.stack = <<>>
  BY DEF IInv, Typed, Walks, Answer
<1>2. /\ q \in Query /\ q.prefix \in Seq(Nat) /\ q.delimiter \in Seq(Nat) /\ q.first \in Seq(Nat)
      /\ q.maxKeys \in Nat \ {0} /\ start \in Seq(Nat)
  BY <1>1, WalkIs, QueryIs
<1>3. /\ Keyed(E)
      /\ \A e \in E : \E k \in c.found : e = ShownAs(k, q.prefix, q.delimiter)
      /\ \A k \in c.found : ShownAs(k, q.prefix, q.delimiter) \in E
  BY <1>1, EntriesAre
<1>4. /\ m \in Nat /\ m <= q.maxKeys /\ DOMAIN page = 1..m /\ Ascending(page)
      /\ \A i \in 1..m : page[i] \in E /\ page[i].key \in Seq(Nat) /\ Less(start, page[i].key)
      /\ \A e \in E : Less(start, e.key) =>
           \/ \E i \in 1..m : page[i] = e
           \/ m = q.maxKeys /\ Before(page[q.maxKeys], e)
  <2>1. Pages(E, start, q.maxKeys, page)
    BY <1>2, <1>3, PageIs DEF PageOf
  <2> HIDE DEF E, page
  <2> QED
    BY <1>2, <2>1 DEF Pages
<1>5. /\ listed' = listed \cup {page[i] : i \in 1..m}
      /\ displaced' = displaced \cup
           {page[i] : i \in {j \in 1..m : \E e \in Earlier(j) : ~Before(e, page[j])}}
      /\ call' = IF full THEN Walk(q, next)
                 ELSE [call EXCEPT !.pc = "done", !.found = {}, !.walked = 0]
  <2>1. page = Limit(After({RollUp(k, q.prefix, q.delimiter) : k \in call.found}, call.startAt),
                     q.maxKeys)
    BY DEF PageOf, Entries
  <2>2. /\ listed' = listed \cup ToSet(page)
        /\ displaced' = displaced \cup
             {page[i] : i \in {j \in DOMAIN page : \E e \in Earlier(j) : ~Before(e, page[j])}}
        /\ call' = IF IsTruncated(page, q.maxKeys) THEN Walk(q, next)
                   ELSE [call EXCEPT !.pc = "done", !.found = {}, !.walked = 0]
    <3> HIDE DEF page
    <3> QED
      BY <2>1 DEF Answer
  <2> QED
    BY <1>4, <2>2 DEF ToSet, IsTruncated
<1>6. /\ displaced = {} /\ Founded(q, seen, listed) /\ Delivered(c, stable, seen, listed)
      /\ Counted(c) /\ Covered(c, stable)
      /\ start = q.first \/ Less(q.first, start)
      /\ \A e \in listed : /\ e.key \in Seq(Nat) /\ Less(q.first, e.key)
                           /\ e.key = start \/ Less(e.key, start)
  BY <1>1 DEF IInv, Complete, Ordered
<1> HIDE DEF E, page, m
<1>7. \A i \in 1..m : /\ \A e \in listed : Less(e.key, page[i].key)
                      /\ Less(q.first, page[i].key)
  BY <1>2, <1>4, <1>6, LessTransitive
<1>8. \A i, j \in 1..m : i < j => Less(page[i].key, page[j].key)
  BY <1>4 DEF Ascending, Before
<1>9. displaced' = {}
  <2>1. ASSUME NEW j \in 1..m, NEW e \in Earlier(j) PROVE Before(e, page[j])
    <3>1. CASE e \in listed
      BY <1>7, <3>1 DEF Before
    <3>2. CASE e \notin listed
      <4>1. PICK i \in 1..(j - 1) : e = page[i]
        BY <3>2
      <4>2. i \in 1..m /\ i < j
        BY <1>4, <4>1
      <4> QED
        BY <1>8, <4>1, <4>2 DEF Before
    <3> QED
      BY <3>1, <3>2
  <2> HIDE DEF Earlier
  <2> QED
    BY <1>5, <1>6, <2>1
<1>10. full => m = q.maxKeys /\ m \in 1..m
  BY <1>2, <1>4
<1>11. ASSUME full
       PROVE  /\ next \in Seq(Nat) /\ call' = Walk(q, next) /\ Less(start, next)
              /\ call'.pc = "walk" /\ call'.query = q /\ call'.startAt = next
              /\ Walks(call', seen) /\ InTurn(call') /\ Counted(call') /\ Covered(call', stable)
  <2>1. next \in Seq(Nat) /\ Less(start, next) /\ call' = Walk(q, next)
    BY <1>4, <1>5, <1>10, <1>11
  <2>2. stable \in SUBSET Keys
    BY <1>1
  <2> HIDE DEF next
  <2> QED
    BY <1>2, <2>1, <2>2, Begun
<1>12. ASSUME ~full
       PROVE  /\ call'.pc = "done" /\ call'.query = q /\ call'.startAt = start
              /\ Walks(call', seen) /\ InTurn(call') /\ Counted(call') /\ Covered(call', stable)
  <2>0. <<>> \in Seq(NodeType) /\ DOMAIN <<>> = {}
    OBVIOUS
  <2>1. /\ call'.pc = "done" /\ call'.query = q /\ call'.startAt = start /\ call'.stack = <<>>
        /\ call'.found = {} /\ call'.walked = 0 /\ call' \in CallType
    BY <1>1, <1>5, <1>12 DEF CallType
  <2>2. Walks(call', seen)
    BY <1>2, <2>0, <2>1 DEF Walks
  <2>3. InTurn(call')
    BY <2>0, <2>1 DEF InTurn
  <2>4. Counted(call')
    <3>1. Beyond({}, start) = {}
      BY DEF Beyond
    <3> QED
      BY <2>1, <3>1, FS_EmptySet DEF Counted
  <2>5. Covered(call', stable)
    BY <2>1 DEF Covered
  <2> QED
    BY <2>1, <2>2, <2>3, <2>4, <2>5
<1>13. call'.query = q
  BY <1>11, <1>12
<1>14. \A e \in listed' : e \in listed \/ \E i \in 1..m : e = page[i]
  BY <1>5
<1>15. Ordered(call', listed')
  <2>1. \A e \in listed' : e.key \in Seq(Nat) /\ Less(q.first, e.key)
    BY <1>4, <1>6, <1>7, <1>14
  <2>2. ASSUME full, NEW e \in listed' PROVE e.key = next \/ Less(e.key, next)
    <3>1. CASE e \in listed
      BY <1>7, <1>10, <2>2, <3>1
    <3>2. CASE e \notin listed
      <4>1. PICK i \in 1..m : e = page[i]
        BY <1>14, <3>2
      <4>2. i = m \/ i < m
        BY <1>4
      <4> QED
        BY <1>8, <1>10, <2>2, <4>1, <4>2
    <3> QED
      BY <3>1, <3>2
  <2>3. full => Less(q.first, next)
    BY <1>7, <1>10
  <2> HIDE DEF full, next
  <2> QED
    BY <1>11, <1>12, <1>13, <2>1, <2>2, <2>3 DEF Ordered
<1>16. Founded(call'.query, seen, listed')
  <2> SUFFICES ASSUME NEW e \in listed'
               PROVE  \E k \in seen : IsPrefix(q.prefix, k) /\ e = ShownAs(k, q.prefix, q.delimiter)
    BY <1>13 DEF Founded
  <2>1. CASE e \in listed
    BY <1>6, <2>1 DEF Founded
  <2>2. CASE e \notin listed
    <3>1. PICK i \in 1..m : e = page[i]
      BY <1>14, <2>2
    <3>2. PICK k \in c.found : e = ShownAs(k, q.prefix, q.delimiter)
      BY <1>3, <1>4, <3>1
    <3> QED
      BY <1>1, <3>2 DEF Walks
  <2> QED
    BY <2>1, <2>2
<1>17. Delivered(call', stable, seen, listed')
  <2> SUFFICES ASSUME q.delimiter # <<>> \/ Agree(seen, q.prefix), NEW k \in stable,
                      IsPrefix(q.prefix, k),
                      Less(q.first, ShownAs(k, q.prefix, q.delimiter).key),
                      full => ~Less(next, ShownAs(k, q.prefix, q.delimiter).key)
               PROVE  ShownAs(k, q.prefix, q.delimiter) \in listed'
    BY <1>11, <1>12, <1>13 DEF Delivered
  <2> DEFINE e == ShownAs(k, q.prefix, q.delimiter)
  <2>1. CASE ~Less(start, e.key)
    <3>1. e \in listed
      BY <1>1, <1>6, <2>1 DEF Delivered
    <3> QED
      BY <1>5, <3>1
  <2>2. CASE Less(start, e.key) /\ k \in c.found
    <3>1. e \in E
      BY <1>3, <2>2
    <3>2. (\E i \in 1..m : page[i] = e) \/ (m = q.maxKeys /\ Before(page[q.maxKeys], e))
      BY <1>4, <2>2, <3>1
    <3>3. ~(m = q.maxKeys /\ Before(page[q.maxKeys], e))
      BY <1>2 DEF Before
    <3> QED
      BY <1>5, <3>2, <3>3
  <2>3. CASE k \notin c.found
    <3>1. GivenUp(c, k)
      <4>1. DOMAIN c.stack = {}
        BY <1>1
      <4> QED
        BY <1>1, <1>6, <2>3, <4>1 DEF Covered
    <3>2. q.delimiter = <<>> /\ e = Entry(k, FALSE)
      BY <3>1 DEF GivenUp, ShownAs
    <3>3. m = q.maxKeys /\ Less(page[q.maxKeys].key, k)
      BY <1>1, <1>6, <3>1, <3>2, GivenUpIs DEF m, page
    <3> QED
      BY <1>2, <3>2, <3>3 DEF Entry
  <2> QED
    BY <2>1, <2>2, <2>3
<1> QED
  BY <1>9, <1>11, <1>12, <1>13, <1>15, <1>16, <1>17

-----------------------------------------------------------------------------
(* Every step *)

\* What is said of the listed entries depends on the query, the marker and the
\* keys alone, and holds of more keys seen and of fewer that stay.
LEMMA SameEntries ==
    ASSUME NEW c, NEW d, d.pc = c.pc, d.query = c.query, d.startAt = c.startAt,
           NEW K, NEW M, M \subseteq K, NEW S, NEW T, S \subseteq T, NEW L,
           Ordered(c, L), Founded(c.query, S, L), Delivered(c, K, S, L)
    PROVE  Ordered(d, L) /\ Founded(d.query, T, L) /\ Delivered(d, M, T, L)
<1>1. Ordered(d, L)
  BY DEF Ordered
<1>2. Founded(d.query, T, L)
  BY DEF Founded
<1>3. Agree(T, c.query.prefix) => Agree(S, c.query.prefix)
  BY DEF Agree
<1>4. Delivered(d, M, T, L)
  BY <1>3 DEF Delivered
<1> QED
  BY <1>1, <1>2, <1>4

\* ... and so does what is said of the walk.
LEMMA SameWalk ==
    ASSUME NEW c, NEW K, NEW M, M \subseteq K, NEW S, NEW T, S \subseteq T,
           Walks(c, S), Covered(c, K)
    PROVE  Walks(c, T) /\ Covered(c, M)
BY DEF Walks, Covered

\* The first page begins in a bucket whose files and directories form a tree.
LEMMA Begins0 == Init => IInv
<1> SUFFICES ASSUME Init PROVE IInv
  OBVIOUS
<1>1. objects \subseteq Keys /\ \A k \in objects : Parents(k) \cap objects = {}
  BY DEF Init
<1>2. dirs = {<<>>} \cup UNION {Parents(k) : k \in objects}
  BY DEF Init
<1>3. Tree(objects, dirs)
  <2>1. dirs \subseteq Directories
    BY <1>1, <1>2 DEF Directories
  <2>2. ASSUME NEW k \in objects PROVE k \notin dirs /\ Parents(k) \subseteq dirs
    <3>1. k # <<>>
      BY <1>1, KeysAssumption
    <3>2. \A o \in objects : k \notin Parents(o)
      BY <1>1
    <3> QED
      BY <1>2, <3>1, <3>2
  <2> QED
    BY <1>1, <2>1, <2>2 DEF Tree
<1>4. PICK q \in Query : call = Walk(q, q.first)
  BY DEF Init
<1>5. q.first \in Seq(Nat)
  BY QueryIs
<1>6. stable = objects /\ seen = objects /\ listed = {} /\ displaced = {} /\ changes = 0 /\ faults = 0
  BY DEF Init
<1>7. /\ Walks(call, seen) /\ InTurn(call) /\ Counted(call) /\ Covered(call, stable)
      /\ call.pc = "walk" /\ call.query = q /\ call.startAt = q.first
  BY <1>1, <1>4, <1>5, <1>6, Begun
<1>8. Typed
  BY <1>1, <1>3, <1>6, <1>7, BoundsAssumption DEF Typed
<1>9. Ordered(call, listed) /\ Founded(call.query, seen, listed)
  BY <1>6, <1>7 DEF Ordered, Founded
<1>10. Delivered(call, stable, seen, listed)
  BY <1>7 DEF Delivered
<1> QED
  BY <1>6, <1>7, <1>8, <1>9, <1>10 DEF IInv, Complete

\* A step of the walk alone, with the page begun anew or taken further.
LEMMA WalkKeeps ==
    ASSUME IInv, UNCHANGED <<objects, dirs, listed, displaced, stable, seen, changes>>,
           faults' \in 0..MaxFaults,
           call'.pc = call.pc, call'.query = call.query, call'.startAt = call.startAt,
           Walks(call', seen), InTurn(call'), Counted(call'), Covered(call', stable)
    PROVE  IInv'
<1>1. /\ Ordered(call', listed) /\ Founded(call'.query, seen, listed)
      /\ Delivered(call', stable, seen, listed)
  BY SameEntries DEF IInv, Complete
<1>2. Typed'
  BY DEF IInv, Typed
<1> QED
  BY <1>1, <1>2 DEF IInv, Complete

\* A page asked for again.
LEMMA AgainKeeps ==
    ASSUME IInv, Walking, call' = Walk(call.query, call.startAt)
    PROVE  /\ call'.pc = call.pc /\ call'.query = call.query /\ call'.startAt = call.startAt
           /\ Walks(call', seen) /\ InTurn(call') /\ Counted(call') /\ Covered(call', stable)
<1>1. call.query \in Query /\ call.startAt \in Seq(Nat) /\ call.pc = "walk"
  BY WalkIs DEF IInv, Typed, Walking
<1>2. stable \in SUBSET Keys
  BY DEF IInv, Typed
<1> QED
  BY <1>1, <1>2, Begun

\* A put makes the directories on the way to its file.
LEMMA PutKeeps ==
    ASSUME IInv, NEW k \in Keys, Put(k)
    PROVE  IInv'
<1>1. /\ objects' = objects \cup {k} /\ dirs' = dirs \cup Parents(k) /\ seen' = seen \cup {k}
      /\ changes' = changes + 1 /\ changes < MaxChanges
      /\ UNCHANGED <<call, listed, displaced, stable, faults>>
      /\ k \notin dirs /\ Parents(k) \cap objects = {}
  BY DEF Put
<1>2. Tree(objects', dirs')
  <2>1. k \notin Parents(k)
    <3>1. k \in Seq(Nat)
      BY KeysAssumption
    <3> QED
      BY <3>1, ParentsIs
  <2>2. dirs' \subseteq Directories
    BY <1>1 DEF IInv, Typed, Tree, Directories
  <2> QED
    BY <1>1, <2>1, <2>2 DEF IInv, Typed, Tree
<1>3. /\ Walks(call, seen') /\ Ordered(call, listed) /\ Founded(call.query, seen', listed)
      /\ Delivered(call, stable, seen', listed)
  BY <1>1, SameEntries, SameWalk DEF IInv, Typed, Complete
<1>4. Typed'
  BY <1>1, <1>2, <1>3, BoundsAssumption DEF IInv, Typed
<1> QED
  BY <1>1, <1>3, <1>4 DEF IInv, Complete

\* A delete takes a file, and the key from those that stay.
LEMMA DeleteKeeps ==
    ASSUME IInv, NEW k \in Keys, Delete(k)
    PROVE  IInv'
<1>1. /\ objects' = objects \ {k} /\ stable' = stable \ {k}
      /\ changes' = changes + 1 /\ changes < MaxChanges
      /\ UNCHANGED <<dirs, call, listed, displaced, seen, faults>>
  BY DEF Delete
<1>2. Tree(objects', dirs')
  BY <1>1 DEF IInv, Typed, Tree
<1>3. stable' \subseteq stable
  BY <1>1
<1>4. /\ Covered(call, stable') /\ Ordered(call, listed) /\ Founded(call.query, seen, listed)
      /\ Delivered(call, stable', seen, listed)
  BY <1>3, SameEntries, SameWalk DEF IInv, Typed, Complete
<1>5. Typed'
  BY <1>1, <1>2, BoundsAssumption DEF IInv, Typed
<1> QED
  BY <1>1, <1>4, <1>5 DEF IInv, Complete

\* A pruned directory was on the way to no file.
LEMMA PruneKeeps ==
    ASSUME IInv, NEW d \in dirs, Prune(d)
    PROVE  IInv'
<1>1. /\ dirs' = dirs \ {d} /\ ReadDir(d) = <<>>
      /\ UNCHANGED <<objects, call, listed, displaced, stable, seen, changes, faults>>
  BY DEF Prune
<1>2. \A k \in objects : d \notin Parents(k)
  BY <1>1, EmptyDirectory DEF IInv, Typed
<1>3. Tree(objects', dirs')
  BY <1>1, <1>2 DEF IInv, Typed, Tree
<1>4. Typed'
  BY <1>1, <1>3 DEF IInv, Typed
<1> QED
  BY <1>1, <1>4 DEF IInv, Complete

\* The invariant is inductive.
LEMMA Inductive == IInv /\ [Next]_vars => IInv'
<1> SUFFICES ASSUME IInv, [Next]_vars PROVE IInv'
  OBVIOUS
<1>0. /\ Typed /\ InTurn(call) /\ Counted(call) /\ Covered(call, stable)
      /\ faults \in 0..MaxFaults
  BY DEF IInv, Complete, Typed
<1>1. CASE Descend
  <2>1. UNCHANGED <<objects, dirs, listed, displaced, stable, seen, changes>> /\ faults' = faults
    BY <1>1 DEF Descend
  <2> QED
    BY <1>0, <1>1, <2>1, DescendKeeps, WalkKeeps
<1>2. CASE Collect
  <2>1. UNCHANGED <<objects, dirs, listed, displaced, stable, seen, changes>> /\ faults' = faults
    BY <1>2 DEF Collect
  <2> QED
    BY <1>0, <1>2, <2>1, CollectKeeps, WalkKeeps
<1>3. CASE Vanished
  <2>1. /\ UNCHANGED <<objects, dirs, listed, displaced, stable, seen, changes>> /\ faults' = faults
        /\ Walking /\ call' = Walk(call.query, call.startAt)
    BY <1>3 DEF Vanished
  <2> QED
    BY <1>0, <2>1, AgainKeeps, WalkKeeps
<1>4. CASE Fail
  <2>1. /\ UNCHANGED <<objects, dirs, listed, displaced, stable, seen, changes>>
        /\ faults < MaxFaults /\ faults' = faults + 1
        /\ Walking /\ call' = Walk(call.query, call.startAt)
    BY <1>4 DEF Fail
  <2>2. faults' \in 0..MaxFaults
    BY <1>0, <2>1, BoundsAssumption
  <2> QED
    BY <2>1, <2>2, AgainKeeps, WalkKeeps
<1>5. CASE Answer
  <2>1. UNCHANGED <<objects, dirs, stable, seen, changes, faults>>
    BY <1>5 DEF Answer
  <2>2. /\ displaced' = {}
        /\ Walks(call', seen) /\ Ordered(call', listed') /\ Founded(call'.query, seen, listed')
        /\ InTurn(call') /\ Counted(call') /\ Covered(call', stable)
        /\ Delivered(call', stable, seen, listed')
    BY <1>5, AnswerKeeps
  <2>3. Typed'
    BY <1>0, <2>1, <2>2 DEF Typed
  <2> QED
    BY <2>1, <2>2, <2>3 DEF IInv, Complete
<1>6. CASE \E k \in Keys : Put(k) \/ Delete(k)
  BY <1>6, PutKeeps, DeleteKeeps
<1>7. CASE \E d \in dirs : Prune(d)
  BY <1>7, PruneKeeps
<1>8. CASE UNCHANGED vars
  BY <1>8 DEF vars, IInv, Typed, Complete
<1> QED
  BY <1>1, <1>2, <1>3, <1>4, <1>5, <1>6, <1>7, <1>8 DEF Next, Serve

\* In every state.
LEMMA Invariance == Spec => []IInv
BY Begins0, Inductive, PTL DEF Spec

-----------------------------------------------------------------------------
(* The theorems *)

\* Every variable has its type, the files and the directories form a tree (no
\* file has the name of a directory, and the directories on the way to a file
\* are there), what the walk has found was there, and its count stays within
\* max-keys and one more.
THEOREM TypeCorrect == Spec => []TypeOK
<1>1. IInv => TypeOK
  <2> SUFFICES ASSUME IInv PROVE TypeOK
    OBVIOUS
  <2>1. /\ call.pc \in {"walk", "done"} /\ call.query \in Query /\ call.stack \in Seq(NodeType)
        /\ call.walked \in Nat /\ call.walked <= call.query.maxKeys + 1
        /\ call.query.maxKeys \in Nat
    BY WalkIs, QueryIs DEF IInv, Typed
  <2>2. \A i \in DOMAIN call.stack : call.stack[i] \in NodeType
    BY <2>1
  <2>3. call.found \subseteq seen /\ (call.pc = "done" => call.stack = <<>>)
    BY DEF IInv, Typed, Walks
  <2> QED
    BY <2>1, <2>2, <2>3 DEF IInv, Typed, Tree, TypeOK
<1> QED
  BY <1>1, Invariance, PTL

\* The pages a client is given ascend and begin beyond the marker of its query,
\* whatever is put, deleted and pruned while it pages, and however often a page
\* fails and is asked for again: no entry comes twice (the marker that
\* buildListResult hands out, and the filters by it).
THEOREM PagesInOrder == Spec => []PagesAscend
<1>1. IInv => PagesAscend
  BY DEF IInv, Ordered, PagesAscend
<1> QED
  BY <1>1, Invariance, PTL

\* Every entry listed is what groupEntriesByDelimiter shows for a key under the
\* prefix that was in the bucket at some time of the listing.
THEOREM ShownWasThere == Spec => []OnlyWhatWasThere
<1>1. IInv => OnlyWhatWasThere
  <2> SUFFICES ASSUME IInv, NEW e \in listed
               PROVE  \E k \in Asked(seen) : e = Shown(k)
    BY DEF OnlyWhatWasThere
  <2>1. PICK k \in seen : /\ IsPrefix(call.query.prefix, k)
                          /\ e = ShownAs(k, call.query.prefix, call.query.delimiter)
    BY DEF IInv, Founded
  <2> QED
    BY <2>1, ShownIs DEF Asked
<1> QED
  BY <1>1, Invariance, PTL

\* A listing that has ended has shown every key of the query that was there all
\* the time, however the bucket changed around it: with a delimiter always, and
\* without one if the walk meets the keys in their order, so that it may stop
\* (collectEntries) when it has seen more of them than the page takes.
THEOREM NothingIsMissed == Spec => []StableKeysListed
<1>1. IInv => StableKeysListed
  <2> SUFFICES ASSUME IInv, call.pc = "done", call.query.delimiter # <<>> \/ WalksInOrder,
                      NEW k \in Asked(stable), Less(call.query.first, Shown(k).key)
               PROVE  Shown(k) \in listed
    BY DEF StableKeysListed, Found
  <2>1. WalksInOrder => Agree(seen, call.query.prefix)
    BY DEF WalksInOrder, Agree, Asked, Comes
  <2>2. /\ Shown(k) = ShownAs(k, call.query.prefix, call.query.delimiter)
        /\ k \in stable /\ IsPrefix(call.query.prefix, k)
    BY ShownIs DEF Asked
  <2>3. Delivered(call, stable, seen, listed)
    BY DEF IInv, Complete
  <2> QED
    BY <2>1, <2>2, <2>3 DEF Delivered
<1> QED
  BY <1>1, Invariance, PTL

\* A page that is answered as truncated hands out a marker beyond that of its
\* request (buildListResult), for it holds an entry, and none up to the marker
\* (filterObjectsByStartAt): a client that follows the tokens goes forward.
THEOREM ForwardOnly == Spec => MarkersAdvance
<1>1. IInv /\ [Next]_vars =>
        [call.stack = <<>> => call'.pc = "done" \/ Less(call.startAt, call'.startAt)]_call
  <2> SUFFICES ASSUME IInv, [Next]_vars, call.stack = <<>>, call' # call
               PROVE  call'.pc = "done" \/ Less(call.startAt, call'.startAt)
    OBVIOUS
  <2>1. Answer
    BY DEF Next, Serve, Descend, Vanished, Collect, Fail, Walking, Put, Delete, Prune, vars
  <2> QED
    BY <2>1, AnswerKeeps
<1> QED
  BY <1>1, Invariance, PTL DEF Spec, MarkersAdvance
=============================================================================
