----------------------------- MODULE NpkgProofs -----------------------------
(***************************************************************************)
(* What the three files NPKG shares say of a package, for any number of    *)
(* packages and commands: FilesAgree, RemoveLeavesNothing and              *)
(* OthersUntouched.  On the same lemmas about LAUNCHER.CFG rest            *)
(* OneMarkerEach and RemovesMarkerAndEntry of LauncherCfg.  Last, the      *)
(* commands drive INSTALLED.DB as Registry says.                           *)
(***************************************************************************)
EXTENDS NpkgRegistry, LauncherCfg, SequenceTheorems, FiniteSetTheorems, WellFoundedInduction, TLAPS

------------------------------------------------------------------------------
(* The lines that a rewrite keeps.                                          *)

(* ks lists the members of S upwards.                                       *)
Lists(ks, S) ==
    /\ ks \in Seq(S)
    /\ \A i \in S : \E k \in 1 .. Len(ks) : ks[k] = i
    /\ \A j, k \in 1 .. Len(ks) : j < k => ks[j] < ks[k]

LEMMA ListMembers ==
    ASSUME NEW S \in SUBSET Nat, NEW ks, Lists(ks, S)
    PROVE  /\ Len(ks) \in Nat /\ DOMAIN ks = 1 .. Len(ks)
           /\ \A k \in 1 .. Len(ks) : ks[k] \in S /\ ks[k] \in Nat
           /\ \A j, k \in 1 .. Len(ks) : ks[j] = ks[k] => j = k
           /\ \A j, k \in 1 .. Len(ks) : ks[j] < ks[k] => j < k
<1>1. /\ Len(ks) \in Nat /\ DOMAIN ks = 1 .. Len(ks)
      /\ \A k \in 1 .. Len(ks) : ks[k] \in S /\ ks[k] \in Nat
  BY LenProperties, ElementOfSeq DEF Lists
<1>2. ASSUME NEW j \in 1 .. Len(ks), NEW k \in 1 .. Len(ks), ks[j] = ks[k] PROVE j = k
  <2>1. ks[j] \in Nat /\ ks[k] \in Nat
    BY <1>1
  <2>2. (j < k => ks[j] < ks[k]) /\ (k < j => ks[k] < ks[j])
    BY DEF Lists
  <2> QED
    BY <1>1, <1>2, <2>1, <2>2
<1>3. ASSUME NEW j \in 1 .. Len(ks), NEW k \in 1 .. Len(ks), ks[j] < ks[k] PROVE j < k
  <2>1. ks[j] \in Nat /\ ks[k] \in Nat
    BY <1>1
  <2>2. k < j => ks[k] < ks[j]
    BY DEF Lists
  <2> QED
    BY <1>1, <1>3, <2>1, <2>2
<1> QED
  BY <1>1, <1>2, <1>3

(* The numbers of a list are as many as it is long.                         *)
First(ks, m) == {ks[l] : l \in 1 .. m}

LEMMA ListCounts ==
    ASSUME NEW S \in SUBSET Nat, NEW ks, Lists(ks, S), NEW m \in 0 .. Len(ks)
    PROVE  IsFiniteSet(First(ks, m)) /\ Cardinality(First(ks, m)) = m
<1> DEFINE part == {ks[l] : l \in 1 .. m}
           g == [l \in 1 .. m |-> ks[l]]
<1>1. m \in Nat /\ \A l \in 1 .. m : l \in 1 .. Len(ks)
  BY ListMembers
<1>2. g \in Surjection(1 .. m, part)
  BY DEF Surjection
<1>3. g \in Injection(1 .. m, part)
  <2>1. \A j, k \in 1 .. m : ks[j] = ks[k] => j = k
    BY <1>1, ListMembers
  <2>2. g \in [1 .. m -> part] /\ \A j, k \in 1 .. m : g[j] = g[k] => j = k
    BY <2>1
  <2> HIDE DEF part
  <2> QED
    BY <2>2 DEF Injection, IsInjective
<1>4. IsFiniteSet(1 .. m) /\ Cardinality(1 .. m) = m
  <2>1. 1 \in Int /\ m \in Int
    BY <1>1
  <2>2. IsFiniteSet(1 .. m) /\ Cardinality(1 .. m) = IF 1 > m THEN 0 ELSE m - 1 + 1
    BY <2>1, FS_Interval
  <2> QED
    BY <1>1, <2>2
<1> HIDE DEF part, g
<1>5. IsFiniteSet(part) /\ Cardinality(part) = Cardinality(1 .. m)
  BY <1>2, <1>3, <1>4, FS_Surjection
<1> QED
  BY <1>4, <1>5 DEF part, First

(* A text made of the lines in a list is the one Picked describes.          *)
LEMMA PickedIs ==
    ASSUME NEW S \in SUBSET Nat, NEW ks, Lists(ks, S), NEW f
    PROVE  Picked(f, S) = Lines(f, ks)
<1> DEFINE n == Len(ks)
           Before(i) == {j \in S : j < i}
           at(k) == CHOOSE i \in S : Cardinality(Before(i)) = k - 1
<1>1. n \in Nat /\ \A k \in 1 .. n : ks[k] \in S /\ ks[k] \in Nat
  BY ListMembers
<1>2. /\ \A i \in S : \E k \in 1 .. n : ks[k] = i
      /\ \A j, k \in 1 .. n : j < k => ks[j] < ks[k]
  BY DEF Lists
<1>3. \A m \in 0 .. n : Cardinality(First(ks, m)) = m
  BY ListCounts
<1> HIDE DEF n
<1>4. Cardinality(S) = n
  <2>1. S = First(ks, n)
    BY <1>1, <1>2 DEF First
  <2>2. n \in 0 .. n
    BY <1>1
  <2> QED
    BY <1>3, <2>1, <2>2
<1>5. ASSUME NEW k \in 1 .. n PROVE Cardinality(Before(ks[k])) = k - 1
  <2>1. k - 1 \in 0 .. n
    BY <1>1, <1>5
  <2>2. Before(ks[k]) = First(ks, k - 1)
    <3>1. ASSUME NEW l \in 1 .. (k - 1) PROVE ks[l] \in Before(ks[k])
      BY <1>1, <1>2, <1>5, <3>1
    <3>2. ASSUME NEW i \in Before(ks[k]) PROVE \E l \in 1 .. (k - 1) : i = ks[l]
      <4>1. PICK l \in 1 .. n : ks[l] = i
        BY <1>2, <3>2
      <4>2. ks[l] \in Nat /\ ks[k] \in Nat /\ ks[l] < ks[k]
        BY <1>1, <1>5, <3>2, <4>1
      <4>3. ~ (k < l) /\ k # l
        BY <1>2, <1>5, <4>1, <4>2
      <4>4. l \in 1 .. (k - 1)
        BY <1>1, <1>5, <4>1, <4>3
      <4> QED
        BY <4>1, <4>4
    <3> QED
      BY <3>1, <3>2 DEF First
  <2> QED
    BY <1>3, <2>1, <2>2
<1>6. ASSUME NEW k \in 1 .. n PROVE at(k) = ks[k]
  <2>1. at(k) \in S /\ Cardinality(Before(at(k))) = k - 1
    BY <1>1, <1>5, <1>6
  <2> HIDE DEF at, Before
  <2>2. PICK l \in 1 .. n : at(k) = ks[l]
    BY <1>2, <2>1
  <2>3. l - 1 = k - 1
    BY <1>5, <2>1, <2>2
  <2> QED
    BY <1>1, <1>6, <2>2, <2>3
<1>7. Picked(f, S) = [k \in 1 .. n |-> f[at(k)]]
  BY <1>4 DEF Picked
<1> HIDE DEF at
<1>8. DOMAIN ks = 1 .. n
  BY ListMembers DEF n
<1> QED
  BY <1>6, <1>7, <1>8 DEF Lines

(* Every finite set of line numbers has a list.                             *)
LEMMA ListExists ==
    ASSUME NEW S \in SUBSET Nat, IsFiniteSet(S)
    PROVE  \E ks : Lists(ks, S)
<1> DEFINE n == Cardinality(S)
           Before(i) == {j \in S : j < i}
           rank == [i \in S |-> Cardinality(Before(i))]
           at(k) == CHOOSE i \in S : Cardinality(Before(i)) = k - 1
           ks == [k \in 1 .. n |-> at(k)]
<1>1. n \in Nat
  BY FS_CardinalityType
<1> HIDE DEF n
<1>2. \A i \in S : IsFiniteSet(Before(i)) /\ Cardinality(Before(i)) \in 0 .. n - 1
  <2> TAKE i \in S
  <2>1. IsFiniteSet(Before(i))
    BY FS_Subset
  <2>2. IsFiniteSet(S \ {i}) /\ Cardinality(S \ {i}) = n - 1
    BY FS_RemoveElement DEF n
  <2>3. Before(i) \subseteq S \ {i}
    OBVIOUS
  <2>4. Cardinality(Before(i)) <= n - 1
    BY <2>2, <2>3, FS_Subset
  <2>5. Cardinality(Before(i)) \in Nat
    BY <2>1, FS_CardinalityType
  <2> QED
    BY <1>1, <2>1, <2>4, <2>5
<1>3. \A i, j \in S : i < j => rank[i] < rank[j]
  <2> SUFFICES ASSUME NEW i \in S, NEW j \in S, i < j PROVE rank[i] < rank[j]
    OBVIOUS
  <2>1. Before(i) \cup {i} \in SUBSET Before(j) /\ i \notin Before(i)
    <3>1. i \in Nat /\ j \in Nat
      OBVIOUS
    <3>2. \A h \in Before(i) : h \in Before(j)
      BY <3>1
    <3>3. i \in Before(j) /\ i \notin Before(i)
      BY <3>1
    <3> HIDE DEF Before
    <3> QED
      BY <3>2, <3>3
  <2>2. Cardinality(Before(i) \cup {i}) = Cardinality(Before(i)) + 1
    BY <1>2, <2>1, FS_AddElement
  <2>3. Cardinality(Before(i) \cup {i}) <= Cardinality(Before(j))
    BY <1>2, <2>1, FS_Subset
  <2>4. Cardinality(Before(i)) \in Nat /\ Cardinality(Before(j)) \in Nat
    BY <1>1, <1>2
  <2> QED
    BY <2>2, <2>3, <2>4
<1>4. \A i \in S : rank[i] \in 0 .. n - 1
  BY <1>2
<1> HIDE DEF rank
<1>5. \A i, j \in S : rank[i] = rank[j] => i = j
  <2> SUFFICES ASSUME NEW i \in S, NEW j \in S, rank[i] = rank[j], i # j PROVE FALSE
    OBVIOUS
  <2>1. i \in Nat /\ j \in Nat /\ rank[i] \in Nat /\ rank[j] \in Nat
    BY <1>1, <1>4
  <2>2. i < j \/ j < i
    BY <2>1
  <2> QED
    BY <1>3, <2>1, <2>2
<1>6. rank \in Injection(S, 0 .. n - 1)
  BY <1>4, <1>5 DEF rank, Injection, IsInjective
<1>7. IsFiniteSet(0 .. n - 1) /\ Cardinality(0 .. n - 1) = n
  <2>1. 0 \in Int /\ n - 1 \in Int
    BY <1>1
  <2>2. IsFiniteSet(0 .. n - 1) /\ Cardinality(0 .. n - 1) = IF 0 > n - 1 THEN 0 ELSE n - 1 - 0 + 1
    BY <2>1, FS_Interval
  <2> QED
    BY <1>1, <2>2
<1>8. rank \in Surjection(S, 0 .. n - 1)
  BY <1>6, <1>7, FS_Injection DEF n
<1>9. \A k \in 1 .. n : at(k) \in S /\ rank[at(k)] = k - 1
  <2> TAKE k \in 1 .. n
  <2>1. k - 1 \in 0 .. n - 1
    BY <1>1
  <2>2. \E i \in S : Cardinality(Before(i)) = k - 1
    BY <1>8, <2>1 DEF Surjection, rank
  <2>3. at(k) \in S /\ Cardinality(Before(at(k))) = k - 1
    BY <2>2
  <2> HIDE DEF at
  <2> QED
    BY <2>3 DEF rank
<1> HIDE DEF at, Before
<1>10. ks \in Seq(S) /\ Len(ks) = n /\ \A k \in 1 .. n : ks[k] \in S /\ rank[ks[k]] = k - 1
  <2>1. ks \in [1 .. n -> S]
    BY <1>9
  <2> QED
    BY <1>1, <1>9, <2>1
<1> HIDE DEF ks
<1>11. ASSUME NEW i \in S PROVE \E k \in 1 .. n : ks[k] = i
  <2>1. rank[i] + 1 \in 1 .. n /\ rank[i] = (rank[i] + 1) - 1
    BY <1>1, <1>4
  <2>2. rank[ks[rank[i] + 1]] = rank[i] /\ ks[rank[i] + 1] \in S
    BY <1>10, <2>1
  <2> QED
    BY <1>5, <2>1, <2>2
<1>12. ASSUME NEW j \in 1 .. n, NEW k \in 1 .. n, j < k PROVE ks[j] < ks[k]
  <2>1. ks[j] \in S /\ ks[k] \in S /\ rank[ks[j]] = j - 1 /\ rank[ks[k]] = k - 1
    BY <1>10
  <2>2. ks[j] \in Nat /\ ks[k] \in Nat
    BY <2>1
  <2>3. ks[j] # ks[k] /\ ~ (ks[k] < ks[j])
    <3>1. ks[k] < ks[j] => rank[ks[k]] < rank[ks[j]]
      BY <1>3, <2>1
    <3>2. j \in Nat /\ k \in Nat /\ j - 1 < k - 1
      BY <1>1, <1>12
    <3>3. rank[ks[j]] < rank[ks[k]]
      BY <2>1, <3>2
    <3> QED
      BY <2>1, <3>1, <3>2, <3>3
  <2> QED
    BY <2>2, <2>3
<1>13. Lists(ks, S)
  BY <1>10, <1>11, <1>12 DEF Lists
<1> QED
  BY <1>13

(* What stands next to a line that is kept, when that is kept as well.      *)
LEMMA ListNext ==
    ASSUME NEW S \in SUBSET Nat, NEW ks, Lists(ks, S), NEW k \in 1 .. Len(ks), ks[k] + 1 \in S
    PROVE  k + 1 \in 1 .. Len(ks) /\ ks[k + 1] = ks[k] + 1
<1> DEFINE n == Len(ks)
<1>1. n \in Nat /\ \A j \in 1 .. n : ks[j] \in Nat
  BY ListMembers
<1>2. /\ \A i \in S : \E j \in 1 .. n : ks[j] = i
      /\ \A i, j \in 1 .. n : i < j => ks[i] < ks[j]
  BY DEF Lists
<1> HIDE DEF n
<1>3. PICK l \in 1 .. n : ks[l] = ks[k] + 1
  BY <1>2
<1>4. k \in 1 .. n
  BY DEF n
<1>5. ~ (l < k) /\ l # k
  <2>1. ks[l] \in Nat /\ ks[k] \in Nat
    BY <1>1, <1>4
  <2>2. l < k => ks[l] < ks[k]
    BY <1>2, <1>4
  <2> QED
    BY <1>3, <2>1, <2>2
<1>6. ~ (k + 1 < l)
  <2> SUFFICES ASSUME k + 1 < l PROVE FALSE
    OBVIOUS
  <2>1. k + 1 \in 1 .. n /\ k < k + 1
    BY <1>1, <1>4
  <2>2. ks[k] < ks[k + 1] /\ ks[k + 1] < ks[l] /\ ks[k + 1] \in Nat /\ ks[k] \in Nat
    BY <1>1, <1>2, <1>4, <2>1
  <2> QED
    BY <1>3, <2>2
<1>7. l = k + 1
  BY <1>1, <1>4, <1>5, <1>6
<1> QED
  BY <1>3, <1>7 DEF n

LEMMA PickedAt ==
    ASSUME NEW T, NEW f \in Seq(T), NEW S \in SUBSET DOMAIN f
    PROVE  \E ks : /\ Lists(ks, S) /\ Len(ks) \in Nat /\ \A k \in 1 .. Len(ks) : ks[k] \in S
                   /\ Picked(f, S) = Lines(f, ks)
                   /\ Picked(f, S) \in Seq(T) /\ Len(Picked(f, S)) = Len(ks)
                   /\ DOMAIN Picked(f, S) = 1 .. Len(ks)
                   /\ \A k \in 1 .. Len(ks) : Picked(f, S)[k] = f[ks[k]]
<1>1. Len(f) \in Nat /\ DOMAIN f = 1 .. Len(f) /\ \A i \in 1 .. Len(f) : f[i] \in T
  BY LenProperties, ElementOfSeq
<1>2. S \in SUBSET Nat /\ IsFiniteSet(S)
  <2>1. 1 \in Int /\ Len(f) \in Int
    BY <1>1
  <2>2. IsFiniteSet(DOMAIN f)
    BY <1>1, <2>1, FS_Interval
  <2>3. DOMAIN f \subseteq Nat
    BY <1>1
  <2> QED
    BY <2>2, <2>3, FS_Subset
<1>3. PICK ks : Lists(ks, S)
  BY <1>2, ListExists
<1>4. Len(ks) \in Nat /\ \A k \in 1 .. Len(ks) : ks[k] \in S
  BY <1>2, <1>3, ListMembers
<1>5. Picked(f, S) = Lines(f, ks)
  BY <1>2, <1>3, PickedIs
<1> DEFINE g == Lines(f, ks)
<1>6. /\ g \in Seq(T) /\ Len(g) = Len(ks) /\ DOMAIN g = 1 .. Len(ks)
      /\ \A k \in 1 .. Len(ks) : g[k] = f[ks[k]]
  <2>1. DOMAIN ks = 1 .. Len(ks)
    BY <1>2, <1>3, ListMembers
  <2>2. g \in [1 .. Len(ks) -> T] /\ \A k \in 1 .. Len(ks) : g[k] = f[ks[k]]
    BY <1>1, <1>4, <2>1 DEF Lines
  <2> HIDE DEF g
  <2> QED
    BY <1>4, <2>2
<1> HIDE DEF g
<1> QED
  BY <1>3, <1>4, <1>5, <1>6 DEF g

(* What a rewrite drops of the lines in `own` is not missed among the rest. *)
LEMMA RestOfPicked ==
    ASSUME NEW T, NEW f \in Seq(T), NEW S \in SUBSET DOMAIN f, NEW own,
           \A i \in DOMAIN f : i \notin S => f[i] \in own
    PROVE  Rest(Picked(f, S), own) = Rest(f, own)
<1> DEFINE g == Picked(f, S)
           U == {k \in DOMAIN g : g[k] \notin own}
           R == {i \in DOMAIN f : f[i] \notin own}
<1>1. PICK ks : /\ Lists(ks, S) /\ Len(ks) \in Nat /\ \A k \in 1 .. Len(ks) : ks[k] \in S
                /\ g \in Seq(T) /\ Len(g) = Len(ks) /\ DOMAIN g = 1 .. Len(ks)
                /\ \A k \in 1 .. Len(ks) : g[k] = f[ks[k]]
  BY PickedAt
<1>2. S \in SUBSET Nat /\ R \in SUBSET Nat /\ R \subseteq S
  <2>1. DOMAIN f = 1 .. Len(f) /\ Len(f) \in Nat
    BY LenProperties
  <2> QED
    BY <2>1
<1>3. \A k \in 1 .. Len(ks) : g[k] = f[ks[k]]
  BY <1>1
<1>4. U \subseteq 1 .. Len(ks) /\ \A k \in 1 .. Len(ks) : k \in U <=> ks[k] \in R
  <2>1. \A k \in 1 .. Len(ks) : ks[k] \in DOMAIN f
    BY <1>1
  <2> QED
    BY <1>1, <1>3, <2>1
<1> HIDE DEF g
<1>5. PICK us : /\ Lists(us, U) /\ Len(us) \in Nat /\ \A k \in 1 .. Len(us) : us[k] \in U
                /\ Picked(g, U) = Lines(g, us)
  <2>1. U \in SUBSET DOMAIN g /\ g \in Seq(T)
    BY <1>1
  <2> HIDE DEF U
  <2>2. PICK us : /\ Lists(us, U) /\ Len(us) \in Nat /\ \A k \in 1 .. Len(us) : us[k] \in U
                  /\ Picked(g, U) = Lines(g, us)
                  /\ Picked(g, U) \in Seq(T) /\ Len(Picked(g, U)) = Len(us)
    BY <2>1, PickedAt
  <2> QED
    BY <2>2
<1> DEFINE rs == [k \in 1 .. Len(us) |-> ks[us[k]]]
<1> HIDE DEF U, R
<1>6. rs \in Seq(R) /\ Len(rs) = Len(us) /\ \A k \in 1 .. Len(us) : rs[k] = ks[us[k]]
  <2>1. \A k \in 1 .. Len(us) : ks[us[k]] \in R
    BY <1>4, <1>5
  <2>2. rs \in [1 .. Len(us) -> R]
    BY <2>1
  <2> QED
    BY <1>5, <2>2
<1> HIDE DEF rs
<1>7. ASSUME NEW i \in R PROVE \E k \in 1 .. Len(rs) : rs[k] = i
  <2>1. PICK l \in 1 .. Len(ks) : ks[l] = i
    BY <1>1, <1>2 DEF Lists
  <2>2. l \in U
    BY <1>4, <2>1
  <2>3. PICK k \in 1 .. Len(us) : us[k] = l
    BY <1>5, <2>2 DEF Lists
  <2> QED
    BY <1>6, <2>1, <2>3
<1>8. ASSUME NEW j \in 1 .. Len(rs), NEW k \in 1 .. Len(rs), j < k PROVE rs[j] < rs[k]
  <2>1. us[j] < us[k] /\ us[j] \in 1 .. Len(ks) /\ us[k] \in 1 .. Len(ks)
    BY <1>4, <1>5, <1>6, <1>8 DEF Lists
  <2>2. ks[us[j]] < ks[us[k]]
    BY <1>1, <2>1 DEF Lists
  <2> QED
    BY <1>6, <2>2
<1>9. Lists(rs, R)
  BY <1>6, <1>7, <1>8 DEF Lists
<1>10. Picked(f, R) = Lines(f, rs)
  BY <1>2, <1>9, PickedIs
<1>11. Picked(g, U) = Lines(f, rs)
  <2>1. \A k \in 1 .. Len(us) : g[us[k]] = f[rs[k]]
    BY <1>3, <1>4, <1>5, <1>6
  <2>2. DOMAIN us = 1 .. Len(us) /\ DOMAIN rs = 1 .. Len(us)
    BY <1>5, <1>6, LenProperties DEF Lists
  <2> QED
    BY <1>5, <2>1, <2>2 DEF Lines
<1>12. Picked(g, U) = Picked(f, R)
  BY <1>10, <1>11
<1> QED
  BY <1>12 DEF Rest, U, R, g

(* Nor what is appended of them.                                            *)
LEMMA RestOfLonger ==
    ASSUME NEW T, NEW f \in Seq(T), NEW g \in Seq(T), NEW own, Len(f) <= Len(g),
           \A i \in 1 .. Len(f) : g[i] = f[i],
           \A i \in (Len(f) + 1) .. Len(g) : g[i] \in own
    PROVE  Rest(g, own) = Rest(f, own)
<1> DEFINE R == {i \in DOMAIN f : f[i] \notin own}
           U == {i \in DOMAIN g : g[i] \notin own}
<1>1. /\ Len(f) \in Nat /\ DOMAIN f = 1 .. Len(f)
      /\ Len(g) \in Nat /\ DOMAIN g = 1 .. Len(g)
  BY LenProperties
<1>2. U = R /\ R \in SUBSET DOMAIN f /\ R \in SUBSET DOMAIN g
  <2>1. \A i \in 1 .. Len(g) : i \in 1 .. Len(f) \/ i \in (Len(f) + 1) .. Len(g)
    BY <1>1
  <2>2. \A i \in 1 .. Len(f) : i \in 1 .. Len(g)
    BY <1>1
  <2> QED
    BY <1>1, <2>1, <2>2
<1>3. R \in SUBSET Nat /\ \A i \in R : f[i] = g[i]
  BY <1>1, <1>2
<1> HIDE DEF R, U
<1>4. PICK ks : /\ Lists(ks, R) /\ \A k \in 1 .. Len(ks) : ks[k] \in R
                /\ Picked(f, R) = Lines(f, ks)
  BY <1>2, PickedAt
<1>5. Picked(g, R) = Lines(g, ks)
  BY <1>3, <1>4, PickedIs
<1>6. \A k \in 1 .. Len(ks) : f[ks[k]] = g[ks[k]]
  BY <1>3, <1>4
<1>7. DOMAIN ks = 1 .. Len(ks)
  BY <1>4, LenProperties DEF Lists
<1>8. Picked(f, R) = Picked(g, U)
  BY <1>2, <1>4, <1>5, <1>6, <1>7 DEF Lines
<1> QED
  BY <1>8 DEF Rest, R, U

------------------------------------------------------------------------------
(* AUTOEXEC.BAT.                                                            *)

(* AUTOEXEC.BAT holds whole blocks and lines outside them: a block of a     *)
(* package is only lines of its own, and is closed.                         *)
Tidy(f) ==
    /\ \A p \in Ids, i \in 1 .. Len(f) :
          InBlock(f, p, i) => f[i] \in {StartMark(p), SetLine(p), EndMark(p)}
    /\ \A p \in Ids, s \in 1 .. Len(f) :
          f[s] = StartMark(p) => \E e \in (s + 1) .. Len(f) : f[e] = EndMark(p)

NoBlock(f, p) == \A i \in DOMAIN f : f[i] # StartMark(p)
OneBlock(f, p) == \E i \in DOMAIN f : f[i] = StartMark(p) /\ \A j \in DOMAIN f : f[j] = StartMark(p) => j = i

LEMMA MarksOf ==
    ASSUME NEW p
    PROVE  /\ StartMark(p) # EndMark(p) /\ SetLine(p) # StartMark(p)
           /\ EmptyLine # StartMark(p) /\ EmptyLine # EndMark(p) /\ SetLine(p) # EndMark(p)
           /\ \A q : q # p =>
                 {StartMark(p), SetLine(p), EndMark(p)} \cap {StartMark(q), SetLine(q), EndMark(q), EmptyLine} = {}
<1>1. /\ EmptyLine.kind = "empty" /\ StartMark(p).kind = "start" /\ SetLine(p).kind = "set" /\ EndMark(p).kind = "end"
      /\ \A q : StartMark(q).of = q /\ SetLine(q).of = q /\ EndMark(q).of = q
      /\ \A q : StartMark(q).kind = "start" /\ SetLine(q).kind = "set" /\ EndMark(q).kind = "end"
  BY DEF EmptyLine, StartMark, SetLine, EndMark
<1>2. StartMark(p) # EndMark(p) /\ SetLine(p) # StartMark(p) /\ SetLine(p) # EndMark(p)
  BY <1>1
<1>3. EmptyLine # StartMark(p) /\ EmptyLine # EndMark(p) /\ EmptyLine # SetLine(p)
  BY <1>1
<1>4. ASSUME NEW q, q # p
      PROVE  {StartMark(p), SetLine(p), EndMark(p)} \cap {StartMark(q), SetLine(q), EndMark(q), EmptyLine} = {}
  <2>1. \A l \in {StartMark(p), SetLine(p), EndMark(p)} : l.of = p /\ l # EmptyLine
    BY <1>1, <1>3
  <2>2. \A l \in {StartMark(q), SetLine(q), EndMark(q)} : l.of = q
    BY <1>1
  <2> QED
    BY <1>4, <2>1, <2>2
<1> QED
  BY <1>2, <1>3, <1>4

(* A start marker is in the block it opens.                                 *)
LEMMA StartInBlock ==
    ASSUME NEW f, NEW p, NEW i \in Nat \ {0}, f[i] = StartMark(p)
    PROVE  InBlock(f, p, i)
<1>1. i \in 1 .. i /\ (i + 1) .. (i - 1) = {}
  OBVIOUS
<1> QED
  BY <1>1 DEF InBlock

(* remove_autoexec_block takes the lines of p and leaves the blocks of the  *)
(* other packages whole.                                                    *)
LEMMA StripKeeps ==
    ASSUME NEW f \in Seq(AutoLine), Tidy(f), NEW p \in Ids
    PROVE  LET g == StripBlocks(f, p)
           IN  /\ g \in Seq(AutoLine) /\ Tidy(g) /\ NoBlock(g, p)
               /\ Rest(g, AutoLinesOf(p)) = Rest(f, AutoLinesOf(p))
               /\ \A q \in Ids \ {p} : /\ NoBlock(f, q) => NoBlock(g, q)
                                       /\ OneBlock(f, q) => OneBlock(g, q)
<1> DEFINE S == {i \in DOMAIN f : ~ InBlock(f, p, i)}
           g == StripBlocks(f, p)
           n == Len(g)
<1>1. /\ Len(f) \in Nat /\ DOMAIN f = 1 .. Len(f)
  BY LenProperties
<1>2. S \in SUBSET DOMAIN f /\ S \in SUBSET Nat /\ \A i \in 1 .. Len(f) : i \in S <=> ~ InBlock(f, p, i)
  BY <1>1
<1>3. g = Picked(f, S)
  BY DEF StripBlocks
<1> HIDE DEF S, g
<1>4. PICK ks : /\ Lists(ks, S) /\ Len(ks) \in Nat /\ \A k \in 1 .. Len(ks) : ks[k] \in S
                /\ g \in Seq(AutoLine) /\ Len(g) = Len(ks) /\ DOMAIN g = 1 .. Len(ks)
                /\ \A k \in 1 .. Len(ks) : g[k] = f[ks[k]]
  BY <1>2, <1>3, PickedAt
<1>5. /\ n \in Nat /\ n = Len(ks) /\ DOMAIN g = 1 .. n
      /\ \A k \in 1 .. n : ks[k] \in S /\ ks[k] \in 1 .. Len(f) /\ ks[k] \in Nat /\ g[k] = f[ks[k]]
      /\ \A i \in S : \E k \in 1 .. n : ks[k] = i
      /\ \A j, k \in 1 .. n : (j < k => ks[j] < ks[k]) /\ (ks[j] < ks[k] => j < k) /\ (ks[j] = ks[k] => j = k)
  <2>1. \A k \in 1 .. Len(ks) : ks[k] \in S /\ ks[k] \in 1 .. Len(f) /\ ks[k] \in Nat
    BY <1>1, <1>2, <1>4
  <2>2. \A j, k \in 1 .. Len(ks) : (ks[j] < ks[k] => j < k) /\ (ks[j] = ks[k] => j = k)
    BY <1>2, <1>4, ListMembers
  <2> QED
    BY <1>4, <2>1, <2>2 DEF Lists
<1> HIDE DEF n
<1>6. \A i \in 1 .. Len(f) : i \notin S => f[i] \in {StartMark(p), SetLine(p), EndMark(p)}
  BY <1>2 DEF Tidy
<1>7. \A i \in 1 .. Len(f) : f[i] = StartMark(p) => i \notin S
  <2> TAKE i \in 1 .. Len(f)
  <2>1. i \in Nat \ {0}
    BY <1>1
  <2> QED
    BY <1>2, <2>1, StartInBlock
<1>8. NoBlock(g, p)
  BY <1>5, <1>7 DEF NoBlock
<1>9. Rest(g, AutoLinesOf(p)) = Rest(f, AutoLinesOf(p))
  <2>1. \A i \in DOMAIN f : i \notin S => f[i] \in AutoLinesOf(p)
    BY <1>1, <1>6 DEF AutoLinesOf
  <2> QED
    BY <1>2, <1>3, <2>1, RestOfPicked
<1>10. ASSUME NEW q \in Ids, q # p, NEW i \in 1 .. Len(f), f[i] \in {StartMark(q), SetLine(q), EndMark(q)}
       PROVE  \E k \in 1 .. n : ks[k] = i
  <2>1. f[i] \notin {StartMark(p), SetLine(p), EndMark(p)}
    BY <1>10, MarksOf
  <2>2. i \in S
    BY <1>6, <1>10, <2>1
  <2> QED
    BY <1>5, <2>2
<1>11. ASSUME NEW q \in Ids, NEW k \in 1 .. n, InBlock(g, q, k)
       PROVE  g[k] \in {StartMark(q), SetLine(q), EndMark(q)}
  <2>1. PICK s \in 1 .. k : g[s] = StartMark(q) /\ \A j \in (s + 1) .. (k - 1) : g[j] # EndMark(q)
    BY <1>11 DEF InBlock
  <2>2. s \in 1 .. n /\ s \in Nat /\ k \in Nat
    BY <1>5
  <2>3. q # p
    BY <1>5, <1>8, <2>1, <2>2 DEF NoBlock
  <2>4. ks[s] \in 1 .. ks[k] /\ f[ks[s]] = StartMark(q)
    <3>1. ks[s] \in Nat /\ ks[k] \in Nat /\ ks[s] \in 1 .. Len(f) /\ f[ks[s]] = g[s]
      BY <1>5, <2>2
    <3>2. s < k => ks[s] < ks[k]
      BY <1>5, <2>2
    <3>3. s = k \/ s < k
      BY <2>1, <2>2
    <3> QED
      BY <1>1, <2>1, <3>1, <3>2, <3>3
  <2>5. ASSUME NEW i \in (ks[s] + 1) .. (ks[k] - 1), f[i] = EndMark(q) PROVE FALSE
    <3>1. /\ ks[s] \in 1 .. Len(f) /\ ks[k] \in 1 .. Len(f) /\ i \in 1 .. Len(f)
          /\ ks[s] < i /\ i < ks[k]
      BY <1>1, <1>5, <2>2
    <3>2. PICK j \in 1 .. n : ks[j] = i
      BY <1>10, <2>3, <2>5, <3>1
    <3>3. s < j /\ j < k
      BY <1>5, <2>2, <3>1, <3>2
    <3>4. j \in (s + 1) .. (k - 1) /\ g[j] = EndMark(q)
      BY <1>5, <2>2, <2>5, <3>2, <3>3
    <3> QED
      BY <2>1, <3>4
  <2>6. InBlock(f, q, ks[k])
    BY <2>4, <2>5 DEF InBlock
  <2>7. ks[k] \in 1 .. Len(f) /\ g[k] = f[ks[k]]
    BY <1>5
  <2> QED
    BY <2>6, <2>7 DEF Tidy
<1>12. ASSUME NEW q \in Ids, NEW s \in 1 .. n, g[s] = StartMark(q)
       PROVE  \E e \in (s + 1) .. n : g[e] = EndMark(q)
  <2>1. q # p
    BY <1>5, <1>8, <1>12 DEF NoBlock
  <2>2. ks[s] \in 1 .. Len(f) /\ f[ks[s]] = StartMark(q)
    BY <1>5, <1>12
  <2>3. PICK i \in (ks[s] + 1) .. Len(f) : f[i] = EndMark(q)
    BY <2>2 DEF Tidy
  <2>4. i \in 1 .. Len(f) /\ ks[s] < i
    BY <1>1, <2>2
  <2>5. PICK e \in 1 .. n : ks[e] = i
    BY <1>10, <2>1, <2>3, <2>4
  <2>6. s < e
    BY <1>5, <2>4, <2>5
  <2>7. e \in (s + 1) .. n /\ g[e] = EndMark(q)
    BY <1>5, <2>3, <2>5, <2>6
  <2> QED
    BY <2>7
<1>13. Tidy(g)
  BY <1>11, <1>12 DEF Tidy, n
<1>14. ASSUME NEW q \in Ids \ {p}, NoBlock(f, q) PROVE NoBlock(g, q)
  BY <1>1, <1>5, <1>14 DEF NoBlock
<1>15. ASSUME NEW q \in Ids \ {p}, OneBlock(f, q) PROVE OneBlock(g, q)
  <2>1. PICK i \in 1 .. Len(f) : f[i] = StartMark(q) /\ \A j \in 1 .. Len(f) : f[j] = StartMark(q) => j = i
    BY <1>1, <1>15 DEF OneBlock
  <2>2. PICK k \in 1 .. n : ks[k] = i
    BY <1>10, <2>1
  <2>3. g[k] = StartMark(q)
    BY <1>5, <2>1, <2>2
  <2>4. \A j \in 1 .. n : g[j] = StartMark(q) => j = k
    BY <1>5, <2>1, <2>2
  <2> QED
    BY <1>5, <2>3, <2>4 DEF OneBlock
<1> QED
  BY <1>4, <1>8, <1>9, <1>13, <1>14, <1>15 DEF g

(* nos_update_autoexec adds a whole block and touches nothing above it.     *)
LEMMA AppendKeeps ==
    ASSUME NEW f \in Seq(AutoLine), Tidy(f), NEW p \in Ids
    PROVE  LET g == f \o Block(p)
           IN  /\ g \in Seq(AutoLine) /\ Tidy(g)
               /\ Rest(g, AutoLinesOf(p)) = Rest(f, AutoLinesOf(p))
               /\ NoBlock(f, p) => OneBlock(g, p)
               /\ \A q \in Ids \ {p} : /\ NoBlock(f, q) => NoBlock(g, q)
                                       /\ OneBlock(f, q) => OneBlock(g, q)
<1> DEFINE g == f \o Block(p)
           n == Len(f)
           b == Block(p)
<1>1. /\ b \in Seq(AutoLine) /\ Len(b) = 4
      /\ b[1] = EmptyLine /\ b[2] = StartMark(p) /\ b[3] = SetLine(p) /\ b[4] = EndMark(p)
  <2>1. EmptyLine \in AutoLine /\ StartMark(p) \in AutoLine /\ SetLine(p) \in AutoLine /\ EndMark(p) \in AutoLine
    BY DEF EmptyLine, StartMark, SetLine, EndMark, AutoLine
  <2> QED
    BY <2>1 DEF Block
<1>2. n \in Nat /\ DOMAIN f = 1 .. n
  BY LenProperties
<1> HIDE DEF b
<1>3. /\ g \in Seq(AutoLine) /\ Len(g) = n + 4
      /\ \A i \in 1 .. n : g[i] = f[i]
      /\ g[n + 1] = EmptyLine /\ g[n + 2] = StartMark(p) /\ g[n + 3] = SetLine(p) /\ g[n + 4] = EndMark(p)
  <2>1. f \o b \in Seq(AutoLine) /\ Len(f \o b) = n + 4
        /\ \A i \in 1 .. n + 4 : (f \o b)[i] = IF i <= n THEN f[i] ELSE b[i - n]
    <3>1. /\ f \o b \in Seq(AutoLine) /\ Len(f \o b) = Len(f) + Len(b)
          /\ \A i \in 1 .. Len(f) + Len(b) : (f \o b)[i] = IF i <= Len(f) THEN f[i] ELSE b[i - Len(f)]
      BY <1>1, ConcatProperties
    <3> QED
      BY <1>1, <3>1
  <2>2. g = f \o b
    BY DEF b
  <2>3. \A i \in 1 .. n + 4 : g[i] = IF i <= n THEN f[i] ELSE b[i - n]
    BY <2>1, <2>2
  <2> HIDE DEF g
  <2>4. \A i \in 1 .. n : g[i] = f[i]
    BY <1>2, <2>3
  <2>5. \A k \in 1 .. 4 : g[n + k] = b[k]
    <3> TAKE k \in 1 .. 4
    <3>1. n + k \in 1 .. n + 4 /\ ~ (n + k <= n) /\ (n + k) - n = k
      BY <1>2
    <3> QED
      BY <2>3, <3>1
  <2> QED
    BY <1>1, <2>1, <2>2, <2>4, <2>5
<1> HIDE DEF g, n
<1>4. DOMAIN g = 1 .. n + 4 /\ n + 4 \in Nat
  BY <1>2, <1>3, LenProperties
<1>5. \A i \in 1 .. n + 4 : i \in 1 .. n \/ i = n + 1 \/ i = n + 2 \/ i = n + 3 \/ i = n + 4
  BY <1>2
<1>6. Rest(g, AutoLinesOf(p)) = Rest(f, AutoLinesOf(p))
  <2>1. \A i \in (n + 1) .. (n + 4) : g[i] \in AutoLinesOf(p)
    <3> TAKE i \in (n + 1) .. (n + 4)
    <3>1. i = n + 1 \/ i = n + 2 \/ i = n + 3 \/ i = n + 4
      BY <1>2
    <3> QED
      BY <1>3, <3>1 DEF AutoLinesOf
  <2>2. n <= n + 4
    BY <1>2
  <2> QED
    BY <1>3, <2>1, <2>2, RestOfLonger DEF n
<1>7. ASSUME NEW q \in Ids, NEW i \in 1 .. n + 4, g[i] = StartMark(q), ~ (i \in 1 .. n)
      PROVE  i = n + 2 /\ q = p
  BY <1>3, <1>5, <1>7, MarksOf
<1>8. ASSUME NEW q \in Ids, NEW i \in 1 .. n + 4, InBlock(g, q, i)
      PROVE  g[i] \in {StartMark(q), SetLine(q), EndMark(q)}
  <2>1. PICK s \in 1 .. i : g[s] = StartMark(q) /\ \A j \in (s + 1) .. (i - 1) : g[j] # EndMark(q)
    BY <1>8 DEF InBlock
  <2>2. CASE i \in 1 .. n
    <3>1. s \in 1 .. i /\ s \in 1 .. n /\ f[s] = StartMark(q)
      BY <1>2, <1>3, <2>1, <2>2
    <3>2. \A j \in (s + 1) .. (i - 1) : f[j] # EndMark(q)
      <4> TAKE j \in (s + 1) .. (i - 1)
      <4>1. j \in 1 .. n
        BY <1>2, <2>2
      <4> QED
        BY <1>3, <2>1, <4>1
    <3>3. InBlock(f, q, i)
      BY <3>1, <3>2 DEF InBlock
    <3> QED
      BY <1>3, <2>2, <3>3 DEF Tidy, n
  <2>3. CASE ~ (i \in 1 .. n) /\ s \in 1 .. n
    <3>1. f[s] = StartMark(q)
      BY <1>3, <2>1, <2>3
    <3>2. PICK e \in (s + 1) .. n : f[e] = EndMark(q)
      BY <2>3, <3>1 DEF Tidy, n
    <3>3. e \in 1 .. n /\ e \in (s + 1) .. (i - 1)
      BY <1>2, <2>3
    <3>4. g[e] = EndMark(q)
      BY <1>3, <3>2, <3>3
    <3> QED
      BY <2>1, <3>3, <3>4
  <2>4. CASE ~ (i \in 1 .. n) /\ ~ (s \in 1 .. n)
    <3>1. s \in 1 .. n + 4
      BY <1>2
    <3>2. s = n + 2 /\ q = p
      BY <1>7, <2>1, <2>4, <3>1
    <3>3. i = n + 2 \/ i = n + 3 \/ i = n + 4
      BY <1>2, <3>2
    <3> QED
      BY <1>3, <3>2, <3>3
  <2> QED
    BY <2>2, <2>3, <2>4
<1>9. ASSUME NEW q \in Ids, NEW s \in 1 .. n + 4, g[s] = StartMark(q)
      PROVE  \E e \in (s + 1) .. n + 4 : g[e] = EndMark(q)
  <2>1. CASE s \in 1 .. n
    <3>1. f[s] = StartMark(q)
      BY <1>3, <1>9, <2>1
    <3>2. PICK e \in (s + 1) .. n : f[e] = EndMark(q)
      BY <2>1, <3>1 DEF Tidy, n
    <3>3. e \in 1 .. n /\ e \in (s + 1) .. n + 4
      BY <1>2, <2>1
    <3> QED
      BY <1>3, <3>2, <3>3
  <2>2. CASE ~ (s \in 1 .. n)
    <3>1. s = n + 2 /\ q = p
      BY <1>7, <1>9, <2>2
    <3>2. n + 4 \in (s + 1) .. n + 4
      BY <1>2, <3>1
    <3> QED
      BY <1>3, <3>1, <3>2
  <2> QED
    BY <2>1, <2>2
<1>10. Tidy(g)
  BY <1>3, <1>8, <1>9 DEF Tidy
<1>11. ASSUME NEW q \in Ids \ {p}, NEW i \in 1 .. n + 4, g[i] = StartMark(q)
       PROVE  i \in 1 .. n /\ f[i] = StartMark(q)
  BY <1>3, <1>7, <1>11
<1>12. ASSUME NEW q \in Ids \ {p}, NoBlock(f, q) PROVE NoBlock(g, q)
  BY <1>2, <1>4, <1>11, <1>12 DEF NoBlock
<1>13. ASSUME NEW q \in Ids \ {p}, OneBlock(f, q) PROVE OneBlock(g, q)
  <2>1. PICK i \in 1 .. n : f[i] = StartMark(q) /\ \A j \in 1 .. n : f[j] = StartMark(q) => j = i
    BY <1>2, <1>13 DEF OneBlock
  <2>2. i \in 1 .. n + 4 /\ g[i] = StartMark(q)
    BY <1>2, <1>3, <2>1
  <2>3. \A j \in 1 .. n + 4 : g[j] = StartMark(q) => j = i
    BY <1>11, <2>1
  <2> QED
    BY <1>4, <2>2, <2>3 DEF OneBlock
<1>14. ASSUME NoBlock(f, p) PROVE OneBlock(g, p)
  <2>1. n + 2 \in 1 .. n + 4 /\ g[n + 2] = StartMark(p)
    BY <1>2, <1>3
  <2>2. \A j \in 1 .. n + 4 : g[j] = StartMark(p) => j = n + 2
    <3> TAKE j \in 1 .. n + 4
    <3> HAVE g[j] = StartMark(p)
    <3>1. ~ (j \in 1 .. n)
      BY <1>2, <1>3, <1>14 DEF NoBlock
    <3> QED
      BY <1>7, <3>1
  <2> QED
    BY <1>4, <2>1, <2>2 DEF OneBlock
<1> QED
  BY <1>3, <1>6, <1>10, <1>12, <1>13, <1>14 DEF g

------------------------------------------------------------------------------
(* LAUNCHER.CFG.                                                            *)

(* In LAUNCHER.CFG the entry of a package directly follows its marker.      *)
Follows(e, m) ==
    e.of = m.of /\ (e.kind = "entry" \/ (e.kind = "head" /\ e.of \in LongEntries))

Followed(f) ==
    \A i \in 1 .. Len(f) : f[i].kind = "marker" => i < Len(f) /\ Follows(f[i + 1], f[i])

LEMMA SmallestOf ==
    ASSUME NEW S \in SUBSET Nat, S # {}
    PROVE  \E n \in S : \A k \in S : n <= k
<1>1. PICK n \in S : \A k \in S : ~ (<<k, n>> \in OpToRel(<, Nat))
  BY NatLessThanWellFounded, WFMin
<1>2. \A k \in S : ~ (k < n)
  BY <1>1 DEF OpToRel
<1> QED
  BY <1>2

(* What is joined of the first i sequences.                                 *)
Joins(flat, seqs) ==
    \A i \in 1 .. Len(seqs) : flat[i] = IF i = 1 THEN seqs[i] ELSE flat[i - 1] \o seqs[i]

(* The recursion of FlattenSeq has a solution, which FlattenSeq follows.    *)
LEMMA FlattenJoins ==
    ASSUME NEW seqs, Len(seqs) \in Nat \ {0}
    PROVE  \E flat : Joins(flat, seqs) /\ FlattenSeq(seqs) = flat[Len(seqs)]
<1> DEFINE m == Len(seqs)
           Join(flat, i) == IF i = 1 THEN seqs[i] ELSE flat[i - 1] \o seqs[i]
           Good(n) == \E flat : \A i \in 1 .. n : flat[i] = Join(flat, i)
           Bad == {n \in Nat : ~ Good(n)}
<1>1. Good(0)
  BY 1 .. 0 = {}
<1>2. ASSUME NEW n \in Nat, Good(n) PROVE Good(n + 1)
  <2>1. PICK flat : \A i \in 1 .. n : flat[i] = Join(flat, i)
    BY <1>2
  <2> DEFINE up == [i \in 1 .. n + 1 |-> IF i = n + 1 THEN Join(flat, i) ELSE flat[i]]
  <2>2. \A i \in 1 .. n : up[i] = flat[i]
    OBVIOUS
  <2>3. up[n + 1] = Join(flat, n + 1)
    OBVIOUS
  <2> HIDE DEF up
  <2>4. ASSUME NEW i \in 1 .. n + 1 PROVE up[i] = Join(up, i)
    <3>1. i # 1 => i - 1 \in 1 .. n
      OBVIOUS
    <3>2. Join(up, i) = Join(flat, i)
      BY <2>2, <3>1
    <3>3. CASE i = n + 1
      BY <2>3, <3>2, <3>3
    <3>4. CASE i # n + 1
      <4>1. i \in 1 .. n
        BY <3>4
      <4> QED
        BY <2>1, <2>2, <3>2, <4>1
    <3> QED
      BY <3>3, <3>4
  <2> QED
    BY <2>4
<1>3. Bad = {}
  <2> SUFFICES ASSUME Bad # {} PROVE FALSE
    OBVIOUS
  <2>1. PICK n \in Bad : \A k \in Bad : n <= k
    <3>1. Bad \in SUBSET Nat
      OBVIOUS
    <3> HIDE DEF Bad
    <3> QED
      BY <3>1, SmallestOf
  <2> HIDE DEF Good
  <2>2. n # 0 /\ n - 1 \in Nat /\ Good(n - 1)
    BY <1>1, <2>1
  <2>3. Good((n - 1) + 1)
    BY <1>2, <2>2
  <2>4. (n - 1) + 1 = n
    BY <2>1
  <2> QED
    BY <2>1, <2>3, <2>4
<1>4. Good(m)
  <2> HIDE DEF Good
  <2> QED
    BY <1>3
<1>5. PICK some : \A i \in 1 .. m : some[i] = Join(some, i)
  BY <1>4
<1> DEFINE Solves(flat) == flat = [i \in 1 .. m |-> Join(flat, i)]
           flat == CHOOSE flat : Solves(flat)
<1>6. Solves([i \in 1 .. m |-> some[i]])
  <2> DEFINE g == [i \in 1 .. m |-> some[i]]
  <2>1. \A i \in 1 .. m : g[i] = some[i] /\ (i # 1 => i - 1 \in 1 .. m)
    OBVIOUS
  <2>2. \A i \in 1 .. m : Join(g, i) = Join(some, i)
    BY <2>1
  <2>3. \A i \in 1 .. m : g[i] = Join(g, i)
    BY <1>5, <2>1, <2>2
  <2> HIDE DEF Join
  <2>4. g = [i \in 1 .. m |-> Join(g, i)]
    BY <2>3
  <2> QED
    BY <2>4
<1>7. Solves(flat)
  <2> HIDE DEF Solves
  <2> QED
    BY <1>6
<1>8. FlattenSeq(seqs) = flat[m]
  BY DEF FlattenSeq
<1>9. Joins(flat, seqs)
  BY <1>7 DEF Joins
<1> QED
  BY <1>8, <1>9

LEMMA ItemsOf ==
    ASSUME NEW own, NEW q
    PROVE  /\ Marker(q).kind = "marker" /\ Marker(q).of = q
           /\ MenuEntry(q).kind = "entry" /\ MenuEntry(q).of = q
           /\ \A l \in Items(own) : l.kind = "marker" /\ l.of = q => l = Marker(q)
           /\ \A l \in Items(own) : l.kind = "entry" /\ l.of = q => l = MenuEntry(q)
<1>1. \A l \in Items(own) : l = [kind |-> l.kind, of |-> l.of]
  BY DEF Items
<1> QED
  BY <1>1 DEF Marker, MenuEntry

(* What fgets makes of one line.                                            *)
LEMMA PiecesOfLine ==
    ASSUME NEW own, NEW l \in Items(own)
    PROVE  /\ Pieces(l) \in Seq(Items(own)) /\ Len(Pieces(l)) \in {1, 2}
           /\ \A k \in 1 .. Len(Pieces(l)) :
                 Pieces(l)[k].kind \in {"marker", "entry", "user"} => Len(Pieces(l)) = 1 /\ Pieces(l)[1] = l
           /\ l.kind = "marker" => Pieces(l) = <<l>>
           /\ LongEntries = {} => Pieces(l) = <<l>>
           /\ \A m : Follows(l, m) => Follows(Pieces(l)[1], m)
<1>1. CASE l.kind = "entry" /\ l.of \in LongEntries
  <2> DEFINE h == [l EXCEPT !.kind = "head"]
             r == [l EXCEPT !.kind = "rest"]
  <2>1. l = [kind |-> "entry", of |-> l.of] /\ l.of \in LongEntries
    BY <1>1 DEF Items
  <2>2. h = [kind |-> "head", of |-> l.of] /\ r = [kind |-> "rest", of |-> l.of]
    BY <2>1
  <2>3. h \in Items(own) /\ r \in Items(own)
    BY <2>1, <2>2 DEF Items
  <2>4. h.kind = "head" /\ h.of = l.of /\ r.kind = "rest"
    BY <2>2
  <2>5. Pieces(l) = <<h, r>>
    BY <1>1 DEF Pieces
  <2> HIDE DEF h, r
  <2>6. Pieces(l) \in Seq(Items(own)) /\ Len(Pieces(l)) = 2 /\ Pieces(l)[1] = h /\ Pieces(l)[2] = r
    BY <2>3, <2>5
  <2>7. \A k \in 1 .. 2 : k = 1 \/ k = 2
    OBVIOUS
  <2>8. \A m : Follows(l, m) => Follows(h, m)
    BY <1>1, <2>4 DEF Follows
  <2> QED
    BY <1>1, <2>4, <2>6, <2>7, <2>8
<1>2. CASE ~ (l.kind = "entry" /\ l.of \in LongEntries)
  <2>1. Pieces(l) = <<l>>
    BY <1>2 DEF Pieces
  <2>2. Pieces(l) \in Seq(Items(own)) /\ Len(Pieces(l)) = 1 /\ Pieces(l)[1] = l
    BY <2>1
  <2>3. \A k \in 1 .. 1 : k = 1
    OBVIOUS
  <2> QED
    BY <2>1, <2>2, <2>3
<1> QED
  BY <1>1, <1>2

(* The pieces of line i of f begin at place at[i] of what fgets returns and *)
(* directly follow those of the line before; there are no other pieces.     *)
Placed(at, f, P) ==
    /\ \A i \in 1 .. Len(f), k \in 1 .. 2 :
          k <= Len(Pieces(f[i])) => at[i] + k \in 1 .. Len(P) /\ P[at[i] + k] = Pieces(f[i])[k]
    /\ \A i \in 1 .. Len(f) : at[i] \in Nat
    /\ \A i \in 1 .. Len(f) : i + 1 \in 1 .. Len(f) => at[i + 1] = at[i] + Len(Pieces(f[i]))
    /\ \A j \in 1 .. Len(P) :
          \E i \in 1 .. Len(f), k \in 1 .. 2 : k <= Len(Pieces(f[i])) /\ j = at[i] + k
    /\ LongEntries = {} => Len(P) = Len(f) /\ \A i \in 1 .. Len(f) : at[i] = i - 1

LEMMA PiecesPlaced ==
    ASSUME NEW own, NEW f \in Seq(Items(own))
    PROVE  PiecesOf(f) \in Seq(Items(own)) /\ \E at : Placed(at, f, PiecesOf(f))
<1> DEFINE n == Len(f)
           ps == [i \in DOMAIN f |-> Pieces(f[i])]
           size(i) == Len(Pieces(f[i]))
<1>1. n \in Nat /\ DOMAIN f = 1 .. n /\ \A i \in 1 .. n : f[i] \in Items(own)
  BY LenProperties, ElementOfSeq
<1>2. Len(ps) = n /\ \A i \in 1 .. n : ps[i] = Pieces(f[i])
  BY <1>1
<1>3. PiecesOf(f) = FlattenSeq(ps)
  BY DEF PiecesOf
<1>4. CASE n = 0
  <2>1. 1 .. n = {}
    BY <1>4
  <2>2. ps = <<>>
    <3>1. ps = [i \in {} |-> Pieces(f[i])]
      BY <1>1, <2>1
    <3> QED
      BY <3>1
  <2> HIDE DEF ps
  <2>3. PiecesOf(f) = <<>>
    BY <1>2, <1>3, <1>4, <2>2 DEF FlattenSeq
  <2>4. Len(PiecesOf(f)) = 0 /\ 1 .. Len(PiecesOf(f)) = {} /\ PiecesOf(f) \in Seq(Items(own))
    BY <2>3
  <2>5. Placed(<<>>, f, PiecesOf(f))
    BY <1>4, <2>1, <2>4 DEF Placed
  <2> QED
    BY <2>4, <2>5
<1> HIDE DEF ps
<1>5. CASE n # 0
  <2>1. PICK flat : Joins(flat, ps) /\ FlattenSeq(ps) = flat[n]
    <3>1. Len(ps) \in Nat \ {0}
      BY <1>1, <1>2, <1>5
    <3> QED
      BY <1>2, <3>1, FlattenJoins
  <2>2. \A i \in 1 .. n : flat[i] = IF i = 1 THEN Pieces(f[i]) ELSE flat[i - 1] \o Pieces(f[i])
    BY <1>2, <2>1 DEF Joins
  <2>3. \A i \in 1 .. n : Pieces(f[i]) \in Seq(Items(own)) /\ size(i) \in {1, 2}
                          /\ (LongEntries = {} => size(i) = 1)
    <3> TAKE i \in 1 .. n
    <3>1. f[i] \in Items(own)
      BY <1>1
    <3>2. Pieces(f[i]) \in Seq(Items(own)) /\ size(i) \in {1, 2} /\ (LongEntries = {} => Pieces(f[i]) = <<f[i]>>)
      BY <3>1, PiecesOfLine
    <3> QED
      BY <3>2
  <2> HIDE DEF n, size
  <2> DEFINE
        at == [i \in 1 .. n |-> Len(flat[i]) - size(i)]
        Holds(i) == \A j \in 1 .. i, k \in 1 .. 2 :
                       k <= size(j) => at[j] + k \in 1 .. Len(flat[i]) /\ flat[i][at[j] + k] = Pieces(f[j])[k]
        Only(i) == \A l \in 1 .. Len(flat[i]) : \E j \in 1 .. i, k \in 1 .. 2 : k <= size(j) /\ l = at[j] + k
        Fine(i) == /\ flat[i] \in Seq(Items(own)) /\ at[i] \in Nat
                   /\ Holds(i) /\ Only(i)
                   /\ LongEntries = {} => Len(flat[i]) = i
        Bad == {i \in 1 .. n : ~ Fine(i)}
  <2>4. ASSUME NEW i \in 1 .. n, i + 1 \in 1 .. n, flat[i] \in Seq(Items(own))
        PROVE  /\ flat[i + 1] \in Seq(Items(own))
               /\ Len(flat[i + 1]) = Len(flat[i]) + size(i + 1)
               /\ at[i + 1] = Len(flat[i])
               /\ \A l \in 1 .. Len(flat[i]) : flat[i + 1][l] = flat[i][l]
               /\ \A k \in 1 .. size(i + 1) : flat[i + 1][Len(flat[i]) + k] = Pieces(f[i + 1])[k]
    <3>1. (i + 1) - 1 = i /\ i + 1 # 1 /\ Len(flat[i]) \in Nat
      BY <1>1, <2>4, LenProperties
    <3> DEFINE b == Pieces(f[i + 1])
               h == flat[i]
               m == Len(h)
    <3>2. flat[i + 1] = h \o b /\ b \in Seq(Items(own)) /\ Len(b) = size(i + 1) /\ size(i + 1) \in {1, 2}
      BY <2>2, <2>3, <2>4, <3>1 DEF size
    <3> HIDE DEF b, h
    <3>3. /\ h \o b \in Seq(Items(own)) /\ Len(h \o b) = Len(h) + Len(b)
          /\ \A k \in 1 .. Len(h) + Len(b) : (h \o b)[k] = IF k <= Len(h) THEN h[k] ELSE b[k - Len(h)]
      BY <2>4, <3>2, ConcatProperties DEF h
    <3>4. m \in Nat /\ size(i + 1) \in Nat
      BY <3>1, <3>2 DEF h
    <3> HIDE DEF m
    <3>5. \A l \in 1 .. m : flat[i + 1][l] = h[l]
      <4> TAKE l \in 1 .. m
      <4>1. l \in 1 .. m + size(i + 1) /\ l <= m
        BY <3>4
      <4> QED
        BY <3>2, <3>3, <4>1 DEF m
    <3>6. \A k \in 1 .. size(i + 1) : flat[i + 1][m + k] = b[k]
      <4> TAKE k \in 1 .. size(i + 1)
      <4>1. m + k \in 1 .. m + size(i + 1) /\ ~ (m + k <= m) /\ (m + k) - m = k
        BY <3>4
      <4> QED
        BY <3>2, <3>3, <4>1 DEF m
    <3>7. at[i + 1] = m
      <4>1. Len(flat[i + 1]) = m + size(i + 1)
        BY <3>2, <3>3 DEF m
      <4> QED
        BY <2>4, <3>4, <4>1
    <3> QED
      BY <3>2, <3>3, <3>5, <3>6, <3>7 DEF m, h, b
  <2>5. Fine(1)
    <3>1. 1 \in 1 .. n /\ flat[1] = Pieces(f[1])
      BY <1>1, <1>5, <2>2 DEF n
    <3>2. flat[1] \in Seq(Items(own)) /\ Len(flat[1]) = size(1) /\ size(1) \in {1, 2} /\ (LongEntries = {} => size(1) = 1)
      BY <2>3, <3>1 DEF size
    <3>3. at[1] = 0
      BY <3>1, <3>2
    <3> HIDE DEF at
    <3>4. \A j \in 1 .. 1 : j = 1
      OBVIOUS
    <3>5. \A k \in 1 .. 2 : k <= size(1) => 0 + k \in 1 .. size(1) /\ 0 + k = k
      BY <3>2
    <3>6. Holds(1)
      BY <3>1, <3>2, <3>3, <3>4, <3>5
    <3>7. \A l \in 1 .. size(1) : l \in 1 .. 2 /\ l <= size(1) /\ l = 0 + l
      BY <3>2
    <3>8. Only(1)
      <4> TAKE l \in 1 .. Len(flat[1])
      <4>1. l \in 1 .. 2 /\ l <= size(1) /\ l = at[1] + l
        BY <3>2, <3>3, <3>7
      <4>2. 1 \in 1 .. 1
        OBVIOUS
      <4> QED
        BY <4>1, <4>2
    <3> QED
      BY <3>2, <3>3, <3>6, <3>8
  <2>6. ASSUME NEW i \in 1 .. n, i + 1 \in 1 .. n, Fine(i) PROVE Fine(i + 1)
    <3> DEFINE m == Len(flat[i])
    <3>1. /\ flat[i + 1] \in Seq(Items(own)) /\ Len(flat[i + 1]) = m + size(i + 1) /\ at[i + 1] = m
          /\ \A l \in 1 .. m : flat[i + 1][l] = flat[i][l]
          /\ \A k \in 1 .. size(i + 1) : flat[i + 1][m + k] = Pieces(f[i + 1])[k]
      BY <2>4, <2>6
    <3>2. m \in Nat /\ size(i + 1) \in {1, 2} /\ i \in Nat /\ (LongEntries = {} => size(i + 1) = 1)
      BY <1>1, <2>3, <2>6, LenProperties DEF n
    <3>3. Holds(i) /\ Only(i) /\ (LongEntries = {} => m = i)
      BY <2>6
    <3> HIDE DEF at, m
    <3>4. \A j \in 1 .. i + 1 : j \in 1 .. i \/ j = i + 1
      BY <3>2
    <3>5. Holds(i + 1)
      <4> SUFFICES ASSUME NEW j \in 1 .. i + 1, NEW k \in 1 .. 2, k <= size(j)
                   PROVE  at[j] + k \in 1 .. Len(flat[i + 1]) /\ flat[i + 1][at[j] + k] = Pieces(f[j])[k]
        OBVIOUS
      <4>1. CASE j \in 1 .. i
        <5>1. at[j] + k \in 1 .. m /\ flat[i][at[j] + k] = Pieces(f[j])[k]
          BY <3>3, <4>1 DEF m
        <5>2. \A l \in 1 .. m : l \in 1 .. m + size(i + 1)
          BY <3>2
        <5> QED
          BY <3>1, <5>1, <5>2
      <4>2. CASE j = i + 1
        <5>1. k \in 1 .. size(i + 1) /\ m + k \in 1 .. m + size(i + 1)
          BY <3>2, <4>2
        <5> QED
          BY <3>1, <4>2, <5>1
      <4> QED
        BY <3>4, <4>1, <4>2
    <3>6. Only(i + 1)
      <4> SUFFICES ASSUME NEW l \in 1 .. m + size(i + 1)
                   PROVE  \E j \in 1 .. i + 1, k \in 1 .. 2 : k <= size(j) /\ l = at[j] + k
        BY <3>1
      <4>1. CASE l \in 1 .. m
        <5>1. PICK j \in 1 .. i, k \in 1 .. 2 : k <= size(j) /\ l = at[j] + k
          BY <3>3, <4>1 DEF m
        <5>2. j \in 1 .. i + 1
          BY <3>2
        <5> QED
          BY <5>1, <5>2
      <4>2. CASE ~ (l \in 1 .. m)
        <5>1. i + 1 \in 1 .. i + 1 /\ l - m \in 1 .. 2 /\ l - m <= size(i + 1) /\ l = m + (l - m)
          BY <3>2, <4>2
        <5> QED
          BY <3>1, <5>1
      <4> QED
        BY <4>1, <4>2
    <3>7. LongEntries = {} => Len(flat[i + 1]) = i + 1
      BY <3>1, <3>2, <3>3
    <3>8. at[i + 1] \in Nat
      BY <3>1, <3>2
    <3> QED
      BY <3>1, <3>5, <3>6, <3>7, <3>8
  <2> HIDE DEF Fine
  <2>7. Bad = {}
    <3> SUFFICES ASSUME Bad # {} PROVE FALSE
      OBVIOUS
    <3>1. PICK i \in Bad : \A k \in Bad : i <= k
      <4>1. Bad \in SUBSET Nat
        BY <1>1 DEF n
      <4> HIDE DEF Bad
      <4> QED
        BY <4>1, SmallestOf
    <3>2. i \in 1 .. n /\ i # 1
      BY <2>5, <3>1
    <3>3. i - 1 \in 1 .. n /\ (i - 1) + 1 = i /\ ~ (i <= i - 1)
      BY <1>1, <3>2 DEF n
    <3>4. Fine(i - 1)
      BY <3>1, <3>3
    <3>5. Fine((i - 1) + 1)
      BY <2>6, <3>2, <3>3, <3>4
    <3> QED
      BY <3>1, <3>3, <3>5
  <2>8. \A i \in 1 .. n : Fine(i)
    BY <2>7
  <2>9. n \in 1 .. n /\ PiecesOf(f) = flat[n]
    BY <1>1, <1>3, <1>5, <2>1 DEF n
  <2>10. \A i \in 1 .. n : i + 1 \in 1 .. n => at[i + 1] = at[i] + size(i)
    <3> SUFFICES ASSUME NEW i \in 1 .. n, i + 1 \in 1 .. n PROVE at[i + 1] = at[i] + size(i)
      OBVIOUS
    <3>1. flat[i] \in Seq(Items(own)) /\ size(i) \in {1, 2}
      BY <2>3, <2>8 DEF Fine
    <3>2. at[i + 1] = Len(flat[i]) /\ Len(flat[i]) \in Nat
      BY <2>4, <3>1, LenProperties
    <3> QED
      BY <3>1, <3>2
  <2>11. LongEntries = {} => \A i \in 1 .. n : at[i] = i - 1
    <3> SUFFICES ASSUME LongEntries = {}, NEW i \in 1 .. n PROVE at[i] = i - 1
      OBVIOUS
    <3>1. Len(flat[i]) = i /\ size(i) = 1
      BY <2>3, <2>8 DEF Fine
    <3> QED
      BY <3>1
  <2>12. Fine(n) /\ \A i \in 1 .. n : at[i] \in Nat
    BY <2>8, <2>9 DEF Fine
  <2> HIDE DEF at
  <2>13. Placed(at, f, flat[n])
    BY <2>10, <2>11, <2>12 DEF Placed, Fine, n, size
  <2> QED
    BY <2>9, <2>12, <2>13 DEF Fine
<1> QED
  BY <1>4, <1>5

(* The pieces stand in the order of the lines.                              *)
LEMMA PlacedUpwards ==
    ASSUME NEW own, NEW f \in Seq(Items(own)), NEW at, NEW P, Placed(at, f, P)
    PROVE  \A i, k \in 1 .. Len(f) : i < k => at[i] < at[k]
<1> DEFINE n == Len(f)
           Bad == {k \in 1 .. n : \E i \in 1 .. n : i < k /\ ~ (at[i] < at[k])}
<1>1. n \in Nat /\ \A i \in 1 .. n : Len(Pieces(f[i])) \in {1, 2}
  <2>1. n \in Nat /\ \A i \in 1 .. n : f[i] \in Items(own)
    BY LenProperties, ElementOfSeq
  <2> QED
    BY <2>1, PiecesOfLine
<1>2. /\ \A i \in 1 .. n : at[i] \in Nat
      /\ \A i \in 1 .. n : i + 1 \in 1 .. n => at[i + 1] = at[i] + Len(Pieces(f[i]))
  BY DEF Placed
<1> HIDE DEF n
<1>3. ASSUME Bad # {} PROVE FALSE
  <2>1. PICK k \in Bad : \A l \in Bad : k <= l
    <3>1. Bad \in SUBSET Nat
      OBVIOUS
    <3> HIDE DEF Bad
    <3> QED
      BY <1>3, <3>1, SmallestOf
  <2>2. PICK i \in 1 .. n : i < k /\ ~ (at[i] < at[k])
    BY <2>1
  <2>3. k - 1 \in 1 .. n /\ (k - 1) + 1 = k /\ k \in 1 .. n /\ ~ (k <= k - 1)
    BY <1>1, <2>1, <2>2
  <2>4. at[k] = at[k - 1] + Len(Pieces(f[k - 1]))
    BY <1>2, <2>3
  <2>5. at[k - 1] < at[k] /\ at[k - 1] \in Nat /\ at[k] \in Nat /\ at[i] \in Nat
    <3>1. Len(Pieces(f[k - 1])) \in {1, 2}
      BY <1>1, <2>3
    <3>2. at[k - 1] \in Nat /\ at[k] \in Nat /\ at[i] \in Nat
      BY <1>2, <2>2, <2>3
    <3> DEFINE a == at[k - 1]
               b == at[k]
               size == Len(Pieces(f[k - 1]))
    <3>3. a \in Nat /\ b \in Nat /\ size \in {1, 2} /\ b = a + size
      BY <2>4, <3>1, <3>2
    <3> HIDE DEF a, b, size
    <3>4. a < b
      BY <3>3
    <3> QED
      BY <3>2, <3>4 DEF a, b
  <2>6. i # k - 1
    BY <2>2, <2>5
  <2>7. i < k - 1
    BY <1>1, <2>2, <2>3, <2>6
  <2>8. at[i] < at[k - 1]
    BY <2>1, <2>3, <2>7
  <2> QED
    BY <2>2, <2>5, <2>8
<1>4. \A k \in 1 .. n : k \notin Bad
  BY <1>3
<1> QED
  BY <1>4 DEF n

(* Every entry stands behind the marker of its package.                     *)
Preceded(f) ==
    \A i \in 1 .. Len(f) : f[i].kind = "entry" => i > 1 /\ f[i - 1] = Marker(f[i].of)

(* A package has one marker at most, and no piece of one behind it.         *)
Begins(p) == {Marker(p), MenuLine(<<p>>)}

Alone(f, p) ==
    \A i, j \in 1 .. Len(f) : i < j /\ f[i] = Marker(p) => f[j] \notin Begins(p)

(* Reading LAUNCHER.CFG loses no marker, makes no second one, and parts     *)
(* none from its entry.                                                     *)
LEMMA PiecesKeep ==
    ASSUME NEW own, NEW f \in Seq(Items(own))
    PROVE  /\ PiecesOf(f) \in Seq(Items(own))
           /\ Followed(f) => Followed(PiecesOf(f))
           /\ Preceded(f) => Preceded(PiecesOf(f))
           /\ \A p : Alone(f, p) => Alone(PiecesOf(f), p)
           /\ \A q : HasMarker(PiecesOf(f), q) <=> HasMarker(f, q)
           /\ LongEntries = {} => PiecesOf(f) = f
<1> DEFINE P == PiecesOf(f)
           n == Len(f)
           m == Len(P)
           size(i) == Len(Pieces(f[i]))
<1>1. /\ n \in Nat /\ DOMAIN f = 1 .. n /\ \A i \in 1 .. n : f[i] \in Items(own)
      /\ P \in Seq(Items(own)) /\ m \in Nat /\ DOMAIN P = 1 .. m
  BY PiecesPlaced, LenProperties, ElementOfSeq
<1>2. PICK at : Placed(at, f, P)
  BY PiecesPlaced
<1> HIDE DEF P, n, m
<1>3. /\ \A i \in 1 .. n, k \in 1 .. 2 :
            k <= size(i) => at[i] + k \in 1 .. m /\ P[at[i] + k] = Pieces(f[i])[k]
      /\ \A i \in 1 .. n : at[i] \in Nat
      /\ \A i \in 1 .. n : i + 1 \in 1 .. n => at[i + 1] = at[i] + size(i)
      /\ \A j \in 1 .. m : \E i \in 1 .. n, k \in 1 .. 2 : k <= size(i) /\ j = at[i] + k
      /\ LongEntries = {} => m = n /\ \A i \in 1 .. n : at[i] = i - 1
  BY <1>2 DEF Placed, n, m
<1>4. \A i \in 1 .. n :
         /\ size(i) \in {1, 2}
         /\ \A k \in 1 .. size(i) :
               Pieces(f[i])[k].kind \in {"marker", "entry", "user"} => size(i) = 1 /\ Pieces(f[i])[1] = f[i]
         /\ f[i].kind = "marker" => Pieces(f[i]) = <<f[i]>>
         /\ LongEntries = {} => Pieces(f[i]) = <<f[i]>>
         /\ \A l : Follows(f[i], l) => Follows(Pieces(f[i])[1], l)
  <2> TAKE i \in 1 .. n
  <2>1. f[i] \in Items(own)
    BY <1>1
  <2> QED
    BY <2>1, PiecesOfLine
<1> HIDE DEF size
(* A marker, an entry or a piece of one that was read is a line of f.       *)
<1>5. ASSUME NEW j \in 1 .. m, P[j].kind \in {"marker", "entry", "user"}
      PROVE  \E i \in 1 .. n : size(i) = 1 /\ at[i] + 1 = j /\ P[j] = f[i]
  <2>1. PICK i \in 1 .. n, k \in 1 .. 2 : k <= size(i) /\ j = at[i] + k
    BY <1>3
  <2>2. P[j] = Pieces(f[i])[k] /\ k \in 1 .. size(i)
    BY <1>3, <1>4, <2>1
  <2>3. size(i) = 1 /\ Pieces(f[i])[1] = f[i]
    BY <1>4, <1>5, <2>2
  <2>4. k = 1
    BY <2>1, <2>3
  <2> QED
    BY <2>1, <2>2, <2>3, <2>4
(* Every marker of f is read.                                               *)
<1>6. ASSUME NEW i \in 1 .. n, f[i].kind = "marker"
      PROVE  size(i) = 1 /\ at[i] + 1 \in 1 .. m /\ P[at[i] + 1] = f[i]
  <2>1. Pieces(f[i]) = <<f[i]>>
    BY <1>4, <1>6
  <2>2. size(i) = 1 /\ Pieces(f[i])[1] = f[i]
    BY <2>1 DEF size
  <2>3. 1 \in 1 .. 2 /\ 1 <= size(i)
    BY <2>2
  <2> QED
    BY <1>3, <2>2, <2>3
<1>7. ASSUME Followed(f) PROVE Followed(P)
  <2> SUFFICES ASSUME NEW j \in 1 .. m, P[j].kind = "marker"
               PROVE  j < m /\ Follows(P[j + 1], P[j])
    BY DEF Followed, m
  <2>1. PICK i \in 1 .. n : size(i) = 1 /\ at[i] + 1 = j /\ P[j] = f[i]
    BY <1>5
  <2>2. i < n /\ Follows(f[i + 1], f[i])
    BY <1>7, <2>1 DEF Followed, n
  <2>3. i + 1 \in 1 .. n
    BY <1>1, <2>2
  <2>4. at[i + 1] = j /\ size(i + 1) \in {1, 2} /\ 1 \in 1 .. 2
    BY <1>3, <1>4, <2>1, <2>3
  <2>5. j + 1 \in 1 .. m /\ P[j + 1] = Pieces(f[i + 1])[1]
    <3>1. 1 <= size(i + 1)
      BY <2>4
    <3> QED
      BY <1>3, <2>3, <2>4, <3>1
  <2>6. j < m
    BY <1>1, <2>5
  <2> QED
    BY <1>4, <2>1, <2>2, <2>3, <2>5, <2>6
<1>8. ASSUME Preceded(f) PROVE Preceded(P)
  <2> SUFFICES ASSUME NEW j \in 1 .. m, P[j].kind = "entry"
               PROVE  j > 1 /\ P[j - 1] = Marker(P[j].of)
    BY DEF Preceded, m
  <2>1. PICK i \in 1 .. n : size(i) = 1 /\ at[i] + 1 = j /\ P[j] = f[i]
    BY <1>5
  <2>2. i > 1 /\ f[i - 1] = Marker(f[i].of)
    BY <1>8, <2>1 DEF Preceded, n
  <2>3. i - 1 \in 1 .. n /\ (i - 1) + 1 = i /\ f[i - 1].kind = "marker"
    BY <1>1, <2>2, ItemsOf
  <2>4. size(i - 1) = 1 /\ at[i - 1] + 1 \in 1 .. m /\ P[at[i - 1] + 1] = f[i - 1]
    BY <1>6, <2>3
  <2>5. at[i] = at[i - 1] + 1
    BY <1>3, <2>3, <2>4
  <2>6. j - 1 = at[i] /\ j > 1
    BY <1>3, <2>1, <2>3, <2>4, <2>5
  <2> QED
    BY <2>1, <2>2, <2>4, <2>5, <2>6
<1>9. ASSUME NEW p, Alone(f, p) PROVE Alone(P, p)
  <2> SUFFICES ASSUME NEW j \in 1 .. m, NEW l \in 1 .. m, j < l, P[j] = Marker(p), P[l] \in Begins(p)
               PROVE  FALSE
    BY DEF Alone, m
  <2>1. P[j].kind = "marker" /\ P[l].kind \in {"marker", "user"}
    BY ItemsOf DEF Begins, MenuLine
  <2>2. PICK i \in 1 .. n : size(i) = 1 /\ at[i] + 1 = j /\ P[j] = f[i]
    BY <1>5, <2>1
  <2>3. PICK k \in 1 .. n : size(k) = 1 /\ at[k] + 1 = l /\ P[l] = f[k]
    BY <1>5, <2>1
  <2>4. ~ (i < k)
    BY <1>9, <2>2, <2>3 DEF Alone, n
  <2>5. \A x, y \in 1 .. n : x < y => at[x] < at[y]
    BY <1>1, <1>2, PlacedUpwards DEF n
  <2>6. i # k /\ at[i] \in Nat /\ at[k] \in Nat
    BY <1>3, <2>2, <2>3
  <2>7. k < i
    BY <1>1, <2>4, <2>6
  <2> QED
    BY <2>2, <2>3, <2>5, <2>6, <2>7
<1>10. ASSUME NEW q PROVE HasMarker(P, q) <=> HasMarker(f, q)
  <2>1. ASSUME HasMarker(P, q) PROVE HasMarker(f, q)
    <3>1. PICK j \in 1 .. m : P[j] = Marker(q)
      BY <1>1, <2>1 DEF HasMarker
    <3>2. PICK i \in 1 .. n : P[j] = f[i]
      BY <1>5, <3>1, ItemsOf
    <3> QED
      BY <1>1, <3>1, <3>2 DEF HasMarker
  <2>2. ASSUME HasMarker(f, q) PROVE HasMarker(P, q)
    <3>1. PICK i \in 1 .. n : f[i] = Marker(q)
      BY <1>1, <2>2 DEF HasMarker
    <3>2. at[i] + 1 \in 1 .. m /\ P[at[i] + 1] = f[i]
      BY <1>6, <3>1, ItemsOf
    <3> QED
      BY <1>1, <3>1, <3>2 DEF HasMarker
  <2> QED
    BY <2>1, <2>2
<1>11. ASSUME LongEntries = {} PROVE P = f
  <2>1. \A i \in 1 .. n : P[i] = f[i]
    <3> TAKE i \in 1 .. n
    <3>1. Pieces(f[i]) = <<f[i]>> /\ at[i] + 1 = i
      BY <1>1, <1>3, <1>4, <1>11
    <3>2. size(i) = 1 /\ Pieces(f[i])[1] = f[i]
      BY <3>1 DEF size
    <3>3. 1 \in 1 .. 2 /\ 1 <= size(i)
      BY <3>2
    <3> QED
      BY <1>3, <3>1, <3>2, <3>3
  <2>2. m = n
    BY <1>3, <1>11
  <2> QED
    BY <1>1, <2>1, <2>2, SeqEqual DEF n, m
<1> QED
  BY <1>1, <1>7, <1>8, <1>9, <1>10, <1>11 DEF P

(* The pieces of the user and of other packages than p.                     *)
Others(f, p) == Picked(f, {i \in DOMAIN f : f[i].kind = "user" \/ f[i].of # p})

(* Nor does the removal make a second marker of a package.                  *)
LEMMA LauncherAlone ==
    ASSUME NEW own, NEW f \in Seq(Items(own)), NEW p
    PROVE  /\ StripLauncher(f, p) \in Seq(Items(own))
           /\ \A q : Alone(f, q) => Alone(StripLauncher(f, p), q)
<1> DEFINE P == PiecesOf(f)
           S == {i \in DOMAIN P : P[i] # Marker(p) /\ (i > 1 => P[i - 1] # Marker(p))}
<1>1. P \in Seq(Items(own)) /\ S \in SUBSET DOMAIN P /\ DOMAIN P = 1 .. Len(P)
      /\ Len(P) \in Nat /\ \A q : Alone(f, q) => Alone(P, q)
  BY PiecesKeep, LenProperties
<1>2. StripLauncher(f, p) = Picked(P, S)
  BY DEF StripLauncher
<1> HIDE DEF P, S
<1>3. PICK ks : /\ Lists(ks, S) /\ Len(ks) \in Nat /\ \A k \in 1 .. Len(ks) : ks[k] \in S
                /\ Picked(P, S) \in Seq(Items(own)) /\ Len(Picked(P, S)) = Len(ks)
                /\ \A k \in 1 .. Len(ks) : Picked(P, S)[k] = P[ks[k]]
  BY <1>1, PickedAt
<1>4. \A k \in 1 .. Len(ks) : ks[k] \in 1 .. Len(P) /\ ks[k] \in Nat
  BY <1>1, <1>3
<1>5. \A j, k \in 1 .. Len(ks) : j < k => ks[j] < ks[k]
  BY <1>3 DEF Lists
<1>6. ASSUME NEW q, Alone(P, q), NEW j \in 1 .. Len(ks), NEW k \in 1 .. Len(ks), j < k,
             P[ks[j]] = Marker(q)
      PROVE  P[ks[k]] \notin Begins(q)
  BY <1>4, <1>5, <1>6 DEF Alone
<1>7. \A q : Alone(P, q) => Alone(Picked(P, S), q)
  BY <1>3, <1>6 DEF Alone
<1> QED
  BY <1>1, <1>2, <1>3, <1>7

(* nos_install_remove_launcher takes the two lines of p; with entries that  *)
(* fit the buffer, or where every entry stands behind its marker, nothing   *)
(* else.                                                                    *)
LEMMA LauncherWithout ==
    ASSUME NEW own, NEW f \in Seq(Items(own)), Followed(f), NEW p
    PROVE  LET g == StripLauncher(f, p)
           IN  /\ g \in Seq(Items(own)) /\ Followed(g) /\ ~ HasMarker(g, p)
               /\ \A q \in Ids \ {p} : HasMarker(g, q) <=> HasMarker(f, q)
               /\ LongEntries = {} => Rest(g, MenuLinesOf(p)) = Rest(f, MenuLinesOf(p))
               /\ Preceded(f) => Preceded(g)
               /\ Preceded(f) /\ p \notin LongEntries => g = Others(PiecesOf(f), p)
<1> DEFINE P == PiecesOf(f)
           S == {i \in DOMAIN P : P[i] # Marker(p) /\ (i > 1 => P[i - 1] # Marker(p))}
           g == StripLauncher(f, p)
           m == Len(P)
           n == Len(g)
<1>1. /\ P \in Seq(Items(own)) /\ Followed(P)
      /\ LongEntries = {} => P = f
      /\ Preceded(f) => Preceded(P)
      /\ \A q : HasMarker(P, q) <=> HasMarker(f, q)
  BY PiecesKeep
<1>2. g = Picked(P, S)
  BY DEF StripLauncher
<1> HIDE DEF P, g
<1>3. m \in Nat /\ DOMAIN P = 1 .. m /\ \A i \in 1 .. m : P[i] \in Items(own)
  BY <1>1, LenProperties, ElementOfSeq
<1>4. /\ \A i \in 1 .. m : P[i].kind = "marker" => i + 1 \in 1 .. m /\ Follows(P[i + 1], P[i])
  BY <1>1, <1>3 DEF Followed
<1> HIDE DEF m
<1>5. /\ S \in SUBSET DOMAIN P /\ S \in SUBSET Nat
      /\ \A i \in 1 .. m : i \in S <=> P[i] # Marker(p) /\ (i > 1 => P[i - 1] # Marker(p))
  BY <1>3
<1> HIDE DEF S
<1>6. PICK ks : /\ Lists(ks, S) /\ Len(ks) \in Nat /\ \A k \in 1 .. Len(ks) : ks[k] \in S
                /\ g \in Seq(Items(own)) /\ Len(g) = Len(ks) /\ DOMAIN g = 1 .. Len(ks)
                /\ \A k \in 1 .. Len(ks) : g[k] = P[ks[k]]
  <2>1. P \in Seq(Items(own)) /\ S \in SUBSET DOMAIN P /\ S \in SUBSET Nat
    BY <1>1, <1>5
  <2> HIDE DEF n
  <2>2. PICK ks : /\ Lists(ks, S) /\ Len(ks) \in Nat /\ \A k \in 1 .. Len(ks) : ks[k] \in S
                  /\ Picked(P, S) \in Seq(Items(own)) /\ Len(Picked(P, S)) = Len(ks)
                  /\ DOMAIN Picked(P, S) = 1 .. Len(ks)
                  /\ \A k \in 1 .. Len(ks) : Picked(P, S)[k] = P[ks[k]]
    BY <2>1, PickedAt
  <2> WITNESS ks
  <2> QED
    BY <1>2, <2>2
<1>7. /\ n \in Nat /\ n = Len(ks) /\ DOMAIN g = 1 .. n
      /\ \A k \in 1 .. n : ks[k] \in S /\ ks[k] \in 1 .. m /\ ks[k] \in Nat /\ g[k] = P[ks[k]]
      /\ \A i \in S : \E k \in 1 .. n : ks[k] = i
  BY <1>3, <1>5, <1>6 DEF Lists
<1> HIDE DEF n
<1>8. ~ HasMarker(g, p)
  BY <1>5, <1>7 DEF HasMarker
<1>9. ASSUME NEW i \in 1 .. m, P[i].kind = "marker", P[i] # Marker(p)
      PROVE  i \in S /\ i + 1 \in S /\ Follows(P[i + 1], P[i])
  <2>1. i + 1 \in 1 .. m /\ Follows(P[i + 1], P[i]) /\ (i + 1) - 1 = i
    BY <1>3, <1>4, <1>9
  <2>2. P[i + 1] # Marker(p)
    BY <2>1, ItemsOf DEF Follows
  <2>3. ASSUME i > 1 PROVE P[i - 1] # Marker(p)
    <3>1. i - 1 \in 1 .. m /\ (i - 1) + 1 = i
      BY <1>3, <2>3
    <3>2. P[i - 1].kind = "marker" => Follows(P[(i - 1) + 1], P[i - 1])
      BY <1>4, <3>1
    <3>3. P[i - 1].kind # "marker"
      BY <1>9, <3>1, <3>2 DEF Follows
    <3> QED
      BY <3>3, ItemsOf
  <2> QED
    BY <1>5, <1>9, <2>1, <2>2, <2>3
<1>10. Followed(g)
  <2> SUFFICES ASSUME NEW k \in 1 .. n, g[k].kind = "marker"
               PROVE  k < n /\ Follows(g[k + 1], g[k])
    BY DEF Followed, n
  <2> DEFINE i == ks[k]
  <2>1. i \in 1 .. m /\ i \in S /\ g[k] = P[i]
    BY <1>7
  <2>2. P[i] # Marker(p) /\ P[i].kind = "marker"
    BY <1>5, <2>1
  <2>3. i + 1 \in S /\ Follows(P[i + 1], P[i])
    BY <1>9, <2>1, <2>2
  <2>4. k + 1 \in 1 .. n /\ ks[k + 1] = i + 1
    <3>1. k \in 1 .. Len(ks)
      BY <1>7
    <3>2. ks[k] + 1 \in S /\ S \in SUBSET Nat /\ Lists(ks, S)
      BY <1>5, <1>6, <2>3
    <3>3. k + 1 \in 1 .. Len(ks) /\ ks[k + 1] = ks[k] + 1
      BY <3>1, <3>2, ListNext
    <3> QED
      BY <1>7, <3>3
  <2>5. g[k + 1] = P[i + 1]
    BY <1>7, <2>4
  <2> HIDE DEF i
  <2> QED
    BY <1>7, <2>1, <2>3, <2>4, <2>5
<1>11. ASSUME NEW q \in Ids \ {p} PROVE HasMarker(g, q) <=> HasMarker(f, q)
  <2>1. ASSUME HasMarker(g, q) PROVE HasMarker(P, q)
    BY <1>3, <1>7, <2>1 DEF HasMarker
  <2>2. ASSUME HasMarker(P, q) PROVE HasMarker(g, q)
    <3>1. PICK i \in 1 .. m : P[i] = Marker(q)
      BY <1>3, <2>2 DEF HasMarker
    <3>2. P[i].kind = "marker" /\ P[i] # Marker(p)
      BY <3>1, ItemsOf
    <3>3. PICK k \in 1 .. n : ks[k] = i
      BY <1>7, <1>9, <3>2
    <3> QED
      BY <1>7, <3>1, <3>3 DEF HasMarker
  <2> QED
    BY <1>1, <2>1, <2>2
<1>12. ASSUME LongEntries = {} PROVE Rest(g, MenuLinesOf(p)) = Rest(f, MenuLinesOf(p))
  <2>1. \A i \in DOMAIN P : i \notin S => P[i] \in MenuLinesOf(p)
    <3> SUFFICES ASSUME NEW i \in 1 .. m, i \notin S, P[i] # Marker(p) PROVE P[i] = MenuEntry(p)
      BY <1>3 DEF MenuLinesOf
    <3>1. i > 1 /\ P[i - 1] = Marker(p)
      BY <1>5
    <3>2. i - 1 \in 1 .. m /\ (i - 1) + 1 = i /\ P[i - 1].kind = "marker"
      BY <1>3, <3>1, ItemsOf
    <3>3. Follows(P[i], P[i - 1])
      BY <1>4, <3>2
    <3>4. P[i].kind = "entry" /\ P[i].of = p
      BY <1>12, <3>1, <3>3, ItemsOf DEF Follows
    <3> QED
      BY <1>3, <3>4, ItemsOf
  <2>2. Rest(g, MenuLinesOf(p)) = Rest(P, MenuLinesOf(p))
    BY <1>1, <1>2, <1>5, <2>1, RestOfPicked
  <2> QED
    BY <1>1, <1>12, <2>2
<1>13. ASSUME Preceded(f) PROVE Preceded(g)
  <2> SUFFICES ASSUME NEW l \in 1 .. n, g[l].kind = "entry"
               PROVE  l > 1 /\ g[l - 1] = Marker(g[l].of)
    BY DEF Preceded, n
  <2> DEFINE i == ks[l]
  <2>1. i \in 1 .. m /\ i \in S /\ g[l] = P[i]
    BY <1>7
  <2>2. i > 1 /\ P[i - 1] = Marker(P[i].of)
    BY <1>1, <1>13, <2>1 DEF Preceded, m
  <2>3. i - 1 \in 1 .. m /\ (i - 1) + 1 = i /\ P[i - 1].kind = "marker"
    BY <1>3, <2>1, <2>2, ItemsOf
  <2>4. P[i - 1] # Marker(p)
    BY <1>5, <2>1, <2>2
  <2>5. i - 1 \in S
    BY <1>9, <2>3, <2>4
  <2>6. PICK k \in 1 .. n : ks[k] = i - 1
    BY <1>7, <2>5
  <2>7. k + 1 \in 1 .. Len(ks) /\ ks[k + 1] = i
    <3>1. k \in 1 .. Len(ks) /\ ks[k] + 1 \in S /\ S \in SUBSET Nat /\ Lists(ks, S)
      BY <1>5, <1>6, <1>7, <2>1, <2>3, <2>6
    <3> QED
      BY <2>3, <2>6, <3>1, ListNext
  <2>8. l = k + 1
    <3>1. \A x, y \in 1 .. n : x < y => ks[x] < ks[y]
      BY <1>6, <1>7 DEF Lists
    <3>2. ~ (i < i)
      BY <2>3
    <3> QED
      BY <1>7, <2>7, <3>1, <3>2
  <2>9. l > 1 /\ l - 1 = k
    BY <2>8
  <2> HIDE DEF i
  <2> QED
    BY <1>7, <2>1, <2>2, <2>6, <2>9
<1>14. ASSUME Preceded(f), p \notin LongEntries PROVE g = Others(P, p)
  <2>1. \A i \in 1 .. m : i \in S <=> P[i].kind = "user" \/ P[i].of # p
    <3> TAKE i \in 1 .. m
    <3>1. ASSUME P[i].kind # "user", P[i].of = p, P[i] # Marker(p)
          PROVE  i > 1 /\ P[i - 1] = Marker(p)
      <4>1. P[i] \in Items(own) /\ P[i].kind # "marker"
        BY <1>3, <3>1, ItemsOf
      <4>2. P[i].kind = "entry"
        BY <1>14, <3>1, <4>1 DEF Items
      <4> QED
        BY <1>1, <1>14, <3>1, <4>2 DEF Preceded, m
    <3>2. ASSUME i > 1, P[i - 1] = Marker(p)
          PROVE  P[i].kind # "user" /\ P[i].of = p
      <4>1. i - 1 \in 1 .. m /\ (i - 1) + 1 = i /\ P[i - 1].kind = "marker"
        BY <1>3, <3>2, ItemsOf
      <4>2. Follows(P[i], P[i - 1])
        BY <1>4, <4>1
      <4> QED
        BY <3>2, <4>2, ItemsOf DEF Follows
    <3>3. Marker(p).kind # "user" /\ Marker(p).of = p
      BY ItemsOf
    <3> QED
      BY <1>5, <3>1, <3>2, <3>3
  <2>2. S = {i \in DOMAIN P : P[i].kind = "user" \/ P[i].of # p}
    BY <1>3, <1>5, <2>1
  <2> QED
    BY <1>2, <2>2 DEF Others
<1> QED
  BY <1>6, <1>8, <1>10, <1>11, <1>12, <1>13, <1>14 DEF g, P

(* nos_install_register_launcher adds a marker with its entry.              *)
LEMMA LauncherWith ==
    ASSUME NEW own, NEW f \in Seq(Items(own)), NEW p \in Ids
    PROVE  LET g == f \o Registration(p)
           IN  /\ g \in Seq(Items(own))
               /\ Followed(f) => Followed(g)
               /\ Preceded(f) => Preceded(g)
               /\ \A q : HasMarker(g, q) <=> HasMarker(f, q) \/ q = p
               /\ Rest(g, MenuLinesOf(p)) = Rest(f, MenuLinesOf(p))
<1> DEFINE g == f \o Registration(p)
           n == Len(f)
           b == Registration(p)
<1>1. /\ b \in Seq(Items(own)) /\ Len(b) = 2 /\ b[1] = Marker(p) /\ b[2] = MenuEntry(p)
  <2>1. Marker(p) \in Items(own) /\ MenuEntry(p) \in Items(own)
    BY DEF Marker, MenuEntry, Items
  <2> QED
    BY <2>1 DEF Registration
<1>2. n \in Nat /\ DOMAIN f = 1 .. n
  BY LenProperties
<1>3. g = f \o b
  OBVIOUS
<1> HIDE DEF b, g
<1>4. /\ g \in Seq(Items(own)) /\ Len(g) = Len(f) + Len(b)
      /\ \A i \in 1 .. Len(f) + Len(b) : g[i] = IF i <= Len(f) THEN f[i] ELSE b[i - Len(f)]
  <2>1. /\ f \o b \in Seq(Items(own)) /\ Len(f \o b) = Len(f) + Len(b)
        /\ \A i \in 1 .. Len(f) + Len(b) : (f \o b)[i] = IF i <= Len(f) THEN f[i] ELSE b[i - Len(f)]
    BY <1>1, ConcatProperties
  <2> QED
    BY <1>3, <2>1
<1>5. /\ Len(g) = n + 2 /\ \A i \in 1 .. n : g[i] = f[i]
      /\ g[n + 1] = Marker(p) /\ g[n + 2] = MenuEntry(p)
  <2>1. \A i \in 1 .. n + 2 : g[i] = IF i <= n THEN f[i] ELSE b[i - n]
    BY <1>1, <1>4
  <2> HIDE DEF n
  <2>2. n + 1 \in 1 .. n + 2 /\ n + 2 \in 1 .. n + 2 /\ ~ (n + 1 <= n) /\ ~ (n + 2 <= n)
        /\ (n + 1) - n = 1 /\ (n + 2) - n = 2 /\ \A i \in 1 .. n : i \in 1 .. n + 2 /\ i <= n
    BY <1>2
  <2>3. Len(g) = n + 2
    BY <1>1, <1>4 DEF n
  <2> QED
    BY <1>1, <2>1, <2>2, <2>3
<1> HIDE DEF n
<1>6. DOMAIN g = 1 .. n + 2 /\ \A i \in 1 .. n + 2 : i \in 1 .. n \/ i = n + 1 \/ i = n + 2
  BY <1>2, <1>4, <1>5, LenProperties
<1>7. Rest(g, MenuLinesOf(p)) = Rest(f, MenuLinesOf(p))
  <2>1. \A i \in (n + 1) .. (n + 2) : g[i] \in MenuLinesOf(p)
    <3> TAKE i \in (n + 1) .. (n + 2)
    <3>1. i = n + 1 \/ i = n + 2
      BY <1>2
    <3> QED
      BY <1>5, <3>1 DEF MenuLinesOf
  <2>2. n <= n + 2
    BY <1>2
  <2> QED
    BY <1>4, <1>5, <2>1, <2>2, RestOfLonger DEF n
<1>8. ASSUME Followed(f) PROVE Followed(g)
  <2> SUFFICES ASSUME NEW i \in 1 .. n + 2, g[i].kind = "marker"
               PROVE  i < n + 2 /\ Follows(g[i + 1], g[i])
    BY <1>5 DEF Followed
  <2>1. CASE i \in 1 .. n
    <3>1. i < n /\ Follows(f[i + 1], f[i])
      BY <1>5, <1>8, <2>1 DEF Followed, n
    <3>2. i + 1 \in 1 .. n /\ i < n + 2
      BY <1>2, <2>1, <3>1
    <3> QED
      BY <1>5, <2>1, <3>1, <3>2
  <2>2. CASE i = n + 1
    <3>1. i + 1 = n + 2 /\ i < n + 2
      BY <1>2, <2>2
    <3> QED
      BY <1>5, <2>2, <3>1, ItemsOf DEF Follows
  <2>3. CASE i = n + 2
    BY <1>5, <2>3, ItemsOf
  <2> QED
    BY <1>6, <2>1, <2>2, <2>3
<1>9. ASSUME NEW q PROVE HasMarker(g, q) <=> HasMarker(f, q) \/ q = p
  <2>1. ASSUME HasMarker(g, q) PROVE HasMarker(f, q) \/ q = p
    <3>1. PICK i \in 1 .. n + 2 : g[i] = Marker(q)
      BY <1>6, <2>1 DEF HasMarker
    <3>2. CASE i \in 1 .. n
      BY <1>2, <1>5, <3>1, <3>2 DEF HasMarker
    <3>3. CASE i = n + 1
      BY <1>5, <3>1, <3>3, ItemsOf
    <3>4. CASE i = n + 2
      BY <1>5, <3>1, <3>4, ItemsOf
    <3> QED
      BY <1>6, <3>2, <3>3, <3>4
  <2>2. ASSUME HasMarker(f, q) PROVE HasMarker(g, q)
    <3>1. PICK i \in 1 .. n : f[i] = Marker(q)
      BY <1>2, <2>2 DEF HasMarker
    <3>2. i \in 1 .. n + 2 /\ g[i] = Marker(q)
      BY <1>2, <1>5, <3>1
    <3> QED
      BY <1>6, <3>2 DEF HasMarker
  <2>3. ASSUME q = p PROVE HasMarker(g, q)
    <3>1. n + 1 \in 1 .. n + 2 /\ g[n + 1] = Marker(q)
      BY <1>2, <1>5, <2>3
    <3> QED
      BY <1>6, <3>1 DEF HasMarker
  <2> QED
    BY <2>1, <2>2, <2>3
<1>10. ASSUME Preceded(f) PROVE Preceded(g)
  <2> SUFFICES ASSUME NEW i \in 1 .. n + 2, g[i].kind = "entry"
               PROVE  i > 1 /\ g[i - 1] = Marker(g[i].of)
    BY <1>5 DEF Preceded
  <2>1. CASE i \in 1 .. n
    <3>1. i > 1 /\ f[i - 1] = Marker(f[i].of)
      BY <1>5, <1>10, <2>1 DEF Preceded, n
    <3>2. i - 1 \in 1 .. n
      BY <1>2, <2>1, <3>1
    <3> QED
      BY <1>5, <2>1, <3>1, <3>2
  <2>2. CASE i = n + 1
    BY <1>5, <2>2, ItemsOf
  <2>3. CASE i = n + 2
    <3>1. i - 1 = n + 1 /\ i > 1
      BY <1>2, <2>3
    <3> QED
      BY <1>5, <2>3, <3>1, ItemsOf
  <2> QED
    BY <1>6, <2>1, <2>2, <2>3
<1> QED
  BY <1>4, <1>7, <1>8, <1>9, <1>10 DEF g

(* One more line of the user.                                               *)
LEMMA LauncherLine ==
    ASSUME NEW own, NEW f \in Seq(Items(own)), NEW l \in Items(own), l.kind = "user"
    PROVE  LET g == f \o <<l>>
           IN  /\ g \in Seq(Items(own))
               /\ Followed(f) => Followed(g)
               /\ Preceded(f) => Preceded(g)
<1> DEFINE g == f \o <<l>>
           n == Len(f)
<1>1. n \in Nat /\ DOMAIN f = 1 .. n
  BY LenProperties
<1>2. /\ g \in Seq(Items(own)) /\ Len(g) = n + 1
      /\ \A i \in 1 .. n : g[i] = f[i]
  OBVIOUS
<1>3. g[n + 1] = l
  OBVIOUS
<1> HIDE DEF g
<1>4. /\ Len(g) = n + 1 /\ \A i \in 1 .. n : g[i] = f[i]
      /\ \A i \in 1 .. n + 1 : i \in 1 .. n \/ i = n + 1
  BY <1>1, <1>2
<1>5. ASSUME Followed(f) PROVE Followed(g)
  <2> SUFFICES ASSUME NEW i \in 1 .. n, f[i].kind = "marker"
               PROVE  i < n + 1 /\ Follows(g[i + 1], g[i])
    BY <1>3, <1>4, <1>5 DEF Followed
  <2>1. i < n /\ Follows(f[i + 1], f[i])
    BY <1>5 DEF Followed
  <2>2. i + 1 \in 1 .. n /\ i < n + 1
    BY <1>1, <2>1
  <2> QED
    BY <1>4, <2>1, <2>2
<1>6. ASSUME Preceded(f) PROVE Preceded(g)
  <2> SUFFICES ASSUME NEW i \in 1 .. n, f[i].kind = "entry"
               PROVE  i > 1 /\ g[i - 1] = Marker(g[i].of)
    BY <1>3, <1>4 DEF Preceded
  <2>1. i > 1 /\ f[i - 1] = Marker(f[i].of)
    BY <1>6 DEF Preceded
  <2>2. i - 1 \in 1 .. n
    BY <1>1, <2>1
  <2> QED
    BY <1>4, <2>1, <2>2
<1> QED
  BY <1>2, <1>5, <1>6 DEF g

(* A file cut short, or cut inside its last line.                           *)
LEMMA AloneCut ==
    ASSUME NEW f, NEW g, NEW p, Alone(f, p), Len(f) \in Nat, Len(g) \in Nat, Len(g) <= Len(f),
           \A i \in 1 .. Len(g) : /\ i < Len(g) => g[i] = f[i]
                                  /\ g[i] \in Begins(p) => f[i] \in Begins(p)
    PROVE  Alone(g, p)
<1> SUFFICES ASSUME NEW i \in 1 .. Len(g), NEW j \in 1 .. Len(g), i < j, g[i] = Marker(p),
                    g[j] \in Begins(p)
             PROVE  FALSE
  BY DEF Alone
<1>1. i \in 1 .. Len(f) /\ j \in 1 .. Len(f) /\ i < Len(g)
  OBVIOUS
<1> QED
  BY <1>1 DEF Alone

(* Two texts joined, of which one at most is about p.                       *)
LEMMA AloneJoin ==
    ASSUME NEW T, NEW f \in Seq(T), NEW g \in Seq(T), NEW p, Alone(f, p), Alone(g, p),
           \/ ~ HasMarker(f, p)
           \/ \A i \in 1 .. Len(g) : g[i] \notin Begins(p)
    PROVE  Alone(f \o g, p)
<1> DEFINE h == f \o g
           n == Len(f)
<1>1. n \in Nat /\ Len(g) \in Nat /\ DOMAIN f = 1 .. n
  BY LenProperties
<1>2. Len(h) = n + Len(g) /\ \A i \in 1 .. n + Len(g) : h[i] = IF i <= n THEN f[i] ELSE g[i - n]
  BY ConcatProperties
<1> HIDE DEF h, n
<1> SUFFICES ASSUME NEW i \in 1 .. n + Len(g), NEW j \in 1 .. n + Len(g), i < j, h[i] = Marker(p),
                    h[j] \in Begins(p)
             PROVE  FALSE
  BY <1>2 DEF Alone, h
<1>3. CASE j <= n
  <2>1. i \in 1 .. n /\ j \in 1 .. n /\ i <= n
    BY <1>1, <1>3
  <2> QED
    BY <1>2, <1>3, <2>1 DEF Alone, n
<1>4. CASE ~ (j <= n) /\ i <= n
  <2>1. i \in 1 .. n /\ j - n \in 1 .. Len(g)
    BY <1>1, <1>4
  <2>2. h[i] = f[i] /\ h[j] = g[j - n]
    BY <1>2, <1>4
  <2>3. HasMarker(f, p)
    BY <1>1, <2>1, <2>2 DEF HasMarker
  <2> QED
    BY <2>1, <2>2, <2>3
<1>5. CASE ~ (i <= n)
  <2>1. i - n \in 1 .. Len(g) /\ j - n \in 1 .. Len(g) /\ i - n < j - n /\ ~ (j <= n)
    BY <1>1, <1>5
  <2> QED
    BY <1>2, <1>5, <2>1 DEF Alone
<1> QED
  BY <1>3, <1>4, <1>5

(* An empty file, and a file with one line of the user.                     *)
LEMMA LauncherNone ==
    ASSUME NEW own
    PROVE  /\ <<>> \in Seq(Items(own)) /\ Followed(<<>>) /\ Preceded(<<>>) /\ \A p : Alone(<<>>, p)
           /\ \A u \in own : MenuLine(u) \in Items(own) /\ MenuLine(u).kind = "user"
           /\ \A u \in own : LET f == <<MenuLine(u)>>
                            IN  f \in Seq(Items(own)) /\ Followed(f) /\ Preceded(f) /\ \A p : Alone(f, p)
<1>1. /\ <<>> \in Seq(Items(own)) /\ Followed(<<>>) /\ Preceded(<<>>) /\ \A p : Alone(<<>>, p)
  <2>1. Len(<<>>) = 0 /\ 1 .. 0 = {}
    OBVIOUS
  <2> QED
    BY <2>1 DEF Followed, Preceded, Alone
<1>2. ASSUME NEW u \in own PROVE MenuLine(u) \in Items(own) /\ MenuLine(u).kind = "user"
  BY DEF MenuLine, Items
<1>3. ASSUME NEW u \in own
      PROVE  LET f == <<MenuLine(u)>>
             IN  f \in Seq(Items(own)) /\ Followed(f) /\ Preceded(f) /\ \A p : Alone(f, p)
  <2> DEFINE f == <<MenuLine(u)>>
  <2>1. f \in Seq(Items(own)) /\ Len(f) = 1 /\ f[1].kind = "user" /\ \A i \in 1 .. 1 : i = 1
    BY <1>2
  <2> HIDE DEF f
  <2>2. Followed(f) /\ Preceded(f) /\ \A p : Alone(f, p)
    BY <2>1 DEF Followed, Preceded, Alone
  <2> QED
    BY <2>1, <2>2 DEF f
<1> QED
  BY <1>1, <1>2, <1>3

------------------------------------------------------------------------------
(* INSTALLED.DB.                                                            *)

LEMMA MenuItems == MenuItem = Items({"own"})
  BY DEF MenuItem

(* INSTALLED.DB.                                                            *)

Ent == [id : Ids, ver : Defs]

(* No id is listed twice.                                                   *)
Distinct(t) == \A i, j \in DOMAIN t : t[i].id = t[j].id => i = j

(* The definition of every package listed is cached.                        *)
Known(d, t) == \A i \in DOMAIN t : d[t[i].id] # Absent

LEMMA TableIs ==
    ASSUME NEW t \in Table
    PROVE  /\ t \in Seq(Ent) /\ Len(t) \in Nat /\ DOMAIN t = 1 .. Len(t) /\ Len(t) <= MaxEntries
           /\ \A i \in 1 .. Len(t) : t[i] \in Ent
  BY LenProperties, ElementOfSeq DEF Table, Ent

LEMMA LoadTable ==
    ASSUME NEW f, f = Absent \/ f \in Table
    PROVE  /\ reg_load(f) \in Table
           /\ f \in Table => reg_load(f) = f /\ f # Absent
           /\ f = Absent => reg_load(f) = <<>>
<1>1. CASE f = Absent
  <2>1. reg_load(f) = <<>>
    BY <1>1 DEF reg_load
  <2>2. <<>> \in Table
    BY EmptySeq, NpkgAssumption DEF NpkgAssumption, Table
  <2> QED
    BY <1>1, <2>1, <2>2, NpkgValues DEF NpkgValues, Table
<1>2. CASE f \in Table
  <2>1. f # Absent
    BY <1>2, NpkgValues DEF NpkgValues, Table
  <2>2. f \in Seq(Ent) /\ Len(f) \in Nat /\ Len(f) <= MaxEntries
    BY <1>2, TableIs
  <2>3. (IF Len(f) < MaxEntries THEN Len(f) ELSE MaxEntries) = Len(f)
    BY <2>2, NpkgAssumption DEF NpkgAssumption
  <2>4. reg_load(f) = f
    BY <2>1, <2>2, <2>3, SubSeqFull DEF reg_load
  <2> QED
    BY <1>2, <2>1, <2>4
<1> QED
  BY <1>1, <1>2

LEMMA NothingListed == Distinct(<<>>) /\ (\A d : Known(d, <<>>)) /\ \A q : ~ Has(<<>>, q)
<1>1. DOMAIN <<>> = {}
  OBVIOUS
<1> QED
  BY <1>1 DEF Distinct, Known, Has

(* nos_registry_add of a package that is not listed.                        *)
LEMMA TableWith ==
    ASSUME NEW d, NEW t \in Table, Distinct(t), Known(d, t), NEW p \in Ids, NEW v \in Defs, ~ Has(t, p)
    PROVE  LET e == [id |-> p, ver |-> v]
               g == Append(t, e)
           IN  /\ Added(t, e) = g
               /\ Len(t) < MaxEntries => g \in Table
               /\ Distinct(g)
               /\ d[p] # Absent => Known(d, g)
               /\ \A q : Has(g, q) <=> Has(t, q) \/ q = p
               /\ Rest(g, EntriesOf(p)) = Rest(t, EntriesOf(p))
<1> DEFINE e == [id |-> p, ver |-> v]
           g == Append(t, e)
           n == Len(t)
<1>1. e \in Ent /\ e.id = p /\ e \in EntriesOf(p)
  BY DEF Ent, EntriesOf
<1>2. t \in Seq(Ent) /\ n \in Nat /\ DOMAIN t = 1 .. n /\ n <= MaxEntries /\ \A i \in 1 .. n : t[i] \in Ent
  BY TableIs
<1>3. Added(t, e) = g
  BY <1>1 DEF Added
<1> HIDE DEF e, n
<1>4. g \in Seq(Ent) /\ Len(g) = n + 1 /\ g[n + 1] = e /\ \A i \in 1 .. n : g[i] = t[i]
  <2>1. /\ g \in Seq(Ent) /\ Len(g) = Len(t) + 1
        /\ \A i \in 1 .. Len(t) : g[i] = t[i]
        /\ g[Len(t) + 1] = e
    BY <1>1, <1>2, AppendProperties
  <2> QED
    BY <2>1 DEF n
<1> HIDE DEF g
<1>5. DOMAIN g = 1 .. n + 1 /\ \A i \in 1 .. n + 1 : i \in 1 .. n \/ i = n + 1
  BY <1>2, <1>4, LenProperties
<1>6. \A i \in 1 .. n : t[i].id # p
  BY <1>2 DEF Has
<1>7. Distinct(g)
  <2> SUFFICES ASSUME NEW i \in 1 .. n + 1, NEW j \in 1 .. n + 1, g[i].id = g[j].id PROVE i = j
    BY <1>5 DEF Distinct
  <2> QED
    BY <1>1, <1>2, <1>4, <1>5, <1>6 DEF Distinct
<1>8. ASSUME d[p] # Absent PROVE Known(d, g)
  BY <1>1, <1>2, <1>4, <1>5, <1>8 DEF Known
<1>9. ASSUME NEW q PROVE Has(g, q) <=> Has(t, q) \/ q = p
  <2>1. n + 1 \in 1 .. n + 1 /\ \A i \in 1 .. n : i \in 1 .. n + 1
    BY <1>2
  <2> QED
    BY <1>1, <1>2, <1>4, <1>5, <2>1 DEF Has
<1>10. Rest(g, EntriesOf(p)) = Rest(t, EntriesOf(p))
  <2>1. n <= n + 1 /\ \A i \in (n + 1) .. (n + 1) : i = n + 1
    BY <1>2
  <2>2. \A i \in (n + 1) .. (n + 1) : g[i] \in EntriesOf(p)
    BY <1>1, <1>4, <2>1
  <2> QED
    BY <1>2, <1>4, <2>1, <2>2, RestOfLonger DEF n
<1>11. ASSUME Len(t) < MaxEntries PROVE g \in Table
  <2>1. Len(g) <= MaxEntries
    BY <1>2, <1>4, <1>11, NpkgAssumption DEF n, NpkgAssumption
  <2> QED
    BY <1>4, <2>1 DEF Table, Ent
<1> QED
  BY <1>3, <1>7, <1>8, <1>9, <1>10, <1>11 DEF g, e

(* nos_registry_remove shifts the later entries down by one.                *)
LEMMA TableWithout ==
    ASSUME NEW d, NEW t \in Table, Distinct(t), Known(d, t), NEW p \in Ids, Has(t, p)
    PROVE  LET g == Without(t, p)
           IN  /\ g \in Table /\ Distinct(g) /\ Known(d, g)
               /\ \A q : Has(g, q) <=> Has(t, q) /\ q # p
               /\ Rest(g, EntriesOf(p)) = Rest(t, EntriesOf(p))
<1> DEFINE at == Position(t, p)
           g == Without(t, p)
           n == Len(t)
           front == SubSeq(t, 1, at - 1)
           back == SubSeq(t, at + 1, n)
           S == 1 .. n \ {at}
<1>1. t \in Seq(Ent) /\ n \in Nat /\ DOMAIN t = 1 .. n /\ n <= MaxEntries /\ \A i \in 1 .. n : t[i] \in Ent
  BY TableIs
<1>2. at \in 1 .. n /\ t[at].id = p /\ \A i \in 1 .. n : t[i].id = p => i = at
  <2>1. PICK i \in 1 .. n : t[i].id = p
    BY <1>1 DEF Has
  <2>2. \A j \in 1 .. (i - 1) : t[j].id # p
    BY <1>1, <2>1 DEF Distinct
  <2>3. at \in DOMAIN t /\ t[at].id = p
    BY <1>1, <2>1, <2>2 DEF Position
  <2> HIDE DEF at
  <2> QED
    BY <1>1, <2>3 DEF Distinct
<1>3. g = front \o back
  BY DEF Without, RemoveAt
<1> HIDE DEF at
<1>4. front \in Seq(Ent) /\ Len(front) = at - 1 /\ \A i \in 1 .. at - 1 : front[i] = t[i]
  <2>1. \A i \in 1 .. (at - 1) : t[i] \in Ent
    BY <1>1, <1>2
  <2>2. /\ front \in Seq(Ent)
        /\ Len(front) = IF 1 <= at - 1 THEN at - 1 - 1 + 1 ELSE 0
        /\ \A i \in 1 .. at - 1 - 1 + 1 : front[i] = t[1 + i - 1]
    <3>1. 1 \in Int /\ at - 1 \in Int
      BY <1>2
    <3> QED
      BY <1>1, <2>1, <3>1, SubSeqProperties
  <2> QED
    BY <1>1, <1>2, <2>2
<1>5. back \in Seq(Ent) /\ Len(back) = n - at /\ \A i \in 1 .. n - at : back[i] = t[at + i]
  <2>1. \A i \in (at + 1) .. n : t[i] \in Ent
    BY <1>1, <1>2
  <2>2. /\ back \in Seq(Ent)
        /\ Len(back) = IF at + 1 <= n THEN n - (at + 1) + 1 ELSE 0
        /\ \A i \in 1 .. n - (at + 1) + 1 : back[i] = t[at + 1 + i - 1]
    <3>1. n \in Int /\ at + 1 \in Int
      BY <1>1, <1>2
    <3> QED
      BY <1>1, <2>1, <3>1, SubSeqProperties
  <2> HIDE DEF back, n
  <2>3. (at + 1 <= n => n - (at + 1) + 1 = n - at) /\ (~ at + 1 <= n => n - at = 0)
    BY <1>1, <1>2
  <2>4. Len(back) = n - at /\ n - (at + 1) + 1 = n - at
    BY <1>1, <1>2, <2>2, <2>3
  <2>5. \A i \in 1 .. n - at : back[i] = t[at + i]
    <3>1. TAKE i \in 1 .. n - at
    <3>2. back[i] = t[at + 1 + i - 1]
      BY <2>2, <2>4, <3>1
    <3>3. at + 1 + i - 1 = at + i
      BY <1>1, <1>2, <3>1
    <3> QED
      BY <3>2, <3>3
  <2> QED
    BY <2>2, <2>4, <2>5
<1> DEFINE ks == [k \in 1 .. n - 1 |-> IF k < at THEN k ELSE k + 1]
<1>6. Lists(ks, S)
  <2>1. \A k \in 1 .. n - 1 : ks[k] = (IF k < at THEN k ELSE k + 1) /\ ks[k] \in S
    BY <1>1, <1>2
  <2>2. ks \in Seq(S) /\ Len(ks) = n - 1
    <3>1. ks \in [1 .. n - 1 -> S]
      BY <2>1
    <3>2. n - 1 \in Nat
      BY <1>1, <1>2
    <3> HIDE DEF ks, S
    <3> QED
      BY <3>1, <3>2
  <2> HIDE DEF ks
  <2>3. ASSUME NEW i \in S PROVE \E k \in 1 .. n - 1 : ks[k] = i
    <3>1. CASE i < at
      <4>1. i \in 1 .. n - 1
        BY <1>1, <1>2, <3>1
      <4> QED
        BY <2>1, <3>1, <4>1
    <3>2. CASE ~ (i < at)
      <4>1. i - 1 \in 1 .. n - 1 /\ ~ (i - 1 < at) /\ (i - 1) + 1 = i
        BY <1>1, <1>2, <3>2
      <4> QED
        BY <2>1, <4>1
    <3> QED
      BY <3>1, <3>2
  <2>4. \A j, k \in 1 .. n - 1 : j < k => ks[j] < ks[k]
    BY <1>1, <1>2, <2>1
  <2> HIDE DEF S
  <2> QED
    BY <2>2, <2>3, <2>4 DEF Lists
<1>7. DOMAIN ks = 1 .. n - 1 /\ \A k \in 1 .. n - 1 : ks[k] = IF k < at THEN k ELSE k + 1
  OBVIOUS
<1> HIDE DEF ks, g, front, back, n
<1>8. /\ g \in Seq(Ent) /\ Len(g) = n - 1 /\ DOMAIN g = 1 .. n - 1
      /\ \A i \in 1 .. n - 1 : g[i] = t[ks[i]]
  <2>1. /\ g \in Seq(Ent) /\ Len(g) = Len(front) + Len(back)
        /\ \A i \in 1 .. Len(front) + Len(back) :
              g[i] = IF i <= Len(front) THEN front[i] ELSE back[i - Len(front)]
    BY <1>3, <1>4, <1>5, ConcatProperties
  <2>2. Len(front) + Len(back) = n - 1
    BY <1>1, <1>2, <1>4, <1>5
  <2>3. \A i \in 1 .. n - 1 : g[i] = IF i <= at - 1 THEN front[i] ELSE back[i - (at - 1)]
    BY <1>4, <2>1, <2>2
  <2>4. ASSUME NEW i \in 1 .. n - 1, i < at PROVE g[i] = t[ks[i]]
    <3>1. i \in 1 .. at - 1 /\ i <= at - 1
      BY <1>1, <1>2, <2>4
    <3> QED
      BY <1>4, <1>7, <2>3, <2>4, <3>1
  <2>5. ASSUME NEW i \in 1 .. n - 1, ~ (i < at) PROVE g[i] = t[ks[i]]
    <3>1. ~ (i <= at - 1) /\ i - (at - 1) \in 1 .. n - at /\ at + (i - (at - 1)) = i + 1
      BY <1>1, <1>2, <2>5
    <3> QED
      BY <1>5, <1>7, <2>3, <2>5, <3>1
  <2>6. DOMAIN g = 1 .. n - 1
    BY <2>1, <2>2, LenProperties
  <2> QED
    BY <2>1, <2>2, <2>4, <2>5, <2>6
<1>9. S \in SUBSET Nat /\ S \in SUBSET DOMAIN t /\ \A i \in 1 .. n : i \in S <=> i # at
  BY <1>1
<1> HIDE DEF S
<1>10. g = Picked(t, S)
  <2>1. Picked(t, S) = Lines(t, ks)
    BY <1>6, <1>9, PickedIs
  <2> QED
    BY <1>7, <1>8, <2>1 DEF Lines
<1>11. Rest(g, EntriesOf(p)) = Rest(t, EntriesOf(p))
  <2>1. \A i \in DOMAIN t : i \notin S => t[i] \in EntriesOf(p)
    BY <1>1, <1>2, <1>9 DEF Ent, EntriesOf
  <2> QED
    BY <1>1, <1>9, <1>10, <2>1, RestOfPicked
<1>12. /\ \A k \in 1 .. n - 1 : ks[k] \in 1 .. n /\ ks[k] # at
       /\ \A j, k \in 1 .. n - 1 : ks[j] = ks[k] => j = k
       /\ \A i \in 1 .. n : i # at => \E k \in 1 .. n - 1 : ks[k] = i
  <2>1. Len(ks) = n - 1
    <3>1. n - 1 \in Nat /\ ks \in Seq(S)
      BY <1>1, <1>2, <1>6 DEF Lists
    <3> QED
      BY <1>7, <3>1, LenProperties
  <2>2. /\ \A k \in 1 .. n - 1 : ks[k] \in S
        /\ \A j, k \in 1 .. n - 1 : ks[j] = ks[k] => j = k
    BY <1>6, <1>9, <2>1, ListMembers
  <2> QED
    BY <1>1, <1>6, <1>9, <2>1, <2>2 DEF Lists
<1>13. Distinct(g)
  <2> SUFFICES ASSUME NEW i \in 1 .. n - 1, NEW j \in 1 .. n - 1, g[i].id = g[j].id PROVE i = j
    BY <1>8 DEF Distinct
  <2>1. ks[i] = ks[j]
    BY <1>1, <1>8, <1>12 DEF Distinct
  <2> QED
    BY <1>12, <2>1
<1>14. Known(d, g)
  <2> SUFFICES ASSUME NEW k \in 1 .. n - 1 PROVE d[g[k].id] # Absent
    BY <1>8 DEF Known
  <2>1. ks[k] \in DOMAIN t /\ g[k] = t[ks[k]]
    BY <1>1, <1>8, <1>12
  <2> QED
    BY <2>1 DEF Known
<1>15. ASSUME NEW q PROVE Has(g, q) <=> Has(t, q) /\ q # p
  <2>1. ASSUME Has(g, q) PROVE Has(t, q) /\ q # p
    BY <1>1, <1>2, <1>8, <1>12, <2>1 DEF Has
  <2>2. ASSUME Has(t, q), q # p PROVE Has(g, q)
    <3>1. PICK i \in 1 .. n : t[i].id = q
      BY <1>1, <2>2 DEF Has
    <3>2. PICK k \in 1 .. n - 1 : ks[k] = i
      BY <1>2, <1>12, <2>2, <3>1
    <3> QED
      BY <1>8, <3>1, <3>2 DEF Has
  <2> QED
    BY <2>1, <2>2
<1>16. g \in Table
  <2>1. Len(g) <= MaxEntries
    BY <1>1, <1>8, NpkgAssumption DEF NpkgAssumption
  <2> QED
    BY <1>8, <2>1 DEF Table, Ent
<1> QED
  BY <1>11, <1>13, <1>14, <1>15, <1>16 DEF g

------------------------------------------------------------------------------
(* The state of a command under way.                                        *)

(* INSTALLED.DB lists every package once, and only packages whose           *)
(* definition is cached.  An INSTALL works on a package that is not listed  *)
(* with the definition that is cached; a save has in memory, and then in    *)
(* INSTALLED.TMP, the table with that change and no other.                  *)
RegOK ==
    /\ pc \in {"archive", "auto_add", "reg_add", "menu_add"} => cmd = "install"
    /\ pc \in {"lines", "auto_copy", "auto_remove", "auto_rename", "menu_copy", "menu_remove",
               "menu_rename", "reg_drop"} => cmd = "remove"
    /\ pc \in {"reg_write", "reg_remove", "reg_rename"} => cmd \in {"install", "remove"}
    /\ Distinct(reg_load(db)) /\ Known(defs, reg_load(db))
    /\ cmd = "install" /\ pc \in {"def", "archive", "auto_add", "reg_add", "reg_write", "reg_remove"} =>
          ~ Has(reg_load(db), id)
    /\ pc = "lines" \/ (cmd = "install" /\ pc \notin {"idle", "def"}) => g_pkg = defs[id]
    /\ cmd = "install" /\ pc \in {"reg_write", "reg_remove"} =>
          g_reg = Append(reg_load(db), [id |-> id, ver |-> g_pkg])
    /\ cmd = "remove" /\ pc \in {"reg_write", "reg_remove"} =>
          Has(reg_load(db), id) /\ g_reg = Without(reg_load(db), id)
    /\ pc = "reg_remove" => dbTmp = g_reg
    /\ pc = "reg_rename" =>
          /\ db = Absent /\ dbTmp \in Table /\ Distinct(dbTmp) /\ Known(defs, dbTmp)
          /\ Has(dbTmp, id) <=> cmd = "install"

(* AUTOEXEC.BAT is tidy, and so is the text that is to replace it.          *)
AutoOK ==
    /\ Tidy(Text(auto))
    /\ pc = "auto_remove" => auto # Absent /\ autoTmp = StripBlocks(auto, id)
    /\ pc = "auto_rename" => auto = Absent /\ autoTmp # Absent /\ Tidy(autoTmp)

(* The same of LAUNCHER.CFG and its markers.                                *)
MenuOK ==
    /\ Followed(Text(menu))
    /\ pc = "menu_remove" => menu # Absent /\ menuTmp = StripLauncher(menu, id)
    /\ pc = "menu_rename" => menu = Absent /\ menuTmp # Absent /\ Followed(menuTmp)

FlowInv == TypeOK /\ RegOK /\ AutoOK /\ MenuOK

(* A file that is not there has no block and no marker.                     *)
LEMMA NothingWritten == Tidy(<<>>) /\ Followed(<<>>) /\ \A q : NoBlock(<<>>, q) /\ ~ HasMarker(<<>>, q)
<1>1. DOMAIN <<>> = {} /\ Len(<<>>) = 0 /\ 1 .. 0 = {}
  OBVIOUS
<1>2. Tidy(<<>>)
  BY <1>1 DEF Tidy
<1>3. Followed(<<>>)
  BY <1>1 DEF Followed
<1> QED
  BY <1>1, <1>2, <1>3 DEF NoBlock, HasMarker

LEMMA FlowInit == Init => FlowInv
<1> SUFFICES ASSUME Init PROVE FlowInv
  OBVIOUS
<1> USE NpkgAssumption, NpkgValues
<1>1. <<>> \in Table /\ reg_load(Absent) = <<>>
  BY EmptySeq DEF Table, reg_load, NpkgAssumption
<1>2. UserLine("own") \in AutoLine /\ MenuLine("own") \in MenuItem
  BY DEF UserLine, MenuLine, AutoLine, MenuItem, Items
<1>3. auto \in Seq(AutoLine) /\ menu \in Seq(MenuItem)
  BY <1>2 DEF Init
<1>4. Text(auto) = auto /\ Text(menu) = menu
  BY <1>3 DEF NpkgValues, Text
<1>5. /\ Len(auto) = 1 /\ auto[1] = UserLine("own") /\ \A p : auto[1] # StartMark(p)
      /\ Len(menu) = 1 /\ menu[1] = MenuLine("own") /\ menu[1].kind # "marker"
  BY DEF Init, UserLine, StartMark, MenuLine
<1>6. TypeOK
  <2>1. /\ defs \in [Ids -> {Absent} \cup Defs] /\ files \subseteq Ids /\ index \in {Absent} \cup SUBSET Ids
        /\ g_pkg \in Defs /\ g_reg \in Table
    BY <1>1 DEF Init, Defs
  <2>2. cuts \in 0 .. MaxCuts /\ refused \in 0 .. MaxRefused
    BY DEF Init, NpkgAssumption
  <2> QED
    BY <1>3, <2>1, <2>2 DEF Init, TypeOK
<1>7. RegOK
  BY <1>1, NothingListed DEF Init, RegOK
<1>8. Tidy(Text(auto))
  <2>1. \A i \in 1 .. Len(auto) : i = 1
    BY <1>5
  <2>2. \A i \in 1 .. Len(auto), p \in Ids : auto[i] # StartMark(p) /\ ~ InBlock(auto, p, i)
    <3>1. \A s \in 1 .. 1 : s = 1
      OBVIOUS
    <3> QED
      BY <1>5, <2>1, <3>1 DEF InBlock
  <2> QED
    BY <1>4, <2>2 DEF Tidy
<1>9. Followed(Text(menu))
  <2>1. \A i \in 1 .. Len(menu) : i = 1
    BY <1>5
  <2> QED
    BY <1>4, <1>5, <2>1 DEF Followed
<1> QED
  BY <1>6, <1>7, <1>8, <1>9 DEF Init, FlowInv, AutoOK, MenuOK

(* The files NPKG reads, as texts and as a table.                           *)
LEMMA FilesRead ==
    ASSUME FlowInv
    PROVE  /\ reg_load(db) \in Table /\ reg_load(dbTmp) \in Table
           /\ db = Absent => reg_load(db) = <<>>
           /\ db \in Table => reg_load(db) = db /\ db # Absent
           /\ dbTmp \in Table => reg_load(dbTmp) = dbTmp /\ dbTmp # Absent
           /\ Text(auto) \in Seq(AutoLine) /\ Text(menu) \in Seq(MenuItem)
           /\ auto # Absent => Text(auto) = auto /\ auto \in Seq(AutoLine)
           /\ menu # Absent => Text(menu) = menu /\ menu \in Seq(MenuItem)
           /\ auto = Absent => Text(auto) = <<>>
           /\ menu = Absent => Text(menu) = <<>>
<1>1. /\ db = Absent \/ db \in Table
      /\ dbTmp = Absent \/ dbTmp \in Table
      /\ auto = Absent \/ auto \in Seq(AutoLine)
      /\ menu = Absent \/ menu \in Seq(MenuItem)
  BY DEF FlowInv, TypeOK
<1>2. <<>> \in Seq(AutoLine) /\ <<>> \in Seq(MenuItem)
  BY EmptySeq
<1> QED
  BY <1>1, <1>2, LoadTable DEF Text

(* The two texts that are written.                                          *)
LEMMA TextsWritten ==
    ASSUME FlowInv
    PROVE  /\ LET g == Text(auto) \o Block(id)
              IN  /\ g \in Seq(AutoLine) /\ Tidy(g) /\ g # Absent
                  /\ Rest(g, AutoLinesOf(id)) = Rest(Text(auto), AutoLinesOf(id))
           /\ auto # Absent =>
                LET g == StripBlocks(auto, id)
                IN  /\ g \in Seq(AutoLine) /\ Tidy(g) /\ g # Absent /\ NoBlock(g, id)
                    /\ Rest(g, AutoLinesOf(id)) = Rest(auto, AutoLinesOf(id))
           /\ LET g == Text(menu) \o Registration(id)
              IN  /\ g \in Seq(MenuItem) /\ Followed(g) /\ g # Absent
                  /\ Rest(g, MenuLinesOf(id)) = Rest(Text(menu), MenuLinesOf(id))
           /\ menu # Absent =>
                LET g == StripLauncher(menu, id)
                IN  /\ g \in Seq(MenuItem) /\ Followed(g) /\ g # Absent /\ ~ HasMarker(g, id)
                    /\ LongEntries = {} => Rest(g, MenuLinesOf(id)) = Rest(menu, MenuLinesOf(id))
<1>1. /\ id \in Ids /\ Tidy(Text(auto)) /\ Followed(Text(menu))
      /\ Text(auto) \in Seq(AutoLine) /\ Text(menu) \in Seq(MenuItem)
      /\ auto # Absent => auto \in Seq(AutoLine) /\ Tidy(auto)
      /\ menu # Absent => menu \in Seq(MenuItem) /\ Followed(menu)
  BY FilesRead DEF FlowInv, TypeOK, AutoOK, MenuOK
<1>2. \A g : (g \in Seq(AutoLine) => g # Absent) /\ (g \in Seq(MenuItem) => g # Absent)
  BY NpkgValues DEF NpkgValues
<1>3. LET g == Text(auto) \o Block(id)
      IN  /\ g \in Seq(AutoLine) /\ Tidy(g)
          /\ Rest(g, AutoLinesOf(id)) = Rest(Text(auto), AutoLinesOf(id))
  BY <1>1, AppendKeeps
<1>4. ASSUME auto # Absent
      PROVE  LET g == StripBlocks(auto, id)
             IN  /\ g \in Seq(AutoLine) /\ Tidy(g) /\ NoBlock(g, id)
                 /\ Rest(g, AutoLinesOf(id)) = Rest(auto, AutoLinesOf(id))
  BY <1>1, <1>4, StripKeeps
<1>5. LET g == Text(menu) \o Registration(id)
      IN  /\ g \in Seq(MenuItem) /\ Followed(g)
          /\ Rest(g, MenuLinesOf(id)) = Rest(Text(menu), MenuLinesOf(id))
  BY <1>1, MenuItems, LauncherWith
<1>6. ASSUME menu # Absent
      PROVE  LET g == StripLauncher(menu, id)
             IN  /\ g \in Seq(MenuItem) /\ Followed(g) /\ ~ HasMarker(g, id)
                 /\ LongEntries = {} => Rest(g, MenuLinesOf(id)) = Rest(menu, MenuLinesOf(id))
  BY <1>1, <1>6, MenuItems, LauncherWithout
<1> QED
  BY <1>2, <1>3, <1>4, <1>5, <1>6

(* The steps that leave AUTOEXEC.BAT alone, and those that leave the menu.  *)
LEMMA AutoAlone ==
    ASSUME [Next]_vars, ~ AutoAppend, ~ AutoCopy, ~ AutoRemove, ~ AutoRename
    PROVE  /\ UNCHANGED autoFiles
           /\ pc' \notin {"auto_remove", "auto_rename"} \/ UNCHANGED <<pc, id>>
           /\ pc # "auto_rename" \/ PowerLoss \/ UNCHANGED <<pc, id>>
<1> USE DEF autoFiles, Continue, Goto, Exit, Started, Loaded
<1>1. CASE cmd_update
  BY <1>1 DEF cmd_update
<1>2. ASSUME NEW p \in Ids, cmd_info(p) \/ cmd_install(p) \/ cmd_remove(p)
      PROVE  UNCHANGED autoFiles /\ pc' \notin {"auto_remove", "auto_rename"} /\ pc # "auto_rename"
  BY <1>2 DEF cmd_info, cmd_install, cmd_remove
<1>3. CASE FetchDef \/ FetchAndExtract \/ RunRemoveLines
  BY <1>3 DEF FetchDef, FetchAndExtract, RunRemoveLines, Parsed
<1>4. CASE RegAdd \/ SaveWrite \/ SaveRemove \/ SaveRename \/ RegDrop
  BY <1>4 DEF RegAdd, SaveWrite, SaveRemove, SaveRename, RegDrop, Saved
<1>5. CASE MenuAppend \/ MenuCopy \/ MenuRemove \/ MenuRename
  BY <1>5 DEF MenuAppend, MenuCopy, MenuRemove, MenuRename
<1>6. CASE PowerLoss
  BY <1>6 DEF PowerLoss
<1>7. CASE UNCHANGED vars
  BY <1>7 DEF vars
<1> QED
  BY <1>1, <1>2, <1>3, <1>4, <1>5, <1>6, <1>7 DEF Next, Step

LEMMA MenuAlone ==
    ASSUME [Next]_vars, ~ MenuAppend, ~ MenuCopy, ~ MenuRemove, ~ MenuRename
    PROVE  /\ UNCHANGED menuFiles
           /\ pc' \notin {"menu_remove", "menu_rename"} \/ UNCHANGED <<pc, id>>
           /\ pc # "menu_rename" \/ PowerLoss \/ UNCHANGED <<pc, id>>
<1> USE DEF menuFiles, Continue, Goto, Exit, Started, Loaded
<1>1. CASE cmd_update
  BY <1>1 DEF cmd_update
<1>2. ASSUME NEW p \in Ids, cmd_info(p) \/ cmd_install(p) \/ cmd_remove(p)
      PROVE  UNCHANGED menuFiles /\ pc' \notin {"menu_remove", "menu_rename"} /\ pc # "menu_rename"
  BY <1>2 DEF cmd_info, cmd_install, cmd_remove
<1>3. CASE FetchDef \/ FetchAndExtract \/ RunRemoveLines
  BY <1>3 DEF FetchDef, FetchAndExtract, RunRemoveLines, Parsed
<1>4. CASE RegAdd \/ SaveWrite \/ SaveRemove \/ SaveRename \/ RegDrop
  BY <1>4 DEF RegAdd, SaveWrite, SaveRemove, SaveRename, RegDrop, Saved
<1>5. CASE AutoAppend \/ AutoCopy \/ AutoRemove \/ AutoRename
  BY <1>5 DEF AutoAppend, AutoCopy, AutoRemove, AutoRename
<1>6. CASE PowerLoss
  BY <1>6 DEF PowerLoss
<1>7. CASE UNCHANGED vars
  BY <1>7 DEF vars
<1> QED
  BY <1>1, <1>2, <1>3, <1>4, <1>5, <1>6, <1>7 DEF Next, Step

LEMMA AutoNext ==
    ASSUME FlowInv, [Next]_vars
    PROVE  /\ \A f \in {auto', autoTmp'} : f = Absent \/ f \in Seq(AutoLine)
           /\ AutoOK'
<1>1. \A f \in {auto, autoTmp} : f = Absent \/ f \in Seq(AutoLine)
  BY DEF FlowInv, TypeOK
<1>2. AutoOK
  BY DEF FlowInv
<1>3. ASSUME NEW f PROVE (f = Absent => Text(f) = <<>>) /\ (f # Absent => Text(f) = f)
  BY DEF Text
<1>4. Tidy(<<>>)
  BY NothingWritten
<1> USE DEF Continue, Goto, Exit
<1>5. CASE AutoAppend
  <2>1. /\ pc' \notin {"auto_remove", "auto_rename"} /\ autoTmp' = autoTmp
        /\ auto' = auto \/ auto' = Text(auto) \o Block(id)
    BY <1>5 DEF AutoAppend
  <2>2. LET g == Text(auto) \o Block(id) IN g \in Seq(AutoLine) /\ Tidy(g) /\ g # Absent
    BY TextsWritten
  <2>3. Text(auto)' = Text(auto')
    BY DEF Text
  <2>4. Tidy(Text(auto'))
    BY <1>2, <1>3, <2>1, <2>2 DEF AutoOK
  <2> QED
    BY <1>1, <2>1, <2>2, <2>3, <2>4 DEF AutoOK
<1>6. CASE AutoCopy
  <2>1. /\ auto' = auto /\ id' = id
        /\ \/ pc' = "auto_remove" /\ auto # Absent /\ autoTmp' = StripBlocks(auto, id)
           \/ pc' = "menu_copy" /\ autoTmp' = autoTmp
    BY <1>6 DEF AutoCopy, AutoFile!WriteTmp, autoFiles
  <2>2. auto # Absent => StripBlocks(auto, id) \in Seq(AutoLine)
    BY TextsWritten
  <2> QED
    BY <1>1, <1>2, <2>1, <2>2 DEF AutoOK
<1>7. CASE AutoRemove
  <2>1. auto' = Absent /\ autoTmp' = StripBlocks(auto, id) /\ auto # Absent /\ pc' = "auto_rename"
    BY <1>2, <1>7 DEF AutoRemove, AutoFile!RemoveOld, AutoOK
  <2>2. LET g == StripBlocks(auto, id) IN g \in Seq(AutoLine) /\ Tidy(g) /\ g # Absent
    BY <2>1, TextsWritten
  <2>3. Tidy(Text(auto'))
    BY <1>3, <1>4, <2>1
  <2> QED
    BY <2>1, <2>2, <2>3 DEF AutoOK
<1>8. CASE AutoRename
  <2>1. auto' = autoTmp /\ autoTmp' = Absent /\ autoTmp # Absent /\ Tidy(autoTmp) /\ pc' = "menu_copy"
    BY <1>2, <1>8 DEF AutoRename, AutoFile!RenameTmp, AutoOK
  <2>2. Tidy(Text(auto'))
    BY <1>3, <2>1
  <2> QED
    BY <1>1, <2>1, <2>2 DEF AutoOK
<1>9. CASE ~ AutoAppend /\ ~ AutoCopy /\ ~ AutoRemove /\ ~ AutoRename
  <2>1. /\ auto' = auto /\ autoTmp' = autoTmp
        /\ pc' \notin {"auto_remove", "auto_rename"} \/ (pc' = pc /\ id' = id)
    BY <1>9, AutoAlone DEF autoFiles
  <2> QED
    BY <1>1, <1>2, <2>1 DEF AutoOK
<1> QED
  BY <1>5, <1>6, <1>7, <1>8, <1>9

LEMMA MenuNext ==
    ASSUME FlowInv, [Next]_vars
    PROVE  /\ \A f \in {menu', menuTmp'} : f = Absent \/ f \in Seq(MenuItem)
           /\ MenuOK'
<1>1. \A f \in {menu, menuTmp} : f = Absent \/ f \in Seq(MenuItem)
  BY DEF FlowInv, TypeOK
<1>2. MenuOK
  BY DEF FlowInv
<1>3. ASSUME NEW f PROVE (f = Absent => Text(f) = <<>>) /\ (f # Absent => Text(f) = f)
  BY DEF Text
<1>4. Followed(<<>>)
  BY NothingWritten
<1> USE DEF Continue, Goto, Exit
<1>5. CASE MenuAppend
  <2>1. /\ pc' \notin {"menu_remove", "menu_rename"} /\ menuTmp' = menuTmp
        /\ menu' = menu \/ menu' = Text(menu) \o Registration(id)
    BY <1>5 DEF MenuAppend
  <2>2. LET g == Text(menu) \o Registration(id) IN g \in Seq(MenuItem) /\ Followed(g) /\ g # Absent
    BY TextsWritten
  <2>3. Followed(Text(menu'))
    BY <1>2, <1>3, <2>1, <2>2 DEF MenuOK
  <2> QED
    BY <1>1, <2>1, <2>2, <2>3 DEF MenuOK
<1>6. CASE MenuCopy
  <2>1. /\ menu' = menu /\ id' = id
        /\ \/ pc' = "menu_remove" /\ menu # Absent /\ menuTmp' = StripLauncher(menu, id)
           \/ pc' = "reg_drop" /\ menuTmp' = menuTmp
    BY <1>6 DEF MenuCopy, MenuFile!WriteTmp, menuFiles
  <2>2. menu # Absent => StripLauncher(menu, id) \in Seq(MenuItem)
    BY TextsWritten
  <2> QED
    BY <1>1, <1>2, <2>1, <2>2 DEF MenuOK
<1>7. CASE MenuRemove
  <2>1. menu' = Absent /\ menuTmp' = StripLauncher(menu, id) /\ menu # Absent /\ pc' = "menu_rename"
    BY <1>2, <1>7 DEF MenuRemove, MenuFile!RemoveOld, MenuOK
  <2>2. LET g == StripLauncher(menu, id) IN g \in Seq(MenuItem) /\ Followed(g) /\ g # Absent
    BY <2>1, TextsWritten
  <2>3. Followed(Text(menu'))
    BY <1>3, <1>4, <2>1
  <2> QED
    BY <2>1, <2>2, <2>3 DEF MenuOK
<1>8. CASE MenuRename
  <2>1. menu' = menuTmp /\ menuTmp' = Absent /\ menuTmp # Absent /\ Followed(menuTmp) /\ pc' = "reg_drop"
    BY <1>2, <1>8 DEF MenuRename, MenuFile!RenameTmp, MenuOK
  <2>2. Followed(Text(menu'))
    BY <1>3, <2>1
  <2> QED
    BY <1>1, <2>1, <2>2 DEF MenuOK
<1>9. CASE ~ MenuAppend /\ ~ MenuCopy /\ ~ MenuRemove /\ ~ MenuRename
  <2>1. /\ menu' = menu /\ menuTmp' = menuTmp
        /\ pc' \notin {"menu_remove", "menu_rename"} \/ (pc' = pc /\ id' = id)
    BY <1>9, MenuAlone DEF menuFiles
  <2> QED
    BY <1>1, <1>2, <2>1 DEF MenuOK
<1> QED
  BY <1>5, <1>6, <1>7, <1>8, <1>9

(* The table in INSTALLED.DB, whichever step is taken.                      *)
LEMMA RegNext ==
    ASSUME FlowInv, [Next]_vars
    PROVE  /\ \A f \in {db', dbTmp'} : f = Absent \/ f \in Table
           /\ g_reg' \in Table /\ g_pkg' \in Defs
           /\ defs' \in [Ids -> {Absent} \cup Defs]
           /\ RegOK'
<1> DEFINE t == reg_load(db)
<1>1. /\ \A f \in {db, dbTmp} : f = Absent \/ f \in Table
      /\ g_reg \in Table /\ g_pkg \in Defs /\ id \in Ids
      /\ defs \in [Ids -> {Absent} \cup Defs]
      /\ t \in Table /\ Distinct(t) /\ Known(defs, t)
  BY FilesRead DEF FlowInv, TypeOK, RegOK
<1>2. RegOK
  BY DEF FlowInv
<1>3. <<>> \in Table /\ "page" \in Defs
  BY EmptySeq, NpkgAssumption DEF Table, NpkgAssumption, Defs
<1>4. \A d \in Defs : d # Absent
  BY NpkgValues DEF NpkgValues
<1> DEFINE Types == /\ \A f \in {db', dbTmp'} : f = Absent \/ f \in Table
                    /\ g_reg' \in Table /\ g_pkg' \in Defs
                    /\ defs' \in [Ids -> {Absent} \cup Defs]
<1> SUFFICES Types /\ RegOK'
  OBVIOUS
<1>5. ASSUME db' = db, dbTmp' = dbTmp, defs' = defs, g_reg' = <<>>, g_pkg' = "page", pc' = "idle"
      PROVE  Types /\ RegOK'
  <2>1. Types
    BY <1>1, <1>3, <1>5
  <2> QED
    BY <1>2, <1>5, <2>1 DEF RegOK
<1> USE DEF Continue, Goto, Exit, memory, caches, regFiles
<1>6. CASE cmd_update
  BY <1>5, <1>6 DEF cmd_update
<1>7. ASSUME NEW p \in Ids, cmd_info(p) \/ cmd_install(p) \/ cmd_remove(p)
      PROVE  Types /\ RegOK'
  <2>1. db' = db /\ dbTmp' = dbTmp /\ defs' = defs /\ id' = p
    BY <1>7 DEF cmd_info, cmd_install, cmd_remove, Started
  <2>2. CASE pc' = "idle"
    BY <1>5, <1>7, <2>1, <2>2 DEF cmd_info, cmd_install, cmd_remove, Loaded
  <2>3. CASE pc' # "idle"
    <3>1. /\ pc' = "def" /\ g_reg' \in {g_reg, t} /\ g_pkg' = g_pkg
          /\ cmd' = "install" => ~ Has(t, p)
      BY <1>7, <2>3 DEF cmd_info, cmd_install, cmd_remove, Loaded, Started
    <3>2. Types
      BY <1>1, <2>1, <3>1
    <3> QED
      BY <1>2, <2>1, <3>1, <3>2 DEF RegOK
  <2> QED
    BY <2>2, <2>3
<1>8. CASE FetchDef
  <2>1. /\ pc = "def" /\ db' = db /\ dbTmp' = dbTmp /\ cmd' = cmd /\ id' = id
    BY <1>8 DEF FetchDef
  <2>2. PICK w \in IF defs[id] # Absent THEN [ok : {TRUE}, file : {defs[id]}] ELSE Downloads :
            /\ defs' = [defs EXCEPT ![id] = w.file]
            /\ IF w.ok /\ w.file # Absent
               THEN Parsed(w.file)
               ELSE \/ cmd = "remove" /\ Continue("auto_copy")
                    \/ cmd = "info" /\ Exit("done")
                    \/ cmd \in {"install", "profile"} /\ Exit("failed")
    BY <1>8 DEF FetchDef
  <2>3. w.file \in {Absent} \cup Defs /\ (defs[id] # Absent => w.file = defs[id])
    BY <1>1, <2>2 DEF Downloads, Defs
  <2>4. defs' \in [Ids -> {Absent} \cup Defs] /\ defs'[id] = w.file
    BY <1>1, <2>2, <2>3
  <2>5. Known(defs', t)
    <3>1. \A i \in DOMAIN t : t[i] \in Ent /\ t[i].id \in Ids
      BY <1>1, TableIs DEF Ent
    <3>2. \A q \in Ids : defs[q] # Absent => defs'[q] = defs[q]
      BY <1>1, <2>2, <2>3
    <3> QED
      BY <1>1, <3>1, <3>2 DEF Known
  <2>6. /\ g_reg' \in {g_reg, <<>>} /\ g_pkg' \in {g_pkg, "page", w.file}
        /\ \/ w.file # Absent /\ g_pkg' = w.file /\ cmd = "install" /\ pc' = "archive"
           \/ w.file # Absent /\ g_pkg' = w.file /\ cmd = "remove" /\ pc' = "lines"
           \/ g_pkg' \in {g_pkg, "page"} /\ cmd = "remove" /\ pc' = "auto_copy"
           \/ g_pkg' \in {g_pkg, "page"} /\ pc' = "idle"
    BY <2>2 DEF Parsed
  <2>7. Types
    <3>1. g_pkg' \in Defs
      BY <1>1, <1>3, <2>3, <2>6
    <3> QED
      BY <1>1, <1>3, <2>1, <2>4, <2>6, <3>1
  <2> QED
    BY <1>1, <1>2, <2>1, <2>4, <2>5, <2>6, <2>7 DEF RegOK
<1>9. CASE FetchAndExtract \/ AutoAppend
  <2>1. /\ db' = db /\ dbTmp' = dbTmp /\ defs' = defs /\ cmd' = cmd /\ id' = id
        /\ \/ pc' = "idle" /\ g_reg' = <<>> /\ g_pkg' = "page"
           \/ pc = "archive" /\ pc' = "auto_add" /\ g_reg' = g_reg /\ g_pkg' = g_pkg
           \/ pc = "auto_add" /\ pc' = "reg_add" /\ g_reg' = g_reg /\ g_pkg' = g_pkg
    BY <1>9 DEF FetchAndExtract, AutoAppend
  <2>2. Types
    BY <1>1, <1>3, <2>1
  <2> QED
    BY <1>2, <2>1, <2>2 DEF RegOK
<1>10. CASE RegAdd
  <2> DEFINE e == [id |-> id, ver |-> g_pkg]
  <2>1. /\ pc = "reg_add" /\ db' = db /\ dbTmp' = dbTmp /\ defs' = defs /\ cmd' = cmd /\ id' = id
        /\ g_pkg' = g_pkg
    BY <1>10 DEF RegAdd
  <2>2. cmd = "install" /\ ~ Has(t, id)
    BY <1>2, <2>1 DEF RegOK
  <2>3. \/ Len(t) < MaxEntries /\ g_reg' = Added(t, e) /\ pc' = "reg_write"
        \/ g_reg' = t /\ pc' = "menu_add"
    BY <1>10, <2>2 DEF RegAdd
  <2>4. Added(t, e) = Append(t, e) /\ (Len(t) < MaxEntries => Append(t, e) \in Table)
    BY <1>1, <2>2, TableWith
  <2>5. Types
    BY <1>1, <2>1, <2>3, <2>4
  <2> QED
    BY <1>2, <2>1, <2>2, <2>3, <2>4, <2>5 DEF RegOK
<1>11. CASE RegDrop
  <2>1. /\ pc = "reg_drop" /\ db' = db /\ dbTmp' = dbTmp /\ defs' = defs /\ cmd' = cmd /\ id' = id
        /\ g_pkg' = g_pkg /\ Has(t, id) /\ g_reg' = Without(t, id) /\ pc' = "reg_write"
    BY <1>11 DEF RegDrop
  <2>2. Without(t, id) \in Table
    BY <1>1, <2>1, TableWithout
  <2>3. Types
    BY <1>1, <2>1, <2>2
  <2>4. cmd = "remove"
    BY <1>2, <2>1 DEF RegOK
  <2> QED
    BY <1>2, <2>1, <2>3, <2>4 DEF RegOK
<1>12. CASE SaveWrite
  <2>1. /\ pc = "reg_write" /\ db' = db /\ defs' = defs /\ cmd' = cmd /\ id' = id
        /\ \/ pc' = "reg_remove" /\ dbTmp' = g_reg /\ g_reg' = g_reg /\ g_pkg' = g_pkg
           \/ cmd = "install" /\ pc' = "menu_add" /\ dbTmp' = dbTmp /\ g_reg' = g_reg /\ g_pkg' = g_pkg
           \/ pc' = "idle" /\ dbTmp' = dbTmp /\ g_reg' = <<>> /\ g_pkg' = "page"
    BY <1>12 DEF SaveWrite, DbFile!WriteTmp, Saved
  <2>2. Types
    BY <1>1, <1>3, <2>1
  <2> QED
    BY <1>2, <2>1, <2>2 DEF RegOK
<1>13. CASE SaveRemove
  <2>1. /\ pc = "reg_remove" /\ db' = Absent /\ dbTmp' = dbTmp /\ defs' = defs /\ cmd' = cmd /\ id' = id
        /\ pc' = "reg_rename" /\ g_reg' = g_reg /\ g_pkg' = g_pkg
    BY <1>13 DEF SaveRemove, DbFile!RemoveOld
  <2>2. Types
    BY <1>1, <2>1
  <2>3. dbTmp = g_reg /\ cmd \in {"install", "remove"}
    BY <1>2, <2>1 DEF RegOK
  <2>4. Distinct(dbTmp) /\ Known(defs, dbTmp) /\ (Has(dbTmp, id) <=> cmd = "install")
    <3>1. CASE cmd = "install"
      <4>1. ~ Has(t, id) /\ dbTmp = Append(t, [id |-> id, ver |-> g_pkg]) /\ defs[id] # Absent
        BY <1>1, <1>2, <1>4, <2>1, <2>3, <3>1 DEF RegOK
      <4> QED
        BY <1>1, <3>1, <4>1, TableWith
    <3>2. CASE cmd = "remove"
      <4>1. Has(t, id) /\ dbTmp = Without(t, id)
        BY <1>2, <2>1, <2>3, <3>2 DEF RegOK
      <4> QED
        BY <1>1, <3>2, <4>1, TableWithout
    <3> QED
      BY <2>3, <3>1, <3>2
  <2>5. Distinct(reg_load(db')) /\ Known(defs, reg_load(db'))
    BY <2>1, LoadTable, NothingListed
  <2> QED
    BY <1>1, <1>2, <2>1, <2>2, <2>3, <2>4, <2>5 DEF RegOK
<1>14. CASE SaveRename
  <2>1. /\ pc = "reg_rename" /\ db' = dbTmp /\ dbTmp' = Absent /\ defs' = defs /\ cmd' = cmd /\ id' = id
        /\ \/ cmd = "install" /\ pc' = "menu_add" /\ g_reg' = g_reg /\ g_pkg' = g_pkg
           \/ pc' = "idle" /\ g_reg' = <<>> /\ g_pkg' = "page"
    BY <1>14 DEF SaveRename, DbFile!RenameTmp, Saved
  <2>2. Types
    BY <1>1, <1>3, <2>1
  <2>3. Distinct(reg_load(db')) /\ Known(defs, reg_load(db'))
    BY <1>2, <2>1, LoadTable DEF RegOK
  <2> QED
    BY <1>2, <2>1, <2>2, <2>3 DEF RegOK
<1>15. CASE MenuAppend \/ PowerLoss
  BY <1>5, <1>15 DEF MenuAppend, PowerLoss
<1>16. CASE RunRemoveLines \/ AutoCopy \/ AutoRemove \/ AutoRename \/ MenuCopy \/ MenuRemove \/ MenuRename
  <2>1. /\ db' = db /\ dbTmp' = dbTmp /\ defs' = defs /\ cmd' = cmd /\ id' = id
        /\ g_reg' = g_reg /\ g_pkg' = g_pkg
        /\ pc \in {"lines", "auto_copy", "auto_remove", "auto_rename", "menu_copy", "menu_remove", "menu_rename"}
        /\ pc' \in {"auto_copy", "auto_remove", "auto_rename", "menu_copy", "menu_remove", "menu_rename",
                    "reg_drop"}
    BY <1>16 DEF RunRemoveLines, AutoCopy, AutoRemove, AutoRename, MenuCopy, MenuRemove, MenuRename
  <2>2. Types
    BY <1>1, <2>1
  <2>3. cmd = "remove"
    BY <1>2, <2>1 DEF RegOK
  <2> QED
    BY <1>2, <2>1, <2>2, <2>3 DEF RegOK
<1>17. CASE UNCHANGED vars
  <2>1. /\ db' = db /\ dbTmp' = dbTmp /\ defs' = defs /\ cmd' = cmd /\ id' = id
        /\ g_reg' = g_reg /\ g_pkg' = g_pkg /\ pc' = pc
    BY <1>17 DEF vars
  <2>2. Types
    BY <1>1, <2>1
  <2> QED
    BY <1>2, <2>1, <2>2 DEF RegOK
<1> QED
  BY <1>6, <1>7, <1>8, <1>9, <1>10, <1>11, <1>12, <1>13, <1>14, <1>15, <1>16, <1>17 DEF Next, Step

LEMMA FlowNext ==
    ASSUME FlowInv, [Next]_vars
    PROVE  FlowInv'
<1>1. TypeOK
  BY DEF FlowInv
<1>2. /\ index' \in {Absent} \cup SUBSET Ids /\ files' \subseteq Ids /\ id' \in Ids
      /\ cmd' \in {"none", "update", "info", "profile", "install", "remove"}
  BY <1>1 DEF TypeOK, Next, Step, vars, cmd_update, cmd_info, cmd_install, cmd_remove, Started, FetchDef,
              FetchAndExtract, AutoAppend, RegAdd, RegDrop, SaveWrite, SaveRemove, SaveRename, MenuAppend,
              RunRemoveLines, AutoCopy, AutoRemove, AutoRename, MenuCopy, MenuRemove, MenuRename, PowerLoss,
              caches
<1>3. /\ pc' \in {"idle", "def", "archive", "auto_add", "reg_add", "reg_write", "reg_remove",
                  "reg_rename", "menu_add", "lines", "auto_copy", "auto_remove",
                  "auto_rename", "menu_copy", "menu_remove", "menu_rename", "reg_drop"}
      /\ status' \in {"none", "done", "failed"}
  BY <1>1 DEF TypeOK, Next, Step, vars, cmd_update, cmd_info, cmd_install, cmd_remove, Started, FetchDef,
              FetchAndExtract, AutoAppend, RegAdd, RegDrop, SaveWrite, SaveRemove, SaveRename, MenuAppend,
              RunRemoveLines, AutoCopy, AutoRemove, AutoRename, MenuCopy, MenuRemove, MenuRename, PowerLoss,
              Continue, Goto, Exit, Loaded, Parsed, Saved
<1>4. cuts' \in 0 .. MaxCuts /\ refused' \in 0 .. MaxRefused
  <2>1. \/ UNCHANGED mishaps
        \/ cuts < MaxCuts /\ cuts' = cuts + 1 /\ UNCHANGED refused
        \/ refused < MaxRefused /\ refused' = refused + 1 /\ UNCHANGED cuts
    BY DEF Next, Step, vars, cmd_update, cmd_info, cmd_install, cmd_remove, Started, FetchDef,
           FetchAndExtract, AutoAppend, RegAdd, RegDrop, SaveWrite, SaveRemove, SaveRename, MenuAppend,
           RunRemoveLines, AutoCopy, AutoRemove, AutoRename, MenuCopy, MenuRemove, MenuRename, PowerLoss,
           Opens, Refuses
  <2> QED
    BY <1>1, <2>1, NpkgAssumption DEF TypeOK, NpkgAssumption, mishaps
<1>5. TypeOK'
  BY <1>2, <1>3, <1>4, AutoNext, MenuNext, RegNext DEF TypeOK
<1> QED
  BY <1>5, AutoNext, MenuNext, RegNext DEF FlowInv

(* TypeOK holds of every reachable state, whatever packages there are and   *)
(* however often the power fails.                                           *)
THEOREM NpkgTypeOK == Spec => []TypeOK
<1>1. FlowInv /\ [Next]_vars => FlowInv'
  BY FlowNext
<1>2. FlowInv => TypeOK
  BY DEF FlowInv
<1> QED
  BY FlowInit, <1>1, <1>2, PTL DEF Spec

------------------------------------------------------------------------------
(* What the three files say, from one step to the next.                     *)

LEMMA NowIs ==
    ASSUME FlowInv
    PROVE  /\ AutoNow \in Seq(AutoLine) /\ Tidy(AutoNow)
           /\ MenuNow \in Seq(MenuItem) /\ Followed(MenuNow)
           /\ RegNow \in Table /\ Distinct(RegNow) /\ Known(defs, RegNow)
<1>1. AutoOK /\ MenuOK /\ RegOK
  BY DEF FlowInv
<1>2. /\ Text(auto) \in Seq(AutoLine) /\ Text(menu) \in Seq(MenuItem)
      /\ Text(autoTmp) \in Seq(AutoLine) /\ Text(menuTmp) \in Seq(MenuItem)
      /\ reg_load(db) \in Table /\ reg_load(dbTmp) \in Table
  BY FilesRead, EmptySeq DEF FlowInv, TypeOK, Text
<1>3. AutoNow \in Seq(AutoLine) /\ Tidy(AutoNow)
  BY <1>1, <1>2 DEF AutoNow, AutoOK, Text
<1>4. MenuNow \in Seq(MenuItem) /\ Followed(MenuNow)
  BY <1>1, <1>2 DEF MenuNow, MenuOK, Text
<1>5. RegNow \in Table /\ Distinct(RegNow) /\ Known(defs, RegNow)
  <2>1. dbTmp \in Table => reg_load(dbTmp) = dbTmp
    BY FilesRead
  <2> QED
    BY <1>1, <1>2, <2>1 DEF RegNow, RegOK
<1> QED
  BY <1>3, <1>4, <1>5

(* AUTOEXEC.BAT gains a block when nos_update_autoexec appends it and loses *)
(* one when remove_autoexec_block removes the old file.                     *)
LEMMA AutoSteps ==
    ASSUME FlowInv, [Next]_vars, ~ PowerLoss
    PROVE  \/ /\ AutoNow' = AutoNow /\ ~ AutoRemove
              /\ AutoAppend => id \notin EnvIds \/ refused' # 0
           \/ AutoAppend /\ id \in EnvIds /\ AutoNow' = AutoNow \o Block(id)
           \/ AutoRemove /\ AutoNow' = StripBlocks(AutoNow, id)
<1>1. AutoOK
  BY DEF FlowInv
<1> USE DEF Continue, Goto, Exit
<1>2. CASE AutoAppend
  <2>1. pc = "auto_add" /\ pc' \in {"reg_add", "idle"} /\ autoTmp' = autoTmp
    BY <1>2 DEF AutoAppend
  <2>2. AutoNow = Text(auto) /\ AutoNow' = Text(auto')
    BY <2>1 DEF AutoNow, Text
  <2>3. refused \in Nat
    BY NpkgAssumption DEF FlowInv, TypeOK, NpkgAssumption
  <2>4. \/ auto' = auto /\ (id \notin EnvIds \/ refused' = refused + 1)
        \/ id \in EnvIds /\ auto' = Text(auto) \o Block(id)
    BY <1>2 DEF AutoAppend, Refuses
  <2>5. Text(auto) \o Block(id) # Absent
    BY TextsWritten
  <2>6. Text(Text(auto) \o Block(id)) = Text(auto) \o Block(id)
    BY <2>5 DEF Text
  <2>7. ~ AutoRemove
    BY <2>1 DEF AutoRemove
  <2>8. refused' = refused + 1 => refused' # 0
    BY <2>3
  <2> QED
    BY <1>2, <2>2, <2>4, <2>6, <2>7, <2>8
<1>3. CASE AutoCopy
  <2>1. pc = "auto_copy" /\ pc' \in {"auto_remove", "menu_copy"} /\ auto' = auto
    BY <1>3 DEF AutoCopy, AutoFile!WriteTmp, autoFiles
  <2>2. AutoNow = Text(auto) /\ AutoNow' = Text(auto)
    BY <2>1 DEF AutoNow, Text
  <2> QED
    BY <2>1, <2>2 DEF AutoRemove, AutoAppend
<1>4. CASE AutoRemove
  <2>1. pc = "auto_remove" /\ pc' = "auto_rename" /\ auto' = Absent /\ autoTmp' = autoTmp
    BY <1>4 DEF AutoRemove, AutoFile!RemoveOld
  <2>2. auto # Absent /\ autoTmp = StripBlocks(auto, id)
    BY <1>1, <2>1 DEF AutoOK
  <2>3. autoTmp # Absent
    BY <2>2, TextsWritten
  <2>4. AutoNow = auto /\ AutoNow' = autoTmp
    BY <2>1, <2>2, <2>3 DEF AutoNow, Text
  <2> QED
    BY <1>4, <2>2, <2>4
<1>5. CASE AutoRename
  <2>1. pc = "auto_rename" /\ pc' = "menu_copy" /\ auto = Absent /\ auto' = autoTmp
    BY <1>5 DEF AutoRename, AutoFile!RenameTmp
  <2>2. AutoNow = Text(autoTmp) /\ AutoNow' = Text(autoTmp)
    BY <2>1 DEF AutoNow, Text
  <2> QED
    BY <2>1, <2>2 DEF AutoRemove, AutoAppend
<1>6. CASE ~ AutoAppend /\ ~ AutoCopy /\ ~ AutoRemove /\ ~ AutoRename
  <2>1. /\ auto' = auto /\ autoTmp' = autoTmp
        /\ pc' # "auto_rename" \/ pc' = pc
        /\ pc # "auto_rename" \/ pc' = pc
    BY <1>6, AutoAlone DEF autoFiles
  <2>2. AutoNow' = AutoNow
    BY <2>1 DEF AutoNow, Text
  <2> QED
    BY <1>6, <2>2
<1> QED
  BY <1>2, <1>3, <1>4, <1>5, <1>6

(* LAUNCHER.CFG gains an entry when nos_install_register_launcher appends   *)
(* it and loses one when nos_install_remove_launcher removes the old file.  *)
LEMMA MenuSteps ==
    ASSUME FlowInv, [Next]_vars, ~ PowerLoss
    PROVE  \/ /\ MenuNow' = MenuNow /\ ~ MenuRemove
              /\ MenuAppend => \/ id \notin MenuIds \/ ~ HasTail(g_pkg)
                               \/ HasMarker(PiecesOf(MenuNow), id) \/ refused' # 0
           \/ /\ MenuAppend /\ id \in MenuIds /\ HasTail(g_pkg)
              /\ ~ HasMarker(PiecesOf(MenuNow), id) /\ MenuNow' = MenuNow \o Registration(id)
           \/ MenuRemove /\ MenuNow' = StripLauncher(MenuNow, id)
<1>1. MenuOK
  BY DEF FlowInv
<1> USE DEF Continue, Goto, Exit
<1>2. CASE MenuAppend
  <2>1. pc = "menu_add" /\ pc' = "idle"
    BY <1>2 DEF MenuAppend
  <2>2. MenuNow = Text(menu) /\ MenuNow' = Text(menu')
    BY <2>1 DEF MenuNow, Text
  <2>3. refused \in Nat
    BY NpkgAssumption DEF FlowInv, TypeOK, NpkgAssumption
  <2>4. \/ /\ id \in MenuIds /\ HasTail(g_pkg) /\ ~ HasMarker(PiecesOf(Text(menu)), id)
           /\ menu' = Text(menu) \o Registration(id)
        \/ menu' = menu /\ refused' = refused + 1
        \/ /\ menu' = menu
           /\ id \notin MenuIds \/ ~ HasTail(g_pkg) \/ HasMarker(PiecesOf(Text(menu)), id)
    BY <1>2 DEF MenuAppend, Refuses
  <2>5. Text(menu) \o Registration(id) # Absent
    BY TextsWritten
  <2>6. Text(Text(menu) \o Registration(id)) = Text(menu) \o Registration(id)
    BY <2>5 DEF Text
  <2>7. ~ MenuRemove
    BY <2>1 DEF MenuRemove
  <2>8. refused' = refused + 1 => refused' # 0
    BY <2>3
  <2> QED
    BY <1>2, <2>2, <2>4, <2>6, <2>7, <2>8
<1>3. CASE MenuCopy
  <2>1. pc = "menu_copy" /\ pc' \in {"menu_remove", "reg_drop"} /\ menu' = menu
    BY <1>3 DEF MenuCopy, MenuFile!WriteTmp, menuFiles
  <2>2. MenuNow = Text(menu) /\ MenuNow' = Text(menu)
    BY <2>1 DEF MenuNow, Text
  <2> QED
    BY <2>1, <2>2 DEF MenuRemove, MenuAppend
<1>4. CASE MenuRemove
  <2>1. pc = "menu_remove" /\ pc' = "menu_rename" /\ menu' = Absent /\ menuTmp' = menuTmp
    BY <1>4 DEF MenuRemove, MenuFile!RemoveOld
  <2>2. menu # Absent /\ menuTmp = StripLauncher(menu, id)
    BY <1>1, <2>1 DEF MenuOK
  <2>3. menuTmp # Absent
    BY <2>2, TextsWritten
  <2>4. MenuNow = menu /\ MenuNow' = menuTmp
    BY <2>1, <2>2, <2>3 DEF MenuNow, Text
  <2> QED
    BY <1>4, <2>2, <2>4
<1>5. CASE MenuRename
  <2>1. pc = "menu_rename" /\ pc' = "reg_drop" /\ menu = Absent /\ menu' = menuTmp
    BY <1>5 DEF MenuRename, MenuFile!RenameTmp
  <2>2. MenuNow = Text(menuTmp) /\ MenuNow' = Text(menuTmp)
    BY <2>1 DEF MenuNow, Text
  <2> QED
    BY <2>1, <2>2 DEF MenuRemove, MenuAppend
<1>6. CASE ~ MenuAppend /\ ~ MenuCopy /\ ~ MenuRemove /\ ~ MenuRename
  <2>1. /\ menu' = menu /\ menuTmp' = menuTmp
        /\ pc' # "menu_rename" \/ pc' = pc
        /\ pc # "menu_rename" \/ pc' = pc
    BY <1>6, MenuAlone DEF menuFiles
  <2>2. MenuNow' = MenuNow
    BY <2>1 DEF MenuNow, Text
  <2> QED
    BY <1>6, <2>2
<1> QED
  BY <1>2, <1>3, <1>4, <1>5, <1>6

LEMMA RegAlone ==
    ASSUME [Next]_vars, ~ SaveRemove, ~ SaveRename, ~ PowerLoss
    PROVE  /\ db' = db
           /\ pc' = "reg_rename" \/ pc = "reg_rename" => pc' = pc /\ dbTmp' = dbTmp
<1> USE DEF regFiles, Continue, Goto, Exit, Started, Loaded
<1>1. CASE cmd_update
  BY <1>1 DEF cmd_update
<1>2. ASSUME NEW p \in Ids, cmd_info(p) \/ cmd_install(p) \/ cmd_remove(p)
      PROVE  db' = db /\ pc' # "reg_rename" /\ pc # "reg_rename"
  BY <1>2 DEF cmd_info, cmd_install, cmd_remove
<1>3. CASE FetchDef \/ FetchAndExtract \/ RunRemoveLines
  BY <1>3 DEF FetchDef, FetchAndExtract, RunRemoveLines, Parsed
<1>4. CASE RegAdd \/ SaveWrite \/ RegDrop
  BY <1>4 DEF RegAdd, SaveWrite, RegDrop, Saved, DbFile!WriteTmp
<1>5. CASE AutoAppend \/ AutoCopy \/ AutoRemove \/ AutoRename
  BY <1>5 DEF AutoAppend, AutoCopy, AutoRemove, AutoRename
<1>6. CASE MenuAppend \/ MenuCopy \/ MenuRemove \/ MenuRename
  BY <1>6 DEF MenuAppend, MenuCopy, MenuRemove, MenuRename
<1>7. CASE UNCHANGED vars
  BY <1>7 DEF vars
<1> QED
  BY <1>1, <1>2, <1>3, <1>4, <1>5, <1>6, <1>7 DEF Next, Step

(* The registry changes when reg_save removes the old INSTALLED.DB: by the  *)
(* package of the command and no other.                                     *)
LEMMA RegSteps ==
    ASSUME FlowInv, [Next]_vars, ~ PowerLoss
    PROVE  \/ RegNow' = RegNow /\ ~ SaveRemove
           \/ /\ SaveRemove /\ cmd = "install"
              /\ ~ Has(RegNow, id) /\ \A q : Has(RegNow', q) <=> Has(RegNow, q) \/ q = id
              /\ Rest(RegNow', EntriesOf(id)) = Rest(RegNow, EntriesOf(id))
           \/ /\ SaveRemove /\ cmd = "remove"
              /\ Has(RegNow, id) /\ \A q : Has(RegNow', q) <=> Has(RegNow, q) /\ q # id
              /\ Rest(RegNow', EntriesOf(id)) = Rest(RegNow, EntriesOf(id))
<1>1. RegOK
  BY DEF FlowInv
<1> USE DEF Continue, Goto, Exit
<1>2. CASE SaveRemove
  <2>1. pc = "reg_remove" /\ pc' = "reg_rename" /\ dbTmp' = dbTmp
    BY <1>2 DEF SaveRemove, DbFile!RemoveOld
  <2>2. dbTmp = g_reg /\ cmd \in {"install", "remove"}
    BY <1>1, <2>1 DEF RegOK
  <2>3. g_reg \in Table /\ id \in Ids /\ g_pkg \in Defs
    BY DEF FlowInv, TypeOK
  <2>4. RegNow = reg_load(db) /\ RegNow' = dbTmp
    <3>1. reg_load(dbTmp) = dbTmp
      BY <2>2, <2>3, LoadTable
    <3> QED
      BY <2>1, <3>1 DEF RegNow, reg_load
  <2>5. RegNow \in Table /\ Distinct(RegNow) /\ Known(defs, RegNow)
    BY NowIs
  <2>6. CASE cmd = "install"
    <3>1. ~ Has(RegNow, id) /\ RegNow' = Append(RegNow, [id |-> id, ver |-> g_pkg])
      BY <1>1, <2>1, <2>2, <2>4, <2>6 DEF RegOK
    <3> QED
      BY <1>2, <2>3, <2>5, <2>6, <3>1, TableWith
  <2>7. CASE cmd = "remove"
    <3>1. Has(RegNow, id) /\ RegNow' = Without(RegNow, id)
      BY <1>1, <2>1, <2>2, <2>4, <2>7 DEF RegOK
    <3> QED
      BY <1>2, <2>3, <2>5, <2>7, <3>1, TableWithout
  <2> QED
    BY <2>2, <2>6, <2>7
<1>3. CASE SaveRename
  <2>1. pc = "reg_rename" /\ pc' # "reg_rename" /\ db' = dbTmp
    BY <1>3 DEF SaveRename, DbFile!RenameTmp, Saved
  <2>2. RegNow = reg_load(dbTmp) /\ RegNow' = reg_load(dbTmp)
    BY <2>1 DEF RegNow, reg_load
  <2> QED
    BY <2>1, <2>2 DEF SaveRemove
<1>4. CASE ~ SaveRemove /\ ~ SaveRename
  <2>1. RegNow' = RegNow
    BY <1>4, RegAlone DEF RegNow, reg_load
  <2> QED
    BY <1>4, <2>1
<1> QED
  BY <1>2, <1>3, <1>4

(* No step of a command changes what belongs to another package or to the   *)
(* user, if every entry fits the 128 bytes LAUNCHER.CFG is read by: a       *)
(* longer entry of another package is broken in two lines (LauncherCfg).    *)
THEOREM NpkgOthersUntouched ==
    ASSUME LongEntries = {}
    PROVE  Spec => OthersUntouched
<1> DEFINE Untouched == /\ SameBut(AutoLinesOf(id'), AutoNow, AutoNow')
                        /\ SameBut(MenuLinesOf(id'), MenuNow, MenuNow')
                        /\ SameBut(EntriesOf(id'), RegNow, RegNow')
                        /\ \A q \in Ids \ {id'} : defs'[q] = defs[q] /\ (q \in files' <=> q \in files)
<1>1. ASSUME FlowInv, [Next]_vars PROVE FlowInv'
  BY <1>1, FlowNext
<1>2. ASSUME FlowInv, [Next]_vars, ~ PowerLoss PROVE Untouched
  <2>1. id \in Ids /\ defs \in [Ids -> {Absent} \cup Defs]
    BY <1>2 DEF FlowInv, TypeOK
  <2>2. SameBut(AutoLinesOf(id'), AutoNow, AutoNow')
    <3>1. ASSUME NEW f \in Seq(AutoLine), Tidy(f)
          PROVE  /\ Rest(f \o Block(id), AutoLinesOf(id)) = Rest(f, AutoLinesOf(id))
                 /\ Rest(StripBlocks(f, id), AutoLinesOf(id)) = Rest(f, AutoLinesOf(id))
      BY <2>1, <3>1, AppendKeeps, StripKeeps
    <3>2. AutoAppend \/ AutoRemove => id' = id
      BY DEF AutoAppend, AutoRemove
    <3> QED
      BY <1>2, <3>1, <3>2, AutoSteps, NowIs DEF SameBut
  <2>3. SameBut(MenuLinesOf(id'), MenuNow, MenuNow')
    <3>1. ASSUME NEW f \in Seq(MenuItem), Followed(f)
          PROVE  /\ Rest(f \o Registration(id), MenuLinesOf(id)) = Rest(f, MenuLinesOf(id))
                 /\ Rest(StripLauncher(f, id), MenuLinesOf(id)) = Rest(f, MenuLinesOf(id))
      BY <2>1, <3>1, MenuItems, LauncherWith, LauncherWithout
    <3>2. MenuAppend \/ MenuRemove => id' = id
      BY DEF MenuAppend, MenuRemove
    <3> QED
      BY <1>2, <3>1, <3>2, MenuSteps, NowIs DEF SameBut
  <2>4. SameBut(EntriesOf(id'), RegNow, RegNow')
    <3>1. SaveRemove => id' = id
      BY DEF SaveRemove
    <3> QED
      BY <1>2, <3>1, RegSteps DEF SameBut
  <2>5. \A q \in Ids \ {id'} : defs'[q] = defs[q]
    <3>1. defs' = defs \/ (id' = id /\ \E v : defs' = [defs EXCEPT ![id] = v])
      <4>1. FetchDef => id' = id /\ \E v : defs' = [defs EXCEPT ![id] = v]
        BY DEF FetchDef
      <4>2. ~ FetchDef => defs' = defs
        BY <1>2 DEF Next, Step, vars, cmd_update, cmd_info, cmd_install, cmd_remove, Started, FetchAndExtract,
                 AutoAppend, RegAdd, RegDrop, SaveWrite, SaveRemove, SaveRename, MenuAppend, RunRemoveLines,
                 AutoCopy, AutoRemove, AutoRename, MenuCopy, MenuRemove, MenuRename, caches
      <4> QED
        BY <4>1, <4>2
    <3> QED
      BY <2>1, <3>1
  <2>6. \A q \in Ids \ {id'} : q \in files' <=> q \in files
    <3>1. files' = files \/ (id' = id /\ files' \in {files \cup {id}, files \ {id}})
      <4>1. FetchAndExtract \/ RunRemoveLines => id' = id /\ files' \in {files, files \cup {id}, files \ {id}}
        BY DEF FetchAndExtract, RunRemoveLines
      <4>2. ~ FetchAndExtract /\ ~ RunRemoveLines => files' = files
        BY <1>2 DEF Next, Step, vars, cmd_update, cmd_info, cmd_install, cmd_remove, Started, FetchDef,
                 AutoAppend, RegAdd, RegDrop, SaveWrite, SaveRemove, SaveRename, MenuAppend,
                 AutoCopy, AutoRemove, AutoRename, MenuCopy, MenuRemove, MenuRename
      <4> QED
        BY <4>1, <4>2
    <3> QED
      BY <3>1
  <2> QED
    BY <2>2, <2>3, <2>4, <2>5, <2>6
<1>3. FlowInv /\ [Next]_vars => [~ PowerLoss => Untouched]_vars
  BY <1>2
<1>4. Init => FlowInv
  BY FlowInit
<1> QED
  BY <1>1, <1>3, <1>4, PTL DEF Spec, OthersUntouched

(* The steps of a command that no file refuses.                             *)
LEMMA StepPath ==
    ASSUME FlowInv, Step, refused' = 0
    PROVE  /\ cmd' = cmd /\ id' = id /\ refused = 0 /\ ~ PowerLoss
           /\ \/ /\ FetchDef /\ pc = "def" /\ pc' \in {"archive", "lines", "auto_copy", "idle"}
                 /\ cmd = "remove" => pc' \in {"lines", "auto_copy"}
              \/ FetchAndExtract /\ pc = "archive" /\ pc' \in {"auto_add", "idle"}
              \/ AutoAppend /\ pc = "auto_add" /\ pc' = "reg_add"
              \/ /\ RegAdd /\ pc = "reg_add"
                 /\ pc' = "reg_write" \/ (pc' = "menu_add" /\ Len(reg_load(db)) >= MaxEntries)
              \/ SaveWrite /\ pc = "reg_write" /\ pc' = "reg_remove"
              \/ SaveRemove /\ pc = "reg_remove" /\ pc' = "reg_rename"
              \/ SaveRename /\ pc = "reg_rename" /\ pc' = (IF cmd = "install" THEN "menu_add" ELSE "idle")
              \/ MenuAppend /\ pc = "menu_add" /\ pc' = "idle"
              \/ RunRemoveLines /\ pc = "lines" /\ pc' = "auto_copy"
              \/ /\ AutoCopy /\ pc = "auto_copy"
                 /\ pc' = "auto_remove" \/ (pc' = "menu_copy" /\ auto = Absent)
              \/ AutoRemove /\ pc = "auto_remove" /\ pc' = "auto_rename"
              \/ AutoRename /\ pc = "auto_rename" /\ pc' = "menu_copy"
              \/ /\ MenuCopy /\ pc = "menu_copy"
                 /\ pc' = "menu_remove" \/ (pc' = "reg_drop" /\ menu = Absent)
              \/ MenuRemove /\ pc = "menu_remove" /\ pc' = "menu_rename"
              \/ MenuRename /\ pc = "menu_rename" /\ pc' = "reg_drop"
              \/ RegDrop /\ pc = "reg_drop" /\ pc' = "reg_write"
<1> USE DEF Continue, Goto, Exit
<1>1. refused \in Nat /\ cuts \in Nat
  BY NpkgAssumption DEF FlowInv, TypeOK, NpkgAssumption
<1>2. ~ Refuses
  BY <1>1 DEF Refuses
<1>3. cmd' = cmd /\ id' = id /\ refused = 0 /\ cuts' = cuts
  BY <1>2 DEF Step, FetchDef, FetchAndExtract, AutoAppend, RegAdd, RegDrop, SaveWrite, SaveRemove, SaveRename,
     MenuAppend, RunRemoveLines, AutoCopy, AutoRemove, AutoRename, MenuCopy, MenuRemove, MenuRename,
     Opens, mishaps
<1>4. ~ PowerLoss
  BY <1>1, <1>3 DEF PowerLoss
<1>5. FetchDef => /\ pc = "def" /\ pc' \in {"archive", "lines", "auto_copy", "idle"}
                  /\ cmd = "remove" => pc' \in {"lines", "auto_copy"}
  BY DEF FetchDef, Parsed
<1>6. /\ RunRemoveLines => pc = "lines" /\ pc' = "auto_copy"
      /\ AutoRemove => pc = "auto_remove" /\ pc' = "auto_rename"
      /\ AutoRename => pc = "auto_rename" /\ pc' = "menu_copy"
      /\ MenuRemove => pc = "menu_remove" /\ pc' = "menu_rename"
      /\ MenuRename => pc = "menu_rename" /\ pc' = "reg_drop"
      /\ RegDrop => pc = "reg_drop" /\ pc' = "reg_write"
      /\ SaveRemove => pc = "reg_remove" /\ pc' = "reg_rename"
      /\ MenuAppend => pc = "menu_add" /\ pc' = "idle"
  BY DEF RunRemoveLines, AutoRemove, AutoRename, MenuRemove, MenuRename, RegDrop, SaveRemove, MenuAppend
<1>7. /\ AutoCopy => pc = "auto_copy" /\ (pc' = "auto_remove" \/ (pc' = "menu_copy" /\ auto = Absent))
      /\ MenuCopy => pc = "menu_copy" /\ (pc' = "menu_remove" \/ (pc' = "reg_drop" /\ menu = Absent))
  BY <1>2 DEF AutoCopy, MenuCopy
<1>8. /\ SaveWrite => pc = "reg_write" /\ pc' = "reg_remove"
      /\ SaveRename => pc = "reg_rename" /\ pc' = IF cmd = "install" THEN "menu_add" ELSE "idle"
      /\ AutoAppend => pc = "auto_add" /\ pc' = "reg_add"
  BY <1>2 DEF SaveWrite, SaveRename, AutoAppend, Saved
<1>9. /\ FetchAndExtract => pc = "archive" /\ pc' \in {"auto_add", "idle"}
      /\ RegAdd => /\ pc = "reg_add"
                   /\ pc' = "reg_write" \/ (pc' = "menu_add" /\ Len(reg_load(db)) >= MaxEntries)
  BY DEF FetchAndExtract, RegAdd
<1> QED
  BY <1>3, <1>4, <1>5, <1>6, <1>7, <1>8, <1>9 DEF Step

(* The steps of a REMOVE after which something of its package is gone.      *)
Gone(steps) == pc \in steps \/ (pc = "idle" /\ status = "done" /\ ~ Registered(id))

(* A REMOVE that no file refused: its block is gone once the old AUTOEXEC   *)
(* is, its marker once the old menu is.                                     *)
RemoveInv ==
    cmd = "remove" /\ refused = 0 =>
        /\ Gone({"auto_rename", "menu_copy", "menu_remove", "menu_rename", "reg_drop",
                 "reg_write", "reg_remove", "reg_rename"}) => NoBlock(AutoNow, id)
        /\ Gone({"menu_rename", "reg_drop", "reg_write", "reg_remove", "reg_rename"}) =>
              ~ HasMarker(MenuNow, id)

LEMMA RemoveNext ==
    ASSUME FlowInv, RemoveInv, [Next]_vars
    PROVE  RemoveInv'
<1> SUFFICES ASSUME cmd' = "remove", refused' = 0 PROVE RemoveInv'
  BY DEF RemoveInv
<1> DEFINE A == {"auto_rename", "menu_copy", "menu_remove", "menu_rename", "reg_drop",
                 "reg_write", "reg_remove", "reg_rename"}
           M == {"menu_rename", "reg_drop", "reg_write", "reg_remove", "reg_rename"}
<1>1. refused \in Nat /\ RegOK /\ id \in Ids
  BY NpkgAssumption DEF FlowInv, TypeOK, NpkgAssumption
<1> USE DEF Continue, Goto, Exit
(* The steps at which nothing is gone yet, or not by this REMOVE.           *)
<1>2. ASSUME pc' \notin A, pc' # "idle" \/ status' # "done" \/ Registered(id)' PROVE RemoveInv'
  BY <1>2 DEF RemoveInv, Gone
<1>3. CASE PowerLoss
  <2>1. pc' = "idle" /\ status' = "none"
    BY <1>3 DEF PowerLoss
  <2> QED
    BY <1>2, <2>1
<1>4. CASE cmd_update \/ \E p \in Ids : cmd_info(p) \/ cmd_install(p) \/ cmd_remove(p)
  <2>1. PICK p \in Ids : cmd_remove(p)
    BY <1>4 DEF cmd_update, cmd_info, cmd_install, Started
  <2>2. /\ pc' \in {"def", "idle"} /\ db' = db /\ id' = p
        /\ pc' = "idle" => status' = "failed" \/ Has(reg_load(db), p)
    BY <2>1 DEF cmd_remove, Started, Loaded, regFiles
  <2>3. Registered(id)' <=> Has(reg_load(db), p)
    BY <2>2 DEF Registered, reg_load, Has
  <2> QED
    BY <1>2, <2>2, <2>3
<1>5. CASE UNCHANGED vars
  BY <1>5 DEF RemoveInv, Gone, vars, caches, regFiles, autoFiles, menuFiles, mishaps, AutoNow, MenuNow,
              Text, Registered, reg_load, NoBlock, HasMarker, Has
<1>6. ASSUME Step PROVE RemoveInv'
  <2>1. cmd = "remove" /\ id' = id /\ refused = 0 /\ ~ PowerLoss
    BY <1>6, StepPath
  <2>2. /\ Gone(A) => NoBlock(AutoNow, id)
        /\ Gone(M) => ~ HasMarker(MenuNow, id)
    BY <2>1 DEF RemoveInv
  <2>3. SUFFICES /\ pc' \in A \cup {"idle"} => NoBlock(AutoNow', id)
                 /\ pc' \in M \cup {"idle"} => ~ HasMarker(MenuNow', id)
    BY <2>1 DEF RemoveInv, Gone
  <2>4. \/ pc = "def" /\ FetchDef /\ pc' \in {"lines", "auto_copy"}
        \/ pc = "lines" /\ RunRemoveLines /\ pc' = "auto_copy"
        \/ pc = "auto_copy" /\ AutoCopy /\ pc' = "auto_remove"
        \/ pc = "auto_copy" /\ AutoCopy /\ pc' = "menu_copy" /\ auto = Absent
        \/ pc = "auto_remove" /\ AutoRemove /\ pc' = "auto_rename"
        \/ pc = "auto_rename" /\ AutoRename /\ pc' = "menu_copy"
        \/ pc = "menu_copy" /\ MenuCopy /\ pc' = "menu_remove"
        \/ pc = "menu_copy" /\ MenuCopy /\ pc' = "reg_drop" /\ menu = Absent
        \/ pc = "menu_remove" /\ MenuRemove /\ pc' = "menu_rename"
        \/ pc = "menu_rename" /\ MenuRename /\ pc' = "reg_drop"
        \/ pc = "reg_drop" /\ RegDrop /\ pc' = "reg_write"
        \/ pc = "reg_write" /\ SaveWrite /\ pc' = "reg_remove"
        \/ pc = "reg_remove" /\ SaveRemove /\ pc' = "reg_rename"
        \/ pc = "reg_rename" /\ SaveRename /\ pc' = "idle"
    BY <1>1, <1>6, <2>1, StepPath DEF RegOK
  <2>5. pc' \in A \cup {"idle"} => NoBlock(AutoNow', id)
    <3>1. \/ ~ AutoRemove /\ AutoNow' = AutoNow
          \/ AutoRemove /\ AutoNow' = StripBlocks(AutoNow, id)
      BY <2>1, <2>4, AutoSteps DEF AutoAppend, AutoRemove
    <3>2. CASE AutoRemove
      BY <1>1, <3>1, <3>2, NowIs, StripKeeps
    <3>3. CASE ~ AutoRemove /\ auto = Absent /\ pc = "auto_copy"
      <4>1. AutoNow = <<>>
        BY <3>3 DEF AutoNow, Text
      <4> QED
        BY <3>1, <3>3, <4>1, NothingWritten
    <3>4. CASE pc \in A
      BY <2>2, <3>1, <3>2, <3>4 DEF Gone
    <3> QED
      BY <2>4, <3>2, <3>3, <3>4
  <2>6. pc' \in M \cup {"idle"} => ~ HasMarker(MenuNow', id)
    <3>1. \/ ~ MenuRemove /\ MenuNow' = MenuNow
          \/ MenuRemove /\ MenuNow' = StripLauncher(MenuNow, id)
      BY <2>1, <2>4, MenuSteps DEF MenuAppend, MenuRemove
    <3>2. CASE MenuRemove
      BY <1>1, <3>1, <3>2, NowIs, MenuItems, LauncherWithout
    <3>3. CASE ~ MenuRemove /\ menu = Absent /\ pc = "menu_copy"
      <4>1. MenuNow = <<>>
        BY <3>3 DEF MenuNow, Text
      <4> QED
        BY <3>1, <3>3, <4>1, NothingWritten
    <3>4. CASE pc \in M
      BY <2>2, <3>1, <3>2, <3>4 DEF Gone
    <3> QED
      BY <2>4, <3>2, <3>3, <3>4
  <2> QED
    BY <2>5, <2>6
<1> QED
  BY <1>3, <1>4, <1>5, <1>6 DEF Next

(* Counting start markers.                                                  *)
LEMMA BlocksCounted ==
    ASSUME FlowInv, pc = "idle", NEW p
    PROVE  /\ NoBlock(AutoNow, p) => BlocksOf(p) = 0
           /\ OneBlock(AutoNow, p) => BlocksOf(p) = 1
           /\ AutoNow = Text(auto) /\ MenuNow = Text(menu) /\ RegNow = reg_load(db)
<1> DEFINE B == {i \in DOMAIN Text(auto) : auto[i] = StartMark(p)}
<1>1. AutoNow = Text(auto) /\ MenuNow = Text(menu) /\ RegNow = reg_load(db)
  BY DEF AutoNow, MenuNow, RegNow
<1>2. \A i \in DOMAIN Text(auto) : Text(auto)[i] = auto[i]
  <2>1. DOMAIN <<>> = {}
    OBVIOUS
  <2> QED
    BY <2>1 DEF Text
<1>3. ASSUME NoBlock(AutoNow, p) PROVE BlocksOf(p) = 0
  <2>1. B = {}
    BY <1>1, <1>2, <1>3 DEF NoBlock
  <2> QED
    BY <2>1, FS_EmptySet DEF BlocksOf
<1>4. ASSUME OneBlock(AutoNow, p) PROVE BlocksOf(p) = 1
  <2>1. PICK i \in DOMAIN Text(auto) : auto[i] = StartMark(p)
                                       /\ \A j \in DOMAIN Text(auto) : auto[j] = StartMark(p) => j = i
    BY <1>1, <1>2, <1>4 DEF OneBlock
  <2>2. B = {i}
    BY <2>1
  <2> QED
    BY <2>2, FS_Singleton DEF BlocksOf
<1> QED
  BY <1>1, <1>3, <1>4

(* A REMOVE that goes through leaves nothing of its package in the three    *)
(* files, with any number of packages and power failures.                   *)
THEOREM NpkgRemoveLeavesNothing == Spec => []RemoveLeavesNothing
<1>1. Init => FlowInv /\ RemoveInv
  BY FlowInit DEF Init, RemoveInv
<1>2. FlowInv /\ RemoveInv /\ [Next]_vars => (FlowInv /\ RemoveInv)'
  BY FlowNext, RemoveNext
<1>3. FlowInv /\ RemoveInv => RemoveLeavesNothing
  BY BlocksCounted DEF RemoveInv, RemoveLeavesNothing, Gone
<1> QED
  BY <1>1, <1>2, <1>3, PTL DEF Spec

------------------------------------------------------------------------------
(* The three files together.                                                *)

(* A table has room for a package it does not list.                         *)
LEMMA Room ==
    ASSUME IsFiniteSet(Ids), Cardinality(Ids) <= MaxEntries,
           NEW t \in Table, Distinct(t), NEW p \in Ids, ~ Has(t, p)
    PROVE  Len(t) < MaxEntries
<1> DEFINE n == Len(t)
           f == [i \in 1 .. n |-> t[i].id]
           T == Ids \ {p}
<1>1. n \in Nat /\ DOMAIN t = 1 .. n /\ \A i \in 1 .. n : t[i] \in Ent
  BY TableIs
<1>2. \A i \in 1 .. n : t[i].id \in T
  BY <1>1 DEF Ent, Has
<1>3. \A i, j \in 1 .. n : f[i] = f[j] => i = j
  BY <1>1 DEF Distinct
<1>4. f \in [1 .. n -> T]
  BY <1>2
<1>5. f \in Injection(1 .. n, T)
  <2> HIDE DEF f, T
  <2>1. DOMAIN f = 1 .. n
    BY <1>4
  <2> QED
    BY <1>3, <1>4, <2>1 DEF Injection, IsInjective
<1>6. IsFiniteSet(T) /\ Cardinality(T) = Cardinality(Ids) - 1
  BY FS_RemoveElement
<1>7. Cardinality(1 .. n) <= Cardinality(T)
  <2> HIDE DEF f, T, n
  <2> QED
    BY <1>5, <1>6, FS_Injection
<1>8. Cardinality(1 .. n) = n
  <2>1. 1 \in Int /\ n \in Int /\ (1 > n => n = 0)
    BY <1>1
  <2> QED
    BY <1>1, <2>1, FS_Interval
<1>9. Cardinality(Ids) \in Nat /\ MaxEntries \in Nat
  BY FS_CardinalityType, NpkgAssumption DEF NpkgAssumption
<1> QED
  BY <1>1, <1>6, <1>7, <1>8, <1>9

(* p is to have a block now: it is registered, or the command under way has *)
(* just given it one, or taken it.                                          *)
BlockDue(p) ==
    /\ p \in EnvIds
    /\ IF p = id /\ pc \in {"reg_add", "reg_write", "reg_remove", "reg_rename", "auto_rename",
                            "menu_copy", "menu_remove", "menu_rename", "reg_drop"}
       THEN cmd = "install"
       ELSE Has(RegNow, p)

(* p is to have an entry in the menu now.                                   *)
MarkerDue(p) ==
    /\ p \in MenuIds /\ HasTail(defs[p]) /\ Has(RegNow, p)
    /\ ~ (p = id /\ pc \in {"menu_rename", "reg_drop", "reg_write", "reg_remove", "reg_rename", "menu_add"})

BlocksAgree == \A p \in Ids : IF BlockDue(p) THEN OneBlock(AutoNow, p) ELSE NoBlock(AutoNow, p)
MarkersAgree == \A p \in Ids : HasMarker(MenuNow, p) <=> MarkerDue(p)

(* A registered package has its files, until the REMOVE that may delete     *)
(* them has rewritten the registry; so has one about to be registered.      *)
FilesThere ==
    /\ \A p \in Ids :
          /\ Has(RegNow, p)
          /\ ~ (p = id /\ cmd = "remove"
                /\ pc \in {"auto_copy", "auto_remove", "auto_rename", "menu_copy", "menu_remove",
                           "menu_rename", "reg_drop", "reg_write", "reg_remove"})
          => p \in files
    /\ cmd = "install" /\ pc \in {"auto_add", "reg_add", "reg_write", "reg_remove"} => id \in files

AgreeInv ==
    cuts = 0 /\ refused = 0 =>
        /\ BlocksAgree /\ MarkersAgree /\ FilesThere
        /\ pc = "menu_add" => Has(RegNow, id)

(* Nothing is under way before the first step of a command.                 *)
LEMMA CommandStarts ==
    ASSUME FlowInv, cmd_update \/ \E p \in Ids : cmd_info(p) \/ cmd_install(p) \/ cmd_remove(p)
    PROVE  /\ pc = "idle" /\ pc' \in {"idle", "def"} /\ defs' = defs /\ files' = files
           /\ AutoNow' = AutoNow /\ MenuNow' = MenuNow /\ RegNow' = RegNow
           /\ UNCHANGED mishaps
<1>1. /\ pc = "idle" /\ pc' \in {"idle", "def"} /\ UNCHANGED mishaps
      /\ defs' = defs /\ files' = files /\ auto' = auto /\ menu' = menu /\ db' = db
  BY DEF cmd_update, cmd_info, cmd_install, cmd_remove, Started, Continue, Goto, Exit, Loaded, caches, regFiles,
         autoFiles, menuFiles
<1> QED
  BY <1>1 DEF AutoNow, MenuNow, RegNow, Text, reg_load

(* While nothing is refused the registry says what the command under way    *)
(* has done to it.                                                          *)
LEMMA RegistryThen ==
    ASSUME FlowInv, Step, refused' = 0
    PROVE  /\ \A q : q # id => (Has(RegNow', q) <=> Has(RegNow, q))
           /\ ~ SaveRemove => RegNow' = RegNow
           /\ pc = "reg_rename" => (Has(RegNow, id) <=> cmd = "install")
           /\ pc \in {"auto_add", "reg_add", "reg_write", "reg_remove"} /\ cmd = "install" => ~ Has(RegNow, id)
<1>1. RegOK
  BY DEF FlowInv
<1>2. pc = "reg_rename" => RegNow = dbTmp
  BY <1>1, FilesRead DEF RegNow, RegOK
<1>3. pc # "reg_rename" => RegNow = reg_load(db)
  BY DEF RegNow
<1>4. ~ PowerLoss /\ [Next]_vars
  BY StepPath DEF Next
<1> QED
  BY <1>1, <1>2, <1>3, <1>4, RegSteps DEF RegOK

LEMMA BlocksNext ==
    ASSUME FlowInv, Step, refused' = 0, BlocksAgree, pc = "reg_add" => pc' # "menu_add"
    PROVE  BlocksAgree'
<1> DEFINE D == {"reg_add", "reg_write", "reg_remove", "reg_rename", "auto_rename",
                 "menu_copy", "menu_remove", "menu_rename", "reg_drop"}
<1>1. id' = id /\ cmd' = cmd /\ refused = 0 /\ ~ PowerLoss /\ id \in Ids /\ RegOK
  BY StepPath DEF FlowInv, TypeOK
<1>2. /\ \A q : q # id => (Has(RegNow', q) <=> Has(RegNow, q))
      /\ ~ SaveRemove => RegNow' = RegNow
      /\ pc = "reg_rename" => (Has(RegNow, id) <=> cmd = "install")
      /\ pc \in {"auto_add", "reg_add", "reg_write", "reg_remove"} /\ cmd = "install" => ~ Has(RegNow, id)
  BY RegistryThen
<1>3. AutoNow \in Seq(AutoLine) /\ Tidy(AutoNow)
  BY NowIs
<1>4. \/ /\ AutoNow' = AutoNow /\ ~ AutoRemove
         /\ AutoAppend => id \notin EnvIds
      \/ AutoAppend /\ id \in EnvIds /\ AutoNow' = AutoNow \o Block(id)
      \/ AutoRemove /\ AutoNow' = StripBlocks(AutoNow, id)
  BY <1>1, AutoSteps DEF Next
<1>5. ASSUME NEW q \in Ids
      PROVE  BlockDue(q)' <=> /\ q \in EnvIds
                              /\ IF q = id /\ pc' \in D THEN cmd = "install" ELSE Has(RegNow', q)
  BY <1>1 DEF BlockDue, Has
<1>6. ASSUME NEW q \in Ids
      PROVE  BlockDue(q) <=> /\ q \in EnvIds
                             /\ IF q = id /\ pc \in D THEN cmd = "install" ELSE Has(RegNow, q)
  BY DEF BlockDue
<1>7. ASSUME NEW q \in Ids
      PROVE  IF BlockDue(q) THEN OneBlock(AutoNow, q) ELSE NoBlock(AutoNow, q)
  BY DEF BlocksAgree
<1> SUFFICES ASSUME NEW q \in Ids
             PROVE  IF BlockDue(q)' THEN OneBlock(AutoNow', q) ELSE NoBlock(AutoNow', q)
  BY DEF BlocksAgree, OneBlock, NoBlock
<1>8. CASE q # id
  <2>1. BlockDue(q)' <=> BlockDue(q)
    BY <1>2, <1>5, <1>6, <1>8
  <2>2. /\ OneBlock(AutoNow, q) => OneBlock(AutoNow', q)
        /\ NoBlock(AutoNow, q) => NoBlock(AutoNow', q)
    <3>1. ASSUME NEW f \in Seq(AutoLine), Tidy(f)
          PROVE  /\ OneBlock(f, q) => OneBlock(f \o Block(id), q) /\ OneBlock(StripBlocks(f, id), q)
                 /\ NoBlock(f, q) => NoBlock(f \o Block(id), q) /\ NoBlock(StripBlocks(f, id), q)
      <4>1. q \in Ids \ {id}
        BY <1>8
      <4> QED
        BY <1>1, <3>1, <4>1, AppendKeeps, StripKeeps
    <3> QED
      BY <1>3, <1>4, <3>1
  <2> QED
    BY <1>7, <2>1, <2>2
<1>9. CASE q = id /\ AutoAppend
  <2>1. pc = "auto_add" /\ pc' = "reg_add" /\ cmd = "install"
    BY <1>1, <1>9, StepPath DEF AutoAppend, RegOK
  <2>2. (BlockDue(q)' <=> q \in EnvIds) /\ ~ BlockDue(q)
    BY <1>2, <1>5, <1>6, <1>9, <2>1
  <2>3. NoBlock(AutoNow, q)
    BY <1>7, <2>2
  <2>4. ~ AutoRemove
    BY <2>1 DEF AutoRemove
  <2> QED
    BY <1>1, <1>3, <1>4, <1>9, <2>2, <2>3, <2>4, AppendKeeps
<1>10. CASE q = id /\ AutoRemove
  <2>1. pc = "auto_remove" /\ pc' = "auto_rename" /\ cmd = "remove"
    BY <1>1, <1>10 DEF AutoRemove, RegOK, Continue, Goto
  <2>2. ~ BlockDue(q)'
    BY <1>5, <1>10, <2>1
  <2>3. ~ AutoAppend
    BY <2>1 DEF AutoAppend
  <2> QED
    BY <1>1, <1>3, <1>4, <1>10, <2>2, <2>3, StripKeeps
<1>11. CASE q = id /\ AutoCopy /\ pc' = "menu_copy"
  <2>1. pc = "auto_copy" /\ auto = Absent /\ cmd = "remove"
    BY <1>1, <1>11, StepPath DEF AutoCopy, RegOK
  <2>2. ~ BlockDue(q)'
    BY <1>5, <1>11, <2>1
  <2>3. AutoNow = <<>>
    BY <2>1 DEF AutoNow, Text
  <2>4. ~ AutoAppend /\ ~ AutoRemove
    BY <2>1 DEF AutoAppend, AutoRemove
  <2> QED
    BY <1>4, <2>2, <2>3, <2>4, NothingWritten
<1>12. CASE q = id /\ ~ AutoAppend /\ ~ AutoRemove /\ ~ (AutoCopy /\ pc' = "menu_copy")
  <2>1. AutoNow' = AutoNow
    BY <1>4, <1>12
  <2>2. \/ pc \notin D /\ pc' \notin D /\ RegNow' = RegNow
        \/ pc \in D /\ pc' \in D
        \/ pc = "reg_rename" /\ pc' \notin D /\ RegNow' = RegNow
    <3>1. pc # "reg_remove" => RegNow' = RegNow
      BY <1>2 DEF SaveRemove
    <3>2. \/ pc \in {"def", "archive", "lines"} /\ pc' \notin D
          \/ pc = "menu_add" /\ pc' = "idle"
          \/ pc = "auto_copy" /\ pc' = "auto_remove"
          \/ pc = "reg_rename" /\ pc' \notin D
          \/ pc \in D /\ pc' \in D
      BY <1>12, StepPath
    <3> QED
      BY <3>1, <3>2
  <2>3. BlockDue(q)' <=> BlockDue(q)
    BY <1>2, <1>5, <1>6, <1>12, <2>2
  <2> QED
    BY <1>7, <2>1, <2>3
<1> QED
  BY <1>8, <1>9, <1>10, <1>11, <1>12

LEMMA MarkersNext ==
    ASSUME FlowInv, Step, refused' = 0, MarkersAgree, pc = "reg_add" => pc' # "menu_add",
           pc = "menu_add" => Has(RegNow, id)
    PROVE  MarkersAgree'
<1> DEFINE M == {"menu_rename", "reg_drop", "reg_write", "reg_remove", "reg_rename", "menu_add"}
<1>1. /\ id' = id /\ cmd' = cmd /\ refused = 0 /\ ~ PowerLoss /\ id \in Ids /\ RegOK
      /\ defs \in [Ids -> {Absent} \cup Defs]
  BY StepPath DEF FlowInv, TypeOK
<1>2. /\ \A q : q # id => (Has(RegNow', q) <=> Has(RegNow, q))
      /\ ~ SaveRemove => RegNow' = RegNow
      /\ pc = "reg_rename" => (Has(RegNow, id) <=> cmd = "install")
      /\ pc \in {"auto_add", "reg_add", "reg_write", "reg_remove"} /\ cmd = "install" => ~ Has(RegNow, id)
  BY RegistryThen
<1>3. MenuNow \in Seq(MenuItem) /\ Followed(MenuNow) /\ RegNow \in Table /\ Known(defs, RegNow)
  BY NowIs
<1>4. \/ /\ MenuNow' = MenuNow /\ ~ MenuRemove
         /\ MenuAppend => id \notin MenuIds \/ ~ HasTail(g_pkg) \/ HasMarker(MenuNow, id)
      \/ /\ MenuAppend /\ id \in MenuIds /\ HasTail(g_pkg)
         /\ MenuNow' = MenuNow \o Registration(id)
      \/ MenuRemove /\ MenuNow' = StripLauncher(MenuNow, id)
  <2>1. HasMarker(PiecesOf(MenuNow), id) <=> HasMarker(MenuNow, id)
    BY <1>3, MenuItems, PiecesKeep
  <2> QED
    BY <1>1, <2>1, MenuSteps DEF Next
<1>5. ASSUME NEW q \in Ids
      PROVE  MarkerDue(q)' <=> /\ q \in MenuIds /\ HasTail(defs'[q]) /\ Has(RegNow', q)
                               /\ ~ (q = id /\ pc' \in M)
  BY <1>1 DEF MarkerDue, Has, HasTail
<1>6. ASSUME NEW q \in Ids
      PROVE  MarkerDue(q) <=> /\ q \in MenuIds /\ HasTail(defs[q]) /\ Has(RegNow, q)
                              /\ ~ (q = id /\ pc \in M)
  BY DEF MarkerDue
<1>7. ASSUME NEW q \in Ids PROVE HasMarker(MenuNow, q) <=> MarkerDue(q)
  BY DEF MarkersAgree
<1>8. /\ FetchDef => /\ pc = "def" /\ pc' \notin M
                     /\ \E v : defs' = [defs EXCEPT ![id] = v] /\ (defs[id] # Absent => v = defs[id])
      /\ ~ FetchDef => defs' = defs
  <2>1. ASSUME FetchDef
        PROVE \E v : defs' = [defs EXCEPT ![id] = v] /\ (defs[id] # Absent => v = defs[id])
    BY <2>1 DEF FetchDef
  <2>2. FetchDef => pc = "def" /\ pc' \notin M
    <3>1. FetchDef => pc = "def"
      BY DEF FetchDef
    <3> QED
      BY <3>1, StepPath
  <2>3. ~ FetchDef => defs' = defs
    BY DEF Step, FetchAndExtract, AutoAppend, RegAdd, RegDrop, SaveWrite, SaveRemove, SaveRename, MenuAppend,
           RunRemoveLines, AutoCopy, AutoRemove, AutoRename, MenuCopy, MenuRemove, MenuRename, caches
  <2> QED
    BY <2>1, <2>2, <2>3
<1> SUFFICES ASSUME NEW q \in Ids PROVE HasMarker(MenuNow', q) <=> MarkerDue(q)'
  BY DEF MarkersAgree, HasMarker
<1>9. CASE q # id
  <2>1. defs'[q] = defs[q]
    BY <1>1, <1>8, <1>9
  <2>2. MarkerDue(q)' <=> MarkerDue(q)
    BY <1>2, <1>5, <1>6, <1>9, <2>1
  <2>3. HasMarker(MenuNow', q) <=> HasMarker(MenuNow, q)
    <3>1. q \in Ids \ {id}
      BY <1>9
    <3>2. /\ HasMarker(MenuNow \o Registration(id), q) <=> HasMarker(MenuNow, q)
          /\ HasMarker(StripLauncher(MenuNow, id), q) <=> HasMarker(MenuNow, q)
      BY <1>1, <1>3, <1>9, <3>1, MenuItems, LauncherWith, LauncherWithout
    <3> QED
      BY <1>4, <3>2
  <2> QED
    BY <1>7, <2>2, <2>3
<1>10. CASE q = id /\ MenuAppend
  <2>1. pc = "menu_add" /\ pc' = "idle" /\ cmd = "install" /\ g_pkg = defs[id]
    BY <1>1, <1>10 DEF MenuAppend, RegOK, Exit
  <2>2. ~ MenuRemove /\ ~ SaveRemove /\ ~ FetchDef
    BY <2>1 DEF MenuRemove, SaveRemove, FetchDef
  <2>3. Has(RegNow', q) /\ defs' = defs
    BY <1>2, <1>8, <1>10, <2>1, <2>2
  <2>4. (MarkerDue(q)' <=> q \in MenuIds /\ HasTail(g_pkg)) /\ ~ MarkerDue(q)
    BY <1>5, <1>6, <1>10, <2>1, <2>3
  <2>5. ~ HasMarker(MenuNow, q)
    BY <1>7, <2>4
  <2>6. HasMarker(MenuNow \o Registration(id), id)
    BY <1>1, <1>3, MenuItems, LauncherWith
  <2> QED
    BY <1>4, <1>10, <2>2, <2>4, <2>5, <2>6
<1>11. CASE q = id /\ MenuRemove
  <2>1. pc = "menu_remove" /\ pc' = "menu_rename"
    BY <1>11 DEF MenuRemove, Continue, Goto
  <2>2. ~ MarkerDue(q)' /\ ~ MenuAppend
    BY <1>5, <1>11, <2>1 DEF MenuAppend
  <2>3. ~ HasMarker(StripLauncher(MenuNow, id), id)
    BY <1>1, <1>3, MenuItems, LauncherWithout
  <2> QED
    BY <1>4, <1>11, <2>2, <2>3
<1>12. CASE q = id /\ MenuCopy /\ pc' = "reg_drop"
  <2>1. pc = "menu_copy" /\ menu = Absent
    BY <1>12, StepPath DEF MenuCopy
  <2>2. ~ MarkerDue(q)'
    BY <1>5, <1>12
  <2>3. MenuNow = <<>>
    BY <2>1 DEF MenuNow, Text
  <2>4. ~ MenuAppend /\ ~ MenuRemove
    BY <2>1 DEF MenuAppend, MenuRemove
  <2> QED
    BY <1>4, <2>2, <2>3, <2>4, NothingWritten
<1>13. CASE q = id /\ ~ MenuAppend /\ ~ MenuRemove /\ ~ (MenuCopy /\ pc' = "reg_drop")
  <2>1. MenuNow' = MenuNow
    BY <1>4, <1>13
  <2>2. Has(RegNow, q) => defs'[q] = defs[q]
    <3>1. ASSUME Has(RegNow, q) PROVE defs[q] # Absent
      BY <1>3, <3>1 DEF Has, Known
    <3> QED
      BY <1>1, <1>8, <1>13, <3>1
  <2>3. pc # "reg_remove" => RegNow' = RegNow
    BY <1>2 DEF SaveRemove
  <2>4. \/ pc \in M /\ pc' \in M
        \/ pc \notin M /\ pc' \notin M /\ pc # "reg_remove"
        \/ pc = "reg_add" /\ pc' = "reg_write" /\ cmd = "install"
        \/ pc = "reg_rename" /\ pc' = "idle" /\ cmd # "install"
    BY <1>1, <1>13, StepPath DEF RegOK
  <2>5. MarkerDue(q)' <=> MarkerDue(q)
    BY <1>2, <1>5, <1>6, <1>13, <2>2, <2>3, <2>4
  <2> QED
    BY <1>7, <2>1, <2>5
<1> QED
  BY <1>9, <1>10, <1>11, <1>12, <1>13

(* Only the extractor and the lines of [REMOVE] change the directories.     *)
LEMMA FilesNext ==
    ASSUME FlowInv, Step, refused' = 0, FilesThere
    PROVE  FilesThere'
<1> DEFINE F == {"auto_copy", "auto_remove", "auto_rename", "menu_copy", "menu_remove",
                 "menu_rename", "reg_drop", "reg_write", "reg_remove"}
           W == {"auto_add", "reg_add", "reg_write", "reg_remove"}
<1>1. id' = id /\ cmd' = cmd /\ ~ PowerLoss /\ id \in Ids /\ RegOK /\ [Next]_vars
  BY StepPath DEF FlowInv, TypeOK, Next
<1>2. /\ \A q : q # id => (Has(RegNow', q) <=> Has(RegNow, q))
      /\ ~ SaveRemove => RegNow' = RegNow
  BY RegistryThen
<1>3. /\ FetchAndExtract => pc = "archive" /\ (files' = files \/ files' = files \cup {id})
      /\ FetchAndExtract /\ pc' = "auto_add" => files' = files \cup {id}
      /\ RunRemoveLines => /\ pc = "lines" /\ pc' = "auto_copy" /\ cmd = "remove"
                           /\ files' = files \/ files' = files \ {id}
      /\ ~ FetchAndExtract /\ ~ RunRemoveLines => files' = files
  <2>1. /\ FetchAndExtract => pc = "archive" /\ (files' = files \/ files' = files \cup {id})
        /\ FetchAndExtract /\ pc' = "auto_add" => files' = files \cup {id}
    BY DEF FetchAndExtract, Exit, Continue, Goto
  <2>2. RunRemoveLines => /\ pc = "lines" /\ pc' = "auto_copy" /\ cmd = "remove"
                          /\ files' = files \/ files' = files \ {id}
    BY <1>1 DEF RunRemoveLines, Continue, Goto, RegOK
  <2>3. ~ FetchAndExtract /\ ~ RunRemoveLines => files' = files
    BY DEF Step, FetchDef, AutoAppend, RegAdd, RegDrop, SaveWrite, SaveRemove, SaveRename, MenuAppend,
           AutoCopy, AutoRemove, AutoRename, MenuCopy, MenuRemove, MenuRename
  <2> QED
    BY <2>1, <2>2, <2>3
<1>4. /\ \A q \in Ids : Has(RegNow, q) /\ ~ (q = id /\ cmd = "remove" /\ pc \in F) => q \in files
      /\ cmd = "install" /\ pc \in W => id \in files
  BY DEF FilesThere
<1>5. SUFFICES /\ \A q \in Ids : Has(RegNow', q) /\ ~ (q = id /\ cmd = "remove" /\ pc' \in F) => q \in files'
               /\ cmd = "install" /\ pc' \in W => id \in files'
  BY <1>1 DEF FilesThere, Has
<1>6. ASSUME cmd = "install", pc' \in W PROVE id \in files'
  <2>1. \/ pc = "archive" /\ FetchAndExtract /\ pc' = "auto_add"
        \/ pc \in W
    BY <1>1, <1>6, StepPath DEF RegOK
  <2> QED
    BY <1>3, <1>4, <1>6, <2>1
<1>7. ASSUME NEW q \in Ids, q # id, Has(RegNow', q) PROVE q \in files'
  BY <1>2, <1>3, <1>4, <1>7
<1>8. ASSUME SaveRemove, Has(RegNow', id) PROVE id \in files'
  <2>1. pc = "reg_remove" /\ ~ FetchAndExtract /\ ~ RunRemoveLines
    BY <1>8 DEF SaveRemove, FetchAndExtract, RunRemoveLines
  <2>2. cmd = "install"
    BY <1>1, <1>8, RegSteps
  <2> QED
    BY <1>3, <1>4, <2>1, <2>2
<1>9. ASSUME ~ SaveRemove, Has(RegNow', id), ~ (cmd = "remove" /\ pc' \in F) PROVE id \in files'
  <2>1. Has(RegNow, id) /\ ~ RunRemoveLines
    BY <1>2, <1>3, <1>9
  <2>2. ~ (cmd = "remove" /\ pc \in F)
    BY <1>1, <1>9, StepPath
  <2> QED
    BY <1>1, <1>3, <1>4, <2>1, <2>2
<1> QED
  BY <1>6, <1>7, <1>8, <1>9

LEMMA AgreeNext ==
    ASSUME IsFiniteSet(Ids), Cardinality(Ids) <= MaxEntries, FlowInv, AgreeInv, [Next]_vars
    PROVE  AgreeInv'
<1> SUFFICES ASSUME cuts' = 0, refused' = 0
             PROVE  /\ BlocksAgree' /\ MarkersAgree' /\ FilesThere'
                    /\ pc' = "menu_add" => Has(RegNow', id')
  BY DEF AgreeInv, Has
<1>1. cuts \in Nat /\ refused \in Nat /\ id \in Ids
  BY NpkgAssumption DEF FlowInv, TypeOK, NpkgAssumption
<1>2. CASE PowerLoss
  BY <1>1, <1>2 DEF PowerLoss
<1>3. CASE cmd_update \/ \E p \in Ids : cmd_info(p) \/ cmd_install(p) \/ cmd_remove(p)
  <2>1. /\ pc = "idle" /\ pc' \in {"idle", "def"} /\ defs' = defs /\ files' = files
        /\ AutoNow' = AutoNow /\ MenuNow' = MenuNow /\ RegNow' = RegNow
        /\ cuts = 0 /\ refused = 0
    BY <1>3, CommandStarts DEF mishaps
  <2>2. BlocksAgree /\ MarkersAgree /\ FilesThere
    BY <2>1 DEF AgreeInv
  <2>3. \A q \in Ids : (BlockDue(q)' <=> BlockDue(q)) /\ (MarkerDue(q)' <=> MarkerDue(q))
    BY <2>1 DEF BlockDue, MarkerDue, Has, HasTail
  <2>4. FilesThere'
    BY <2>1, <2>2 DEF FilesThere, Has
  <2> QED
    BY <2>1, <2>2, <2>3, <2>4 DEF BlocksAgree, MarkersAgree, OneBlock, NoBlock, HasMarker
<1>4. CASE UNCHANGED vars
  <2>1. /\ pc' = pc /\ id' = id /\ cmd' = cmd /\ defs' = defs /\ cuts = 0 /\ refused = 0 /\ files' = files
        /\ auto' = auto /\ autoTmp' = autoTmp /\ menu' = menu /\ menuTmp' = menuTmp /\ db' = db /\ dbTmp' = dbTmp
    BY <1>4 DEF vars, caches, autoFiles, menuFiles, regFiles, mishaps
  <2>2. AutoNow' = AutoNow /\ MenuNow' = MenuNow /\ RegNow' = RegNow
    BY <2>1 DEF AutoNow, MenuNow, RegNow, Text, reg_load
  <2>3. BlocksAgree /\ MarkersAgree /\ FilesThere /\ (pc = "menu_add" => Has(RegNow, id))
    BY <2>1 DEF AgreeInv
  <2>4. \A q \in Ids : (BlockDue(q)' <=> BlockDue(q)) /\ (MarkerDue(q)' <=> MarkerDue(q))
    BY <2>1, <2>2 DEF BlockDue, MarkerDue, Has, HasTail
  <2>5. FilesThere'
    BY <2>1, <2>2, <2>3 DEF FilesThere, Has
  <2> QED
    BY <2>1, <2>2, <2>3, <2>4, <2>5 DEF BlocksAgree, MarkersAgree, OneBlock, NoBlock, HasMarker
<1>5. CASE Step
  <2>1. cuts = 0
    BY <1>1, <1>5 DEF Step, FetchDef, FetchAndExtract, AutoAppend, RegAdd, RegDrop, SaveWrite, SaveRemove, SaveRename,
       MenuAppend, RunRemoveLines, AutoCopy, AutoRemove, AutoRename, MenuCopy, MenuRemove, MenuRename,
       Opens, Refuses, mishaps
  <2>2. BlocksAgree /\ MarkersAgree /\ FilesThere /\ (pc = "menu_add" => Has(RegNow, id))
    BY <1>5, <2>1, StepPath DEF AgreeInv
  <2>3. pc = "reg_add" => pc' # "menu_add"
    <3> SUFFICES ASSUME pc = "reg_add" PROVE Len(reg_load(db)) < MaxEntries
      BY <1>1, <1>5, StepPath, FilesRead, TableIs, NpkgAssumption DEF NpkgAssumption
    <3>1. reg_load(db) \in Table /\ Distinct(reg_load(db)) /\ ~ Has(reg_load(db), id)
      BY FilesRead DEF FlowInv, RegOK
    <3> QED
      BY <1>1, <3>1, Room
  <2>4. pc' = "menu_add" => Has(RegNow', id')
    <3>1. pc' = "menu_add" => pc = "reg_rename" /\ cmd = "install" /\ id' = id /\ ~ SaveRemove
      BY <1>5, <2>3, StepPath DEF SaveRemove
    <3> QED
      BY <1>5, <3>1, RegistryThen
  <2> QED
    BY <1>5, <2>2, <2>3, <2>4, BlocksNext, MarkersNext, FilesNext
<1> QED
  BY <1>2, <1>3, <1>4, <1>5 DEF Next

(* Between commands the three files and the disk agree on what is           *)
(* installed, for any packages the table has room for and any commands.     *)
THEOREM NpkgFilesAgree ==
    ASSUME IsFiniteSet(Ids), Cardinality(Ids) <= MaxEntries
    PROVE  Spec => []FilesAgree
<1>1. Init => FlowInv /\ AgreeInv
  <2> SUFFICES ASSUME Init PROVE FlowInv /\ AgreeInv
    OBVIOUS
  <2>1. /\ AutoNow = <<UserLine("own")>> /\ MenuNow = <<MenuLine("own")>> /\ RegNow = <<>>
        /\ pc = "idle"
    <3>1. /\ auto = <<UserLine("own")>> /\ menu = <<MenuLine("own")>> /\ db = Absent /\ pc = "idle"
      BY DEF Init
    <3>2. auto # Absent /\ menu # Absent
      <4>1. UserLine("own") \in AutoLine /\ MenuLine("own") \in MenuItem
        BY DEF UserLine, MenuLine, AutoLine, MenuItem, Items
      <4>2. auto \in Seq(AutoLine) /\ menu \in Seq(MenuItem)
        BY <3>1, <4>1
      <4> QED
        BY <4>2, NpkgValues DEF NpkgValues
    <3> QED
      BY <3>1, <3>2 DEF AutoNow, MenuNow, RegNow, Text, reg_load
  <2>2. \A q : NoBlock(AutoNow, q) /\ ~ HasMarker(MenuNow, q) /\ ~ Has(RegNow, q)
    <3>1. \A q : UserLine("own") # StartMark(q) /\ MenuLine("own") # Marker(q)
      BY DEF UserLine, StartMark, MenuLine, Marker
    <3>2. /\ DOMAIN AutoNow = {1} /\ AutoNow[1] = UserLine("own")
          /\ DOMAIN MenuNow = {1} /\ MenuNow[1] = MenuLine("own")
      BY <2>1
    <3> QED
      BY <2>1, <3>1, <3>2, NothingListed DEF NoBlock, HasMarker
  <2>3. \A q : ~ BlockDue(q) /\ ~ MarkerDue(q)
    BY <2>1, <2>2 DEF BlockDue, MarkerDue
  <2> QED
    BY <2>1, <2>2, <2>3, FlowInit DEF AgreeInv, BlocksAgree, MarkersAgree, FilesThere
<1>2. FlowInv /\ AgreeInv /\ [Next]_vars => (FlowInv /\ AgreeInv)'
  BY FlowNext, AgreeNext
<1>3. FlowInv /\ AgreeInv => FilesAgree
  <2> SUFFICES ASSUME FlowInv, AgreeInv, pc = "idle", cuts = 0, refused = 0, NEW p \in Ids
               PROVE  /\ Registered(p) => p \in files
                      /\ BlocksOf(p) = IF Registered(p) /\ p \in EnvIds THEN 1 ELSE 0
                      /\ HasMarker(Text(menu), p)
                              <=> Registered(p) /\ p \in MenuIds /\ HasTail(defs[p])
    BY DEF FilesAgree, FlowInv
  <2>1. /\ AutoNow = Text(auto) /\ MenuNow = Text(menu) /\ RegNow = reg_load(db)
        /\ NoBlock(AutoNow, p) => BlocksOf(p) = 0
        /\ OneBlock(AutoNow, p) => BlocksOf(p) = 1
    BY BlocksCounted
  <2>2. /\ IF BlockDue(p) THEN OneBlock(AutoNow, p) ELSE NoBlock(AutoNow, p)
        /\ HasMarker(MenuNow, p) <=> MarkerDue(p)
        /\ Has(RegNow, p) => p \in files
    BY DEF AgreeInv, BlocksAgree, MarkersAgree, FilesThere
  <2>3. (BlockDue(p) <=> p \in EnvIds /\ Registered(p))
        /\ (MarkerDue(p) <=> p \in MenuIds /\ HasTail(defs[p]) /\ Registered(p))
    BY <2>1 DEF BlockDue, MarkerDue, Registered
  <2> QED
    BY <2>1, <2>2, <2>3 DEF Registered
<1> QED
  BY <1>1, <1>2, <1>3, PTL DEF Spec

------------------------------------------------------------------------------
(* nos_install_register_launcher and nos_install_remove_launcher, with the  *)
(* user who edits the file between the commands and writes that come up     *)
(* short.                                                                   *)

(* Every marker has its entry and every entry its marker.                   *)
Paired(f) == Followed(f) /\ Preceded(f)

(* The lines of a package that is registered, and no line of another.       *)
LEMMA RegistrationIs ==
    ASSUME NEW p \in Ids
    PROVE  /\ Registration(p) \in Seq(Item) /\ Registration(p) # <<>>
           /\ \A q : Alone(Registration(p), q)
           /\ \A q : q # p => \A i \in 1 .. Len(Registration(p)) : Registration(p)[i] \notin Begins(q)
<1> DEFINE b == Registration(p)
<1>1. /\ b \in Seq(Item) /\ b # <<>> /\ Len(b) = 2 /\ b[1] = Marker(p) /\ b[2] = MenuEntry(p)
      /\ \A i \in 1 .. 2 : i = 1 \/ i = 2
  <2>1. Marker(p) \in Item /\ MenuEntry(p) \in Item
    BY DEF Marker, MenuEntry, Item, Items
  <2> QED
    BY <2>1 DEF Registration
<1> HIDE DEF b
<1>2. \A q : b[2] \notin Begins(q) /\ (b[1] \in Begins(q) => q = p)
  BY <1>1, ItemsOf DEF Begins, MenuLine, Marker, MenuEntry
<1>3. \A q : Alone(b, q)
  BY <1>1, <1>2 DEF Alone
<1> QED
  BY <1>1, <1>2, <1>3 DEF b

(* A piece of a line is read as the marker or a piece of p only where the   *)
(* line was one of these.                                                   *)
LEMMA ScrapOf ==
    ASSUME NEW l \in Item
    PROVE  Scrap(l) \in Item /\ \A p : Scrap(l) \in Begins(p) => l \in Begins(p)
<1>1. l = [kind |-> l.kind, of |-> l.of] /\ (l.kind = "marker" => l.of \in Ids)
  BY DEF Item, Items
<1>2. \A r \in Remains : MenuLine(r) \in Item
  BY DEF MenuLine, Item, Items
<1>3. CASE l.kind = "marker"
  <2>1. Scrap(l) = MenuLine(<<l.of>>) /\ <<l.of>> \in Remains
    BY <1>1, <1>3 DEF Scrap, Remains
  <2>2. ASSUME NEW p, Scrap(l) \in Begins(p) PROVE l \in Begins(p)
    <3>1. MenuLine(<<l.of>>) = MenuLine(<<p>>)
      BY <2>1, <2>2, ItemsOf DEF Begins, MenuLine, Marker
    <3>2. <<l.of>> = <<p>>
      BY <3>1 DEF MenuLine
    <3>3. l.of = p
      BY <3>2
    <3> QED
      BY <1>1, <1>3, <3>3 DEF Begins, Marker
  <2> QED
    BY <1>2, <2>1, <2>2
<1>4. CASE l.kind # "marker" /\ l.kind = "user" /\ l.of \in Remains
  BY <1>4 DEF Scrap
<1>5. CASE l.kind # "marker" /\ ~ (l.kind = "user" /\ l.of \in Remains)
  <2>1. Scrap(l) = MenuLine(<<>>) /\ <<>> \in Remains
    BY <1>5 DEF Scrap, Remains
  <2>2. \A p : MenuLine(<<>>) \notin Begins(p)
    BY DEF Begins, MenuLine, Marker
  <2> QED
    BY <1>2, <2>1, <2>2
<1> QED
  BY <1>3, <1>4, <1>5

LEMMA PartOf ==
    ASSUME NEW l \in Item, NEW part \in Parts(l)
    PROVE  part \in Item /\ \A p \in Ids : Stemless(p) /\ part \in Begins(p) => l \in Begins(p)
<1>1. CASE part = l
  BY <1>1
<1>2. CASE part = Scrap(l)
  BY <1>2, ScrapOf
<1>3. CASE part # l /\ part # Scrap(l)
  <2>1. PICK o \in Ids : Scrap(l) = MenuLine(<<o>>) /\ \E q \in Stems[o] : part = Marker(q)
    BY <1>3 DEF Parts
  <2>2. PICK q \in Stems[o] : part = Marker(q)
    BY <2>1
  <2>3. q \in Ids
    BY LauncherAssumption, <2>1, <2>2 DEF LauncherAssumption
  <2>4. part \in Item
    BY <2>2, <2>3 DEF Marker, Item, Items
  <2>5. ASSUME NEW p \in Ids, Stemless(p), part \in Begins(p) PROVE l \in Begins(p)
    <3>1. q = p
      BY <2>2, <2>5 DEF Begins, Marker, MenuLine
    <3>2. o = p
      BY <2>1, <2>2, <2>5, <3>1 DEF Stemless
    <3> QED
      BY <2>1, <3>2, ScrapOf DEF Begins
  <2> QED
    BY <2>4, <2>5
<1> QED
  BY <1>1, <1>2, <1>3

(* What a write that comes up short leaves of some lines.                   *)
LEMMA CutsOf ==
    ASSUME NEW lines \in Seq(Item), NEW cut \in Cuts(lines)
    PROVE  /\ cut.text \in Seq(Item) /\ cut.open \in BOOLEAN /\ (cut.open => cut.text # <<>>)
           /\ Len(cut.text) \in Nat /\ Len(cut.text) <= Len(lines)
           /\ \A p \in Ids : Stemless(p) =>
                 \A i \in 1 .. Len(cut.text) :
                    /\ i < Len(cut.text) => cut.text[i] = lines[i]
                    /\ cut.text[i] \in Begins(p) => lines[i] \in Begins(p)
<1> DEFINE m == Len(lines)
<1>1. m \in Nat /\ \A i \in 1 .. m : lines[i] \in Item
  BY LenProperties, ElementOfSeq
<1>2. CASE \E n \in 0 .. (m - 1) : cut = [text |-> SubSeq(lines, 1, n), open |-> FALSE]
  <2>1. PICK n \in 0 .. (m - 1) : cut = [text |-> SubSeq(lines, 1, n), open |-> FALSE]
    BY <1>2
  <2> DEFINE g == SubSeq(lines, 1, n)
  <2>2. n \in Nat /\ n <= m
    BY <1>1
  <2>3. g \in Seq(Item) /\ Len(g) = n /\ \A i \in 1 .. n : g[i] = lines[i]
    BY <1>1, <2>2
  <2>4. cut.text = g /\ cut.open = FALSE
    BY <2>1
  <2> HIDE DEF g, m
  <2> QED
    BY <2>2, <2>3, <2>4 DEF m
<1>3. CASE \E n \in 1 .. m : \E part \in Parts(lines[n]) :
              cut = [text |-> Append(SubSeq(lines, 1, n - 1), part), open |-> TRUE]
  <2>0. PICK n \in 1 .. m : \E part \in Parts(lines[n]) :
              cut = [text |-> Append(SubSeq(lines, 1, n - 1), part), open |-> TRUE]
    BY <1>3
  <2>1. PICK part \in Parts(lines[n]) :
              cut = [text |-> Append(SubSeq(lines, 1, n - 1), part), open |-> TRUE]
    BY <2>0
  <2> DEFINE h == SubSeq(lines, 1, n - 1)
             g == Append(h, part)
  <2>2. n \in Nat /\ n - 1 \in Nat /\ n - 1 <= m /\ n <= m /\ n \in 1 .. m
    BY <1>1
  <2>3. part \in Item /\ \A p \in Ids : Stemless(p) /\ part \in Begins(p) => lines[n] \in Begins(p)
    BY <1>1, <2>1, PartOf
  <2>4. h \in Seq(Item) /\ Len(h) = n - 1 /\ \A i \in 1 .. n - 1 : h[i] = lines[i]
    BY <1>1, <2>2
  <2> HIDE DEF h
  <2>5. g \in Seq(Item) /\ Len(g) = n /\ g[n] = part /\ (\A i \in 1 .. n - 1 : g[i] = h[i]) /\ g # <<>>
    BY <2>2, <2>3, <2>4
  <2>6. cut.text = g /\ cut.open = TRUE
    BY <2>1 DEF h
  <2> HIDE DEF g, m
  <2>7. \A i \in 1 .. n : (i \in 1 .. n - 1 \/ i = n) /\ (i < n => i \in 1 .. n - 1)
    BY <2>2
  <2>8. ASSUME NEW p \in Ids, Stemless(p), NEW i \in 1 .. n
        PROVE  (i < n => g[i] = lines[i]) /\ (g[i] \in Begins(p) => lines[i] \in Begins(p))
    BY <2>3, <2>4, <2>5, <2>7, <2>8
  <2> QED
    BY <2>2, <2>5, <2>6, <2>8 DEF m
<1> QED
  BY <1>2, <1>3 DEF Cuts, m

(* Lines are written behind the text `now`, or run on from its last line.   *)
LEMMA GrownOf ==
    ASSUME NEW now \in Seq(Item), Text(launcher) = now, ragged => launcher = now /\ now # <<>>,
           NEW lines \in Seq(Item), Grown(lines)
    PROVE  /\ launcher' \in Seq(Item) /\ (now # <<>> \/ lines # <<>> => launcher' # <<>>)
           /\ ~ ragged => launcher' = now \o lines
           /\ lines = <<>> => launcher' = now
           /\ \A p : /\ Alone(now, p) /\ Alone(lines, p)
                     /\ \/ ~ HasMarker(now, p)
                        \/ \A i \in 1 .. Len(lines) : lines[i] \notin Begins(p)
                     => Alone(launcher', p)
<1>1. /\ Len(now) \in Nat /\ DOMAIN now = 1 .. Len(now) /\ \A i \in 1 .. Len(now) : now[i] \in Item
      /\ Len(lines) \in Nat /\ \A i \in 1 .. Len(lines) : lines[i] \in Item
  BY LenProperties, ElementOfSeq
<1>2. CASE launcher' = now \o lines
  <2>1. launcher' \in Seq(Item) /\ Len(launcher') = Len(now) + Len(lines)
    BY <1>2, ConcatProperties
  <2>2. now # <<>> \/ lines # <<>> => launcher' # <<>>
    BY <1>1, <2>1
  <2>3. lines = <<>> => launcher' = now
    BY <1>2
  <2> QED
    BY <1>2, <2>1, <2>2, <2>3, AloneJoin
<1>3. CASE ragged /\ lines # <<>> /\ launcher' = Glued(now, lines)
  <2> DEFINE n == Len(now)
             h == Front(now)
             g == h \o <<Scrap(Last(now))>>
             t == Tail(lines)
  <2>1. n \in Nat /\ n - 1 \in Nat /\ n \in 1 .. n /\ Len(lines) \in Nat \ {0}
    BY <1>1, <1>3
  <2>2. Last(now) = now[n] /\ h = SubSeq(now, 1, n - 1)
    BY DEF Last, Front
  <2>3. Scrap(now[n]) \in Item /\ \A p : Scrap(now[n]) \in Begins(p) => now[n] \in Begins(p)
    BY <1>1, <2>1, ScrapOf
  <2> DEFINE k == SubSeq(now, 1, n - 1)
  <2>4. k \in Seq(Item) /\ Len(k) = n - 1 /\ \A i \in 1 .. n - 1 : k[i] = now[i]
    BY <1>1, <2>1
  <2> HIDE DEF k
  <2>5. h = k
    BY <2>2 DEF k
  <2> DEFINE sc == Scrap(now[n])
             kk == k \o <<sc>>
  <2> HIDE DEF sc
  <2>6. sc \in Item /\ kk \in Seq(Item) /\ Len(kk) = n /\ kk[n] = sc
        /\ \A i \in 1 .. n - 1 : kk[i] = k[i]
    <3>1. sc \in Item
      BY <2>3 DEF sc
    <3> QED
      BY <2>1, <2>4, <3>1
  <2>7. g = kk
    BY <2>2, <2>5 DEF sc
  <2>8. t \in Seq(Item) /\ Len(t) = Len(lines) - 1 /\ \A i \in 1 .. Len(lines) - 1 : t[i] = lines[i + 1]
    BY <1>1, <1>3, <2>1
  <2>9. launcher' = kk \o t
    BY <1>3, <2>7 DEF Glued
  <2> HIDE DEF kk, t, g, h, n
  <2>10. launcher' \in Seq(Item) /\ Len(launcher') = n + Len(t)
    BY <2>6, <2>8, <2>9, ConcatProperties
  <2>11. launcher' # <<>>
    BY <2>1, <2>8, <2>10
  <2>12. ASSUME NEW p, Alone(now, p), Alone(lines, p),
                \/ ~ HasMarker(now, p)
                \/ \A i \in 1 .. Len(lines) : lines[i] \notin Begins(p)
         PROVE  Alone(launcher', p)
    <3>1. \A i \in 1 .. n : /\ i < n => kk[i] = now[i]
                            /\ kk[i] \in Begins(p) => now[i] \in Begins(p)
      <4> TAKE i \in 1 .. n
      <4>1. (i \in 1 .. n - 1 \/ i = n) /\ (i < n => i \in 1 .. n - 1)
        BY <2>1
      <4> QED
        BY <2>3, <2>4, <2>6, <4>1 DEF sc
    <3>2. Alone(kk, p)
      BY <2>1, <2>6, <2>12, <3>1, AloneCut DEF n
    <3>3. ASSUME ~ HasMarker(now, p) PROVE ~ HasMarker(kk, p)
      <4> SUFFICES ASSUME HasMarker(kk, p) PROVE FALSE
        OBVIOUS
      <4>1. PICK i \in 1 .. n : kk[i] = Marker(p)
        BY <2>6, LenProperties DEF HasMarker
      <4>2. CASE i < n
        BY <1>1, <3>1, <3>3, <4>1, <4>2 DEF HasMarker, n
      <4>3. CASE i = n
        <5>1. now[n] \in Begins(p) /\ sc = Marker(p)
          BY <2>6, <3>1, <4>1, <4>3 DEF Begins
        <5>2. now[n] # Marker(p)
          BY <1>1, <2>1, <3>3 DEF HasMarker, n
        <5>3. now[n] = MenuLine(<<p>>)
          BY <5>1, <5>2 DEF Begins
        <5>4. sc.kind = "user"
          BY <5>3 DEF sc, Scrap, MenuLine
        <5> QED
          BY <5>1, <5>4, ItemsOf
      <4> QED
        BY <2>1, <4>2, <4>3
    <3>4. \A i \in 1 .. Len(t) : i + 1 \in 1 .. Len(lines) /\ t[i] = lines[i + 1]
      BY <2>1, <2>8
    <3>5. Alone(t, p)
      <4> SUFFICES ASSUME NEW i \in 1 .. Len(t), NEW j \in 1 .. Len(t), i < j, t[i] = Marker(p)
                   PROVE  t[j] \notin Begins(p)
        BY DEF Alone
      <4>1. i + 1 < j + 1
        BY <2>1, <2>8
      <4> QED
        BY <2>12, <3>4, <4>1 DEF Alone
    <3>6. \/ ~ HasMarker(kk, p)
          \/ \A i \in 1 .. Len(t) : t[i] \notin Begins(p)
      BY <2>12, <3>3, <3>4
    <3> QED
      BY <2>6, <2>8, <2>9, <3>2, <3>5, <3>6, AloneJoin
  <2> QED
    BY <1>3, <2>10, <2>11, <2>12
<1> QED
  BY <1>2, <1>3 DEF Grown

(* Neither file, nor what the removal has read, holds two markers of a      *)
(* package, or a piece of its marker behind it, which a short write could   *)
(* make a second one: for every package while every write was complete, for *)
(* those whose id begins no other's whatever came up short.  While every    *)
(* write was complete, markers and entries are paired in the menu, in what  *)
(* is read and in the finished copy.                                        *)
Exact(p) == ~ torn \/ Stemless(p)

LauncherInv ==
    /\ LauncherTypeOK
    /\ raggedTmp => launcherTmp # Absent /\ launcherTmp # <<>>
    /\ stage = "copy" => ~ raggedTmp
    /\ \A p \in Ids : Exact(p) =>
          /\ Alone(Text(launcher), p) /\ Alone(orig, p)
          /\ stage \in {"remove", "rename"} => Alone(Text(launcherTmp), p)
    /\ ~ torn => /\ Paired(Text(launcher))
                 /\ stage # "idle" => Paired(orig)
                 /\ stage \in {"remove", "rename"} => Paired(Text(launcherTmp))
                 /\ stage = "remove" => launcherTmp = StripLauncher(orig, owner)

(* A file that is there is a sequence of lines, one that is not is no text. *)
LEMMA LauncherText ==
    /\ Text(Absent) = <<>> /\ <<>> \in Seq(Item) /\ Paired(<<>>) /\ \A p : Alone(<<>>, p)
    /\ \A f \in Seq(Item) : f # Absent /\ Text(f) = f
<1>1. Absent \notin Seq(Item)
  BY LauncherAssumption DEF LauncherAssumption
<1> QED
  BY <1>1, LauncherNone DEF Text, Paired, Item

LEMMA LauncherInvStarts ==
    ASSUME LauncherInit
    PROVE  LauncherInv
<1>1. /\ launcherTmp = Absent /\ raggedTmp = FALSE /\ stage = "idle" /\ owner \in Ids /\ orig = <<>>
      /\ torn = FALSE
      /\ \/ launcher = Absent /\ ragged = FALSE
         \/ \E u \in Own : launcher = <<MenuLine(u)>> /\ ragged \in BOOLEAN
  BY DEF LauncherInit
<1>2. \A u \in Own : LET f == <<MenuLine(u)>>
                     IN  f \in Seq(Item) /\ f # <<>> /\ Paired(f) /\ \A p : Alone(f, p)
  BY LauncherNone DEF Paired, Item
<1>3. /\ launcher = Absent \/ launcher \in Seq(Item)
      /\ ragged \in BOOLEAN /\ (ragged => launcher # Absent /\ launcher # <<>>)
      /\ Paired(Text(launcher)) /\ \A p : Alone(Text(launcher), p)
  <2>1. CASE launcher = Absent /\ ragged = FALSE
    BY <2>1, LauncherText
  <2>2. CASE \E u \in Own : launcher = <<MenuLine(u)>> /\ ragged \in BOOLEAN
    <3>1. /\ launcher \in Seq(Item) /\ launcher # <<>> /\ Paired(launcher) /\ \A p : Alone(launcher, p)
          /\ ragged \in BOOLEAN
      BY <1>2, <2>2
    <3> QED
      BY <3>1, LauncherText
  <2> QED
    BY <1>1, <2>1, <2>2
<1> QED
  BY <1>1, <1>3, LauncherText DEF LauncherInv, LauncherTypeOK

(* Lines are added to the menu between two removals.                        *)
LEMMA LauncherGrows ==
    ASSUME LauncherInv, launcher' \in Seq(Item), torn' \in BOOLEAN,
           ragged' \in BOOLEAN, ragged' => launcher' # <<>>,
           \A p \in Ids : Exact(p)' => Exact(p) /\ Alone(launcher', p),
           ~ torn' => ~ torn /\ Paired(launcher'),
           stage = "idle", UNCHANGED <<launcherTmp, raggedTmp, stage, owner, orig>>
    PROVE  LauncherInv'
<1>1. launcher' # Absent /\ Text(launcher') = launcher' /\ Text(launcherTmp') = Text(launcherTmp)
  BY LauncherText
<1> QED
  BY <1>1 DEF LauncherInv, LauncherTypeOK, Text

(* A registration, whole, cut short, or run on from a line without an end.  *)
LEMMA LauncherRegistered ==
    ASSUME LauncherInv, NEW p \in Ids, nos_install_register_launcher(p)
    PROVE  LauncherInv'
<1> DEFINE now == Text(launcher)
           b == Registration(p)
<1>1. /\ now \in Seq(Item) /\ (~ torn => Paired(now)) /\ (ragged => launcher = now /\ now # <<>>)
      /\ \A q \in Ids : Exact(q) => Alone(now, q)
      /\ torn \in BOOLEAN /\ ragged \in BOOLEAN
  <2>1. launcher \in Seq(Item) => now = launcher
    BY LauncherText
  <2> QED
    BY <2>1, LauncherText DEF LauncherInv, LauncherTypeOK, Text
<1>2. /\ stage = "idle" /\ ~ HasMarker(PiecesOf(now), p)
      /\ UNCHANGED <<launcherTmp, raggedTmp, stage, owner, orig>>
      /\ \/ Grown(b) /\ ragged' = FALSE /\ torn' = (torn \/ ragged)
         \/ \E cut \in Cuts(b) :
               /\ Grown(cut.text)
               /\ ragged' = (cut.open \/ (cut.text = <<>> /\ ragged))
               /\ torn' = TRUE
  BY DEF nos_install_register_launcher
<1>3. ~ HasMarker(now, p)
  BY <1>1, <1>2, PiecesKeep DEF Item
<1>4. /\ b \in Seq(Item) /\ b # <<>> /\ \A q : Alone(b, q)
      /\ \A q : q # p => \A i \in 1 .. Len(b) : b[i] \notin Begins(q)
  BY RegistrationIs
<1>5. CASE Grown(b) /\ ragged' = FALSE /\ torn' = (torn \/ ragged)
  <2>1. /\ launcher' \in Seq(Item) /\ (~ ragged => launcher' = now \o b)
        /\ \A q \in Ids : Alone(now, q) => Alone(launcher', q)
    BY <1>1, <1>3, <1>4, <1>5, GrownOf
  <2>2. ~ torn' => ~ torn /\ ~ ragged
    BY <1>1, <1>5
  <2>3. Paired(now) => Paired(now \o b)
    BY <1>1, LauncherWith DEF Paired, Item
  <2>4. torn' \in BOOLEAN /\ ragged' \in BOOLEAN /\ ~ ragged'
    BY <1>1, <1>5
  <2>5. \A q \in Ids : Exact(q)' => Exact(q)
    BY <2>2 DEF Exact, Stemless
  <2> QED
    BY <1>1, <1>2, <2>1, <2>2, <2>3, <2>4, <2>5, LauncherGrows
<1>6. CASE \E cut \in Cuts(b) :
              /\ Grown(cut.text)
              /\ ragged' = (cut.open \/ (cut.text = <<>> /\ ragged))
              /\ torn' = TRUE
  <2>1. PICK cut \in Cuts(b) :
              /\ Grown(cut.text)
              /\ ragged' = (cut.open \/ (cut.text = <<>> /\ ragged))
              /\ torn' = TRUE
    BY <1>6
  <2> DEFINE c == cut.text
  <2>2. /\ c \in Seq(Item) /\ cut.open \in BOOLEAN /\ (cut.open => c # <<>>)
        /\ Len(c) \in Nat /\ Len(c) <= Len(b)
        /\ \A q \in Ids : Stemless(q) =>
              \A i \in 1 .. Len(c) : /\ i < Len(c) => c[i] = b[i]
                                     /\ c[i] \in Begins(q) => b[i] \in Begins(q)
    BY <1>4, CutsOf
  <2>3. Grown(c) /\ ragged' = (cut.open \/ (c = <<>> /\ ragged)) /\ torn' = TRUE
    BY <2>1
  <2> HIDE DEF c
  <2>4. ASSUME NEW q \in Ids, Stemless(q)
        PROVE  /\ Alone(c, q)
               /\ q # p => \A i \in 1 .. Len(c) : c[i] \notin Begins(q)
    <3>1. Len(b) \in Nat
      BY <1>4, LenProperties
    <3>2. \A i \in 1 .. Len(c) : i \in 1 .. Len(b)
      BY <2>2, <3>1
    <3>3. Alone(c, q)
      BY <1>4, <2>2, <2>4, <3>1, AloneCut
    <3> QED
      BY <1>4, <2>2, <2>4, <3>2, <3>3
  <2>5. /\ launcher' \in Seq(Item) /\ (now # <<>> \/ c # <<>> => launcher' # <<>>)
        /\ \A q : /\ Alone(now, q) /\ Alone(c, q)
                  /\ \/ ~ HasMarker(now, q)
                     \/ \A i \in 1 .. Len(c) : c[i] \notin Begins(q)
                  => Alone(launcher', q)
    BY <1>1, <2>2, <2>3, GrownOf
  <2>6. torn' \in BOOLEAN /\ torn' /\ ragged' \in BOOLEAN /\ (ragged' => launcher' # <<>>)
    BY <1>1, <2>2, <2>3, <2>5
  <2>7. \A q \in Ids : Exact(q)' => Exact(q) /\ Alone(launcher', q)
    <3> SUFFICES ASSUME NEW q \in Ids, Exact(q)' PROVE Exact(q) /\ Alone(launcher', q)
      OBVIOUS
    <3>1. Stemless(q) /\ Exact(q)
      BY <2>6 DEF Exact, Stemless
    <3> QED
      BY <1>1, <1>3, <2>4, <2>5, <3>1
  <2> QED
    BY <1>2, <2>5, <2>6, <2>7, LauncherGrows
<1> QED
  BY <1>2, <1>5, <1>6

(* A copy of what is left of the menu.                                      *)
LEMMA LauncherCopied ==
    ASSUME LauncherInv
    PROVE  LET copy == StripLauncher(orig, owner)
           IN  /\ copy \in Seq(Item) /\ copy # Absent /\ Text(copy) = copy
               /\ \A q \in Ids : Exact(q) => Alone(copy, q)
               /\ Paired(orig) => Paired(copy)
               /\ \A cut \in Cuts(copy) :
                     /\ cut.text \in Seq(Item) /\ cut.text # Absent /\ Text(cut.text) = cut.text
                     /\ cut.open \in BOOLEAN /\ (cut.open => cut.text # <<>>)
                     /\ \A q \in Ids : Stemless(q) => Alone(cut.text, q)
<1> DEFINE copy == StripLauncher(orig, owner)
<1>1. orig \in Seq(Item) /\ \A q \in Ids : Exact(q) => Alone(orig, q)
  BY DEF LauncherInv, LauncherTypeOK
<1>2. copy \in Seq(Item) /\ \A q : Alone(orig, q) => Alone(copy, q)
  BY <1>1, LauncherAlone DEF Item
<1>3. Paired(orig) => Paired(copy)
  BY <1>1, LauncherWithout DEF Paired, Item
<1> HIDE DEF copy
<1>4. ASSUME NEW cut \in Cuts(copy)
      PROVE  /\ cut.text \in Seq(Item) /\ cut.text # Absent /\ Text(cut.text) = cut.text
             /\ cut.open \in BOOLEAN /\ (cut.open => cut.text # <<>>)
             /\ \A q \in Ids : Stemless(q) => Alone(cut.text, q)
  <2>1. /\ cut.text \in Seq(Item) /\ cut.open \in BOOLEAN /\ (cut.open => cut.text # <<>>)
        /\ Len(cut.text) \in Nat /\ Len(cut.text) <= Len(copy)
        /\ \A q \in Ids : Stemless(q) =>
              \A i \in 1 .. Len(cut.text) :
                 /\ i < Len(cut.text) => cut.text[i] = copy[i]
                 /\ cut.text[i] \in Begins(q) => copy[i] \in Begins(q)
    BY <1>2, CutsOf
  <2>2. ASSUME NEW q \in Ids, Stemless(q) PROVE Alone(cut.text, q)
    <3>1. Alone(copy, q) /\ Len(copy) \in Nat
      BY <1>1, <1>2, <2>2, LenProperties DEF Exact
    <3> QED
      BY <2>1, <2>2, <3>1, AloneCut
  <2> QED
    BY <2>1, <2>2, LauncherText
<1> QED
  BY <1>1, <1>2, <1>3, <1>4, LauncherText DEF copy

LEMMA LauncherInvKept ==
    ASSUME LauncherInv, [LauncherNext]_launcherVars
    PROVE  LauncherInv'
<1> DEFINE now == Text(launcher)
           copy == StripLauncher(orig, owner)
<1>1. /\ now \in Seq(Item) /\ (~ torn => Paired(now)) /\ (launcher # Absent => now = launcher)
      /\ \A q \in Ids : Exact(q) => Alone(now, q)
      /\ torn \in BOOLEAN /\ ragged \in BOOLEAN /\ raggedTmp \in BOOLEAN
  <2>1. launcher \in Seq(Item) => now = launcher
    BY LauncherText
  <2> QED
    BY <2>1, LauncherText DEF LauncherInv, LauncherTypeOK, Text
<1>2. /\ copy \in Seq(Item) /\ copy # Absent /\ Text(copy) = copy
      /\ \A q \in Ids : Exact(q) => Alone(copy, q)
      /\ Paired(orig) => Paired(copy)
      /\ \A cut \in Cuts(copy) :
            /\ cut.text \in Seq(Item) /\ cut.text # Absent /\ Text(cut.text) = cut.text
            /\ cut.open \in BOOLEAN /\ (cut.open => cut.text # <<>>)
            /\ \A q \in Ids : Stemless(q) => Alone(cut.text, q)
  BY LauncherCopied
<1> HIDE DEF now, copy
<1>3. torn' = torn => \A q \in Ids : Exact(q)' <=> Exact(q)
  BY DEF Exact, Stemless
<1>4. ASSUME NEW p \in Ids, nos_install_register_launcher(p) PROVE LauncherInv'
  BY <1>4, LauncherRegistered
<1>5. ASSUME NEW u \in Own, UserEdit(u) PROVE LauncherInv'
  <2> DEFINE g == Append(now, MenuLine(u))
  <2>1. /\ stage = "idle" /\ UNCHANGED <<launcherTmp, raggedTmp, stage, owner, orig, torn>>
        /\ launcher' = g /\ ragged' \in BOOLEAN
    BY <1>5 DEF UserEdit, now
  <2>2. /\ MenuLine(u) \in Item /\ MenuLine(u).kind = "user" /\ g = now \o <<MenuLine(u)>>
        /\ \A q \in Ids : MenuLine(u) \notin Begins(q)
    <3>1. MenuLine(u) \in Item /\ MenuLine(u).kind = "user"
      BY DEF MenuLine, Item, Items
    <3>2. ASSUME NEW q \in Ids PROVE MenuLine(u) \notin Begins(q)
      <4>1. <<q>> \in Remains
        BY DEF Remains
      <4>2. u # <<q>>
        BY <4>1, LauncherAssumption DEF LauncherAssumption
      <4> QED
        BY <4>2 DEF Begins, MenuLine, Marker
    <3>3. g = now \o <<MenuLine(u)>>
      BY <1>1, <3>1
    <3> QED
      BY <3>1, <3>2, <3>3
  <2> DEFINE l == MenuLine(u)
             b == <<l>>
  <2> HIDE DEF l
  <2>3. b \in Seq(Item) /\ Len(b) = 1 /\ b[1] = l /\ l \in Item /\ l.kind = "user" /\ g = now \o b
        /\ \A i \in 1 .. 1 : i = 1
    BY <2>2 DEF l
  <2>4. ASSUME NEW q \in Ids, Alone(now, q) PROVE Alone(g, q)
    <3>1. \A i \in 1 .. Len(b) : b[i] \notin Begins(q)
      BY <2>2, <2>3 DEF l
    <3>2. Alone(b, q)
      BY <2>3 DEF Alone
    <3> HIDE DEF g, b
    <3> QED
      BY <1>1, <2>3, <2>4, <3>1, <3>2, AloneJoin
  <2>5. g \in Seq(Item) /\ (Paired(now) => Paired(g))
    BY <1>1, <2>3, LauncherLine DEF Paired, Item
  <2>6. g # <<>>
    BY <1>1
  <2> HIDE DEF g
  <2> QED
    BY <1>1, <1>3, <2>1, <2>4, <2>5, <2>6, LauncherGrows
<1>6. ASSUME NEW p \in Ids, BeginRemove(p) PROVE LauncherInv'
  <2>1. /\ launcher # Absent /\ launcherTmp' = <<>> /\ raggedTmp' = FALSE /\ owner' = p
        /\ orig' = launcher /\ stage' = "copy" /\ UNCHANGED <<launcher, ragged, torn>>
    BY <1>6 DEF BeginRemove
  <2>2. launcher = now /\ Text(launcher') = now
    BY <1>1, <2>1 DEF now
  <2> QED
    BY <1>1, <1>3, <2>1, <2>2, LauncherText DEF LauncherInv, LauncherTypeOK
<1>7. ASSUME CopyMenu PROVE LauncherInv'
  <2>1. /\ stage = "copy" /\ stage' = "remove" /\ UNCHANGED <<launcher, ragged, owner, orig>>
        /\ \/ launcherTmp' = copy /\ raggedTmp' = raggedTmp /\ torn' = torn
           \/ torn' = TRUE /\ \E cut \in Cuts(copy) : launcherTmp' = cut.text /\ raggedTmp' = cut.open
    BY <1>7 DEF CopyMenu, TmpCut, copy
  <2>2. Text(launcher') = Text(launcher) /\ StripLauncher(orig', owner') = copy /\ ~ raggedTmp
    BY <2>1 DEF copy, LauncherInv
  <2>3. CASE launcherTmp' = copy /\ raggedTmp' = raggedTmp /\ torn' = torn
    BY <1>1, <1>2, <1>3, <2>1, <2>2, <2>3 DEF LauncherInv, LauncherTypeOK
  <2>4. CASE torn' = TRUE /\ \E cut \in Cuts(copy) : launcherTmp' = cut.text /\ raggedTmp' = cut.open
    <3>1. /\ launcherTmp' \in Seq(Item) /\ launcherTmp' # Absent /\ Text(launcherTmp') = launcherTmp'
          /\ raggedTmp' \in BOOLEAN /\ (raggedTmp' => launcherTmp' # <<>>)
          /\ \A q \in Ids : Stemless(q) => Alone(launcherTmp', q)
      BY <1>2, <2>4
    <3>2. \A q \in Ids : Exact(q)' => Exact(q) /\ Stemless(q)
      BY <2>4 DEF Exact, Stemless
    <3> QED
      BY <1>1, <2>1, <2>2, <2>4, <3>1, <3>2 DEF LauncherInv, LauncherTypeOK
  <2> QED
    BY <2>1, <2>3, <2>4
<1>8. ASSUME RemoveMenu PROVE LauncherInv'
  <2>1. /\ stage = "remove" /\ stage' = "rename" /\ UNCHANGED <<launcherTmp, raggedTmp, owner, orig, torn>>
        /\ \/ launcher' = Absent /\ ragged' = FALSE
           \/ launcher' = launcher /\ ragged' = ragged
    BY <1>8 DEF RemoveMenu, File!RemoveOld
  <2>2. Text(launcherTmp') = Text(launcherTmp)
    BY <2>1
  <2>3. CASE launcher' = Absent /\ ragged' = FALSE
    <3>1. Text(launcher') = <<>>
      BY <2>3, LauncherText
    <3> QED
      BY <1>3, <2>1, <2>2, <2>3, <3>1, LauncherText DEF LauncherInv, LauncherTypeOK
  <2>4. CASE launcher' = launcher /\ ragged' = ragged
    <3>1. Text(launcher') = Text(launcher)
      BY <2>4
    <3> QED
      BY <1>3, <2>1, <2>2, <2>4, <3>1 DEF LauncherInv, LauncherTypeOK
  <2> QED
    BY <2>1, <2>3, <2>4
<1>9. ASSUME RenameMenu PROVE LauncherInv'
  <2>1. /\ stage = "rename" /\ stage' = "idle" /\ orig' = <<>> /\ UNCHANGED <<owner, torn>>
        /\ \/ /\ launcher' = launcherTmp /\ launcherTmp' = Absent /\ launcherTmp # Absent
              /\ ragged' = raggedTmp /\ raggedTmp' = FALSE
           \/ UNCHANGED <<launcher, launcherTmp, ragged, raggedTmp>>
    BY <1>9 DEF RenameMenu, File!RenameTmp
  <2>2. /\ launcher' = launcherTmp => Text(launcher') = Text(launcherTmp)
        /\ launcher' = launcher => Text(launcher') = Text(launcher)
    OBVIOUS
  <2>3. CASE /\ launcher' = launcherTmp /\ launcherTmp' = Absent /\ launcherTmp # Absent
             /\ ragged' = raggedTmp /\ raggedTmp' = FALSE
    BY <1>1, <1>3, <2>1, <2>2, <2>3, LauncherText DEF LauncherInv, LauncherTypeOK
  <2>4. CASE UNCHANGED <<launcher, launcherTmp, ragged, raggedTmp>>
    BY <1>3, <2>1, <2>2, <2>4, LauncherText DEF LauncherInv, LauncherTypeOK
  <2> QED
    BY <2>1, <2>3, <2>4
<1>10. ASSUME LauncherPowerLoss PROVE LauncherInv'
  <2>1. /\ stage' = "idle" /\ orig' = <<>> /\ UNCHANGED <<launcher, ragged, owner, torn>>
        /\ \/ UNCHANGED <<launcherTmp, raggedTmp>>
           \/ \E cut \in Cuts(copy) : launcherTmp' = cut.text /\ raggedTmp' = cut.open
    BY <1>10 DEF LauncherPowerLoss, TmpCut, copy
  <2>2. Text(launcher') = Text(launcher)
    BY <2>1
  <2>3. /\ launcherTmp' = Absent \/ launcherTmp' \in Seq(Item)
        /\ raggedTmp' \in BOOLEAN /\ (raggedTmp' => launcherTmp' # Absent /\ launcherTmp' # <<>>)
    BY <1>2, <2>1 DEF LauncherInv, LauncherTypeOK
  <2> QED
    BY <1>3, <2>1, <2>2, <2>3, LauncherText DEF LauncherInv, LauncherTypeOK
<1>11. CASE UNCHANGED launcherVars
  <2>1. /\ UNCHANGED <<launcher, launcherTmp, ragged, raggedTmp, stage, owner, orig, torn>>
        /\ Text(launcher') = Text(launcher) /\ Text(launcherTmp') = Text(launcherTmp)
    BY <1>11 DEF launcherVars
  <2> QED
    BY <1>3, <2>1 DEF LauncherInv, LauncherTypeOK
<1> QED
  BY <1>4, <1>5, <1>6, <1>7, <1>8, <1>9, <1>10, <1>11 DEF LauncherNext

(* A package has one marker at most, for any packages, user lines and       *)
(* entries of any length, wherever the power failed and whichever call did; *)
(* for a package whose id begins no other's, also whatever writes came up   *)
(* short, at the end of a line or inside one.                               *)
THEOREM LauncherOneMarkerEach == LauncherSpec => []OneMarkerEach
<1>1. LauncherInit => LauncherInv
  BY LauncherInvStarts
<1>2. LauncherInv /\ [LauncherNext]_launcherVars => LauncherInv'
  BY LauncherInvKept
<1>3. LauncherInv => OneMarkerEach
  <2> SUFFICES ASSUME LauncherInv,
                      NEW p \in Ids, ~ torn \/ Stemless(p),
                      NEW i \in DOMAIN Text(launcher), NEW j \in DOMAIN Text(launcher),
                      launcher[i] = Marker(p), launcher[j] = Marker(p)
               PROVE  i = j
    BY DEF LauncherInv, OneMarkerEach
  <2> DEFINE now == Text(launcher)
  <2>1. /\ launcher = Absent => now = <<>>
        /\ launcher # Absent => now = launcher /\ now \in Seq(Item)
    BY LauncherText DEF LauncherInv, LauncherTypeOK
  <2>2. launcher # Absent
    BY <2>1
  <2>3. Alone(now, p)
    BY DEF LauncherInv, Exact
  <2>4. now = launcher /\ Len(now) \in Nat /\ DOMAIN now = 1 .. Len(now)
    BY <2>1, <2>2, LenProperties
  <2> HIDE DEF now
  <2>5. i \in 1 .. Len(now) /\ j \in 1 .. Len(now)
    BY <2>4 DEF now
  <2>6. ~ (i < j) /\ ~ (j < i)
    BY <2>3, <2>4, <2>5 DEF Alone, Begins
  <2> QED
    BY <2>4, <2>5, <2>6
<1> QED
  BY <1>1, <1>2, <1>3, PTL DEF LauncherSpec

(* nos_install_remove_launcher takes the marker and the entry of its        *)
(* package and no other line, as long as every write was complete and the   *)
(* entry fits the buffer.                                                   *)
THEOREM LauncherRemovesMarkerAndEntry == LauncherSpec => []RemovesMarkerAndEntry
<1>1. LauncherInit => LauncherInv
  BY LauncherInvStarts
<1>2. LauncherInv /\ [LauncherNext]_launcherVars => LauncherInv'
  BY LauncherInvKept
<1>3. LauncherInv => RemovesMarkerAndEntry
  <2> SUFFICES ASSUME LauncherInv, stage = "remove", ~ torn, owner \notin LongEntries
               PROVE  launcherTmp = Others(PiecesOf(orig), owner)
    BY DEF RemovesMarkerAndEntry, Others
  <2>1. orig \in Seq(Item) /\ Paired(orig) /\ launcherTmp = StripLauncher(orig, owner)
    BY DEF LauncherInv, LauncherTypeOK
  <2> QED
    BY <2>1, LauncherWithout DEF Paired, Item
<1> QED
  BY <1>1, <1>2, <1>3, PTL DEF LauncherSpec

------------------------------------------------------------------------------
(* INSTALLED.DB under the commands.                                         *)

(* The operators of RegistryTable, seen through the instance.               *)
LEMMA RegSame ==
    ASSUME NEW f, NEW t, NEW q, NEW e
    PROVE  /\ Reg!reg_load(f) = reg_load(f)
           /\ Reg!Has(t, q) <=> Has(t, q)
           /\ Reg!Added(t, e) = Added(t, e)
           /\ Reg!Without(t, q) = Without(t, q)
<1>1. \A r : Reg!Has(t, r) <=> Has(t, r)
  BY DEF Reg!Has, Has
<1>2. \A r : Reg!Position(t, r) = Position(t, r)
  BY DEF Reg!Position, Position
<1>3. Reg!reg_load(f) = reg_load(f)
  BY DEF Reg!reg_load, reg_load
<1>4. Reg!Added(t, e) = Added(t, e)
  BY <1>1, <1>2 DEF Reg!Added, Added
<1>5. Reg!Without(t, q) = Without(t, q)
  BY <1>2 DEF Reg!Without, Without, Reg!RemoveAt, RemoveAt
<1> QED
  BY <1>1, <1>3, <1>4, <1>5

(* The table that reg_save writes is the one the call has left.             *)
PastInv == FlowInv /\ (pc = "reg_write" => regTable = g_reg)

(* Remembering the calls adds nothing to what NPKG does.                    *)
LEMMA PastIsNext == NextWithPast => Next
  BY DEF NextWithPast, Elsewhere, Next, Step

(* The other steps leave INSTALLED.DB and INSTALLED.TMP alone.              *)
LEMMA ElsewhereStays ==
    ASSUME Elsewhere
    PROVE  /\ UNCHANGED regFiles
           /\ pc \notin DOMAIN Saving /\ pc' \notin DOMAIN Saving
<1>1. DOMAIN Saving = {"reg_write", "reg_remove", "reg_rename"}
  BY DEF Saving
<1>2. ASSUME cmd_update \/ \E p \in Ids : cmd_info(p) \/ cmd_install(p) \/ cmd_remove(p)
      PROVE  UNCHANGED regFiles /\ pc = "idle" /\ pc' \in {"idle", "def"}
  BY <1>2 DEF cmd_update, cmd_info, cmd_install, cmd_remove, Started, Loaded, Continue, Goto, Exit
<1>3. ASSUME FetchDef \/ FetchAndExtract \/ RunRemoveLines
      PROVE  /\ UNCHANGED regFiles /\ pc \in {"def", "archive", "lines"}
             /\ pc' \in {"archive", "lines", "auto_copy", "idle", "auto_add"}
  BY <1>3 DEF FetchDef, FetchAndExtract, RunRemoveLines, Parsed, Continue, Goto, Exit
<1>4. ASSUME AutoAppend \/ AutoCopy \/ AutoRemove \/ AutoRename
      PROVE  /\ UNCHANGED regFiles /\ pc \in {"auto_add", "auto_copy", "auto_remove", "auto_rename"}
             /\ pc' \in {"reg_add", "idle", "auto_remove", "auto_rename", "menu_copy"}
  BY <1>4 DEF AutoAppend, AutoCopy, AutoRemove, AutoRename, Continue, Goto, Exit
<1>5. ASSUME MenuAppend \/ MenuCopy \/ MenuRemove \/ MenuRename
      PROVE  /\ UNCHANGED regFiles /\ pc \in {"menu_add", "menu_copy", "menu_remove", "menu_rename"}
             /\ pc' \in {"idle", "menu_remove", "menu_rename", "reg_drop"}
  BY <1>5 DEF MenuAppend, MenuCopy, MenuRemove, MenuRename, Continue, Goto, Exit
<1> QED
  BY <1>1, <1>2, <1>3, <1>4, <1>5 DEF Elsewhere

LEMMA PastInit == InitWithPast => PastInv /\ Reg!Init
<1> SUFFICES ASSUME InitWithPast PROVE PastInv /\ Reg!Init
  OBVIOUS
<1>1. Init /\ FlowInv /\ pc = "idle" /\ pc \notin DOMAIN Saving
  BY FlowInit DEF InitWithPast, Init, Saving
<1> QED
  BY <1>1 DEF PastInv, InitWithPast, Init, Reg!Init, Reg!Calls, regPc

LEMMA PastNext ==
    ASSUME PastInv, [NextWithPast]_<<vars, past>>
    PROVE  PastInv'
<1>1. [Next]_vars
  BY PastIsNext
<1>2. FlowInv'
  BY <1>1, FlowNext DEF PastInv
<1>3. ASSUME pc' = "reg_write" PROVE regTable' = g_reg'
  <2>1. CASE RegAdd /\ Calls([id |-> id, ver |-> g_pkg])
    BY <2>1 DEF Calls
  <2>2. CASE RegDrop /\ Calls([id |-> id, ver |-> Absent])
    BY <2>2 DEF Calls
  <2>3. ASSUME SaveWrite \/ SaveRemove \/ SaveRename \/ PowerLoss PROVE FALSE
    BY <1>3, <2>3 DEF SaveWrite, SaveRemove, SaveRename, PowerLoss, Saved, Continue, Goto, Exit
  <2>4. ASSUME Elsewhere PROVE FALSE
    BY <1>3, <2>4, ElsewhereStays DEF Saving
  <2>5. CASE UNCHANGED <<vars, past>>
    BY <1>3, <2>5 DEF vars, memory, past, PastInv
  <2> QED
    BY <2>1, <2>2, <2>3, <2>4, <2>5 DEF NextWithPast
<1> QED
  BY <1>2, <1>3 DEF PastInv

(* The steps of a command are steps of Registry.                            *)
LEMMA PastImplements ==
    ASSUME PastInv, [NextWithPast]_<<vars, past>>
    PROVE  [Reg!Next]_(Reg!vars)
<1> DEFINE now == regPc
           then == regPc'
           table == reg_load(db)
<1>1. /\ id \in Ids /\ g_pkg \in Defs
      /\ pc = "reg_write" => regTable = g_reg
  BY DEF PastInv, FlowInv, TypeOK
<1>2. /\ now = IF pc = "reg_write" THEN "write" ELSE IF pc = "reg_remove" THEN "remove"
               ELSE IF pc = "reg_rename" THEN "rename" ELSE "idle"
      /\ then = IF pc' = "reg_write" THEN "write" ELSE IF pc' = "reg_remove" THEN "remove"
                ELSE IF pc' = "reg_rename" THEN "rename" ELSE "idle"
  BY DEF Saving, regPc
<1> HIDE DEF now, then, table
<1>3. CASE RegAdd /\ Calls([id |-> id, ver |-> g_pkg])
  <2> DEFINE e == [id |-> id, ver |-> g_pkg]
  <2>1. /\ now = "idle" /\ UNCHANGED regFiles
        /\ \/ /\ Has(table, id) \/ Len(table) < MaxEntries
              /\ g_reg' = Added(table, e) /\ pc' = "reg_write"
           \/ /\ ~ Has(table, id) /\ Len(table) >= MaxEntries
              /\ g_reg' = table /\ pc' = "menu_add"
    BY <1>2, <1>3 DEF RegAdd, Goto, table
  <2>2. e \in Reg!Entry /\ e.id = id
    BY <1>1 DEF Reg!Entry
  <2> HIDE DEF e
  <2>3. /\ regTable' = g_reg' /\ regBefore' = table /\ UNCHANGED regFaults
        /\ pc' = "reg_write" => regCall' = e /\ regRc' = "none"
        /\ pc' # "reg_write" => UNCHANGED regCall /\ regRc' = "full"
    BY <1>3 DEF Calls, table, e
  <2>4. /\ Reg!reg_load(db) = table /\ (Reg!Has(table, id) <=> Has(table, id))
        /\ Reg!Added(table, e) = Added(table, e)
    BY RegSame DEF table
  <2>5. CASE pc' = "reg_write"
    <3>1. then = "write"
      BY <1>2, <2>5
    <3>2. Reg!Modify(e, Reg!Added(table, e))
      BY <2>1, <2>3, <2>4, <2>5, <3>1 DEF Reg!Modify, regFiles, then
    <3>3. Reg!nos_registry_add(e)
      BY <2>1, <2>2, <2>4, <2>5, <3>2 DEF Reg!nos_registry_add, now
    <3> QED
      BY <2>2, <3>3 DEF Reg!Next
  <2>6. CASE pc' # "reg_write"
    <3>1. then = "idle" /\ g_reg' = table /\ ~ Has(table, id) /\ Len(table) >= MaxEntries
      BY <1>2, <2>1, <2>6
    <3>2. Reg!ReturnAtOnce("full")
      BY <2>1, <2>3, <2>4, <2>6, <3>1 DEF Reg!ReturnAtOnce, regFiles, now, then
    <3>3. Reg!nos_registry_add(e)
      BY <2>1, <2>2, <2>4, <3>1, <3>2 DEF Reg!nos_registry_add, now
    <3> QED
      BY <2>2, <3>3 DEF Reg!Next
  <2> QED
    BY <2>5, <2>6
<1>4. CASE RegDrop /\ Calls([id |-> id, ver |-> Absent])
  <2> DEFINE c == [id |-> id, ver |-> Absent]
  <2>1. /\ now = "idle" /\ then = "write" /\ UNCHANGED regFiles /\ Has(table, id)
        /\ g_reg' = Without(table, id) /\ pc' = "reg_write"
    BY <1>2, <1>4 DEF RegDrop, Goto, table
  <2>2. /\ regTable' = g_reg' /\ regBefore' = table /\ UNCHANGED regFaults
        /\ regCall' = c /\ regRc' = "none"
    BY <1>4, <2>1 DEF Calls, table
  <2>3. /\ Reg!reg_load(db) = table /\ (Reg!Has(table, id) <=> Has(table, id))
        /\ Reg!Without(table, id) = Without(table, id)
    BY RegSame DEF table
  <2> HIDE DEF c
  <2>4. Reg!Modify(c, Reg!Without(table, id))
    BY <2>1, <2>2, <2>3 DEF Reg!Modify, regFiles, then
  <2>5. Reg!nos_registry_remove(id)
    BY <2>1, <2>3, <2>4 DEF Reg!nos_registry_remove, now, c
  <2> QED
    BY <1>1, <2>5 DEF Reg!Next
<1>5. CASE SaveWrite /\ pc' = "reg_remove" /\ UNCHANGED past
  <2>1. now = "write" /\ then = "remove" /\ dbTmp' = g_reg /\ db' = db /\ regTable = g_reg
    BY <1>1, <1>2, <1>5 DEF SaveWrite, Saved, Continue, Goto, Exit, DbFile!WriteTmp
  <2>2. Reg!SaveWrite
    BY <1>5, <2>1 DEF Reg!SaveWrite, Reg!Db!WriteTmp, past, now, then
  <2> QED
    BY <2>2 DEF Reg!Next, Reg!Step
<1>6. CASE SaveWrite /\ pc' # "reg_remove" /\ Returns("write") /\ Meets("io")
  <2>1. now = "write" /\ then = "idle" /\ UNCHANGED regFiles
    BY <1>2, <1>6 DEF SaveWrite, Saved, Continue, Goto, Exit
  <2>2. Reg!SaveWrite
    BY <1>6, <2>1 DEF Reg!SaveWrite, Reg!FileError, Returns, Meets, regFiles, now, then
  <2> QED
    BY <2>2 DEF Reg!Next, Reg!Step
<1>7. CASE SaveRemove /\ UNCHANGED past
  <2>1. now = "remove" /\ then = "rename" /\ db' = Absent /\ dbTmp' = dbTmp
    BY <1>2, <1>7 DEF SaveRemove, Continue, Goto, DbFile!RemoveOld
  <2>2. Reg!SaveRemove
    BY <1>7, <2>1 DEF Reg!SaveRemove, Reg!Db!RemoveOld, past, now, then
  <2> QED
    BY <2>2 DEF Reg!Next, Reg!Step
<1>8. CASE SaveRename /\ Returns("ok") /\ UNCHANGED regFaults
  <2>1. /\ now = "rename" /\ then = "idle"
        /\ db = Absent /\ dbTmp # Absent /\ db' = dbTmp /\ dbTmp' = Absent
    BY <1>2, <1>8 DEF SaveRename, Saved, Continue, Goto, Exit, DbFile!RenameTmp
  <2>2. Reg!SaveRename
    BY <1>8, <2>1 DEF Reg!SaveRename, Reg!Db!RenameTmp, Returns, now, then
  <2> QED
    BY <2>2 DEF Reg!Next, Reg!Step
<1>9. CASE PowerLoss /\ pc \in DOMAIN Saving /\ Returns("none") /\ Meets("power")
  <2>1. now # "idle" /\ then = "idle" /\ UNCHANGED regFiles
    BY <1>2, <1>9 DEF PowerLoss, Exit, Saving
  <2>2. Reg!PowerLoss
    BY <1>9, <2>1 DEF Reg!PowerLoss, Returns, Meets, regFiles, now, then
  <2> QED
    BY <2>2 DEF Reg!Next
<1>10. CASE PowerLoss /\ pc \notin DOMAIN Saving /\ UNCHANGED past
  <2>1. now = then /\ UNCHANGED regFiles
    BY <1>2, <1>10 DEF PowerLoss, Exit, Saving
  <2> QED
    BY <1>10, <2>1 DEF Reg!vars, past, regFiles, now, then
<1>11. CASE Elsewhere /\ UNCHANGED past
  <2>1. now = then /\ UNCHANGED regFiles
    BY <1>11, ElsewhereStays DEF now, then, regPc
  <2> QED
    BY <1>11, <2>1 DEF Reg!vars, past, regFiles, now, then
<1>12. CASE UNCHANGED <<vars, past>>
  BY <1>12 DEF Reg!vars, vars, past, regFiles, regPc
<1> QED
  BY <1>3, <1>4, <1>5, <1>6, <1>7, <1>8, <1>9, <1>10, <1>11, <1>12 DEF NextWithPast

(* Every step a command takes on INSTALLED.DB, in whatever order packages   *)
(* come and go, wherever the power fails and whichever file refuses to      *)
(* open, is one that registry.c takes for some caller.                      *)
THEOREM NpkgDrivesRegistry == SpecWithPast => DrivesRegistry
<1>1. InitWithPast => PastInv /\ Reg!Init
  BY PastInit
<1>2. PastInv /\ [NextWithPast]_<<vars, past>> => PastInv'
  BY PastNext
<1>3. PastInv /\ [NextWithPast]_<<vars, past>> => [Reg!Next]_(Reg!vars)
  BY PastImplements
<1> QED
  BY <1>1, <1>2, <1>3, PTL DEF SpecWithPast, DrivesRegistry, Reg!Spec

(* What is proved of Registry.                                              *)
Kept == INSTANCE RegistryProofs WITH
    Versions <- Defs,
    g_reg <- regTable,
    pc <- regPc,
    rc <- regRc,
    call <- regCall,
    before <- regBefore,
    faults <- regFaults

LEMMA KeptAssumed == Kept!RegistryAssumption
  BY NpkgAssumption, NpkgValues
     DEF NpkgAssumption, NpkgValues, Kept!RegistryAssumption, Kept!Entry

(* The two instances of Registry are one specification.                     *)
LEMMA RegKept == Reg!Spec => Kept!Spec
<1>1. Reg!Init => Kept!Init
  BY DEF Reg!Init, Kept!Init, Reg!Calls, Kept!Calls
<1>2. [Reg!Next]_(Reg!vars) => [Kept!Next]_(Kept!vars)
  <2>1. \A f, t, q : Reg!reg_load(f) = Kept!reg_load(f) /\ (Reg!Has(t, q) <=> Kept!Has(t, q))
    BY DEF Reg!reg_load, Kept!reg_load, Reg!Has, Kept!Has
  <2>2. \A t, q : Reg!Position(t, q) = Kept!Position(t, q)
    BY DEF Reg!Position, Kept!Position
  <2>3. \A t, e : Reg!Added(t, e) = Kept!Added(t, e)
    BY <2>1, <2>2 DEF Reg!Added, Kept!Added
  <2>4. \A t, q : Reg!Without(t, q) = Kept!Without(t, q)
    BY <2>2 DEF Reg!Without, Kept!Without, Reg!RemoveAt, Kept!RemoveAt
  <2>5. \A c, t : Reg!Modify(c, t) => Kept!Modify(c, t)
    BY <2>1 DEF Reg!Modify, Kept!Modify
  <2>6. \A code : Reg!ReturnAtOnce(code) => Kept!ReturnAtOnce(code)
    BY <2>1 DEF Reg!ReturnAtOnce, Kept!ReturnAtOnce
  <2>7. \A e : Reg!nos_registry_add(e) => Kept!nos_registry_add(e)
    BY <2>1, <2>3, <2>5, <2>6 DEF Reg!nos_registry_add, Kept!nos_registry_add
  <2>8. \A q : Reg!nos_registry_remove(q) => Kept!nos_registry_remove(q)
    BY <2>1, <2>4, <2>5, <2>6 DEF Reg!nos_registry_remove, Kept!nos_registry_remove
  <2>9. Reg!SaveWrite => Kept!SaveWrite
    BY DEF Reg!SaveWrite, Kept!SaveWrite, Reg!FileError, Kept!FileError,
           Reg!ShortWrite, Kept!ShortWrite,
           Reg!Db!WriteTmp, Kept!Db!WriteTmp, Reg!Db!WriteTmpShort, Kept!Db!WriteTmpShort,
           Reg!Db!CutShort, Kept!Db!CutShort
  <2>10. (Reg!SaveRemove => Kept!SaveRemove) /\ (Reg!SaveRename => Kept!SaveRename)
    BY DEF Reg!SaveRemove, Kept!SaveRemove, Reg!SaveRename, Kept!SaveRename,
           Reg!FileError, Kept!FileError, Reg!Db!RemoveOld, Kept!Db!RemoveOld,
           Reg!Db!RenameTmp, Kept!Db!RenameTmp
  <2>11. Reg!PowerLoss => Kept!PowerLoss
    BY DEF Reg!PowerLoss, Kept!PowerLoss, Reg!Db!WriteTmpShort, Kept!Db!WriteTmpShort,
           Reg!Db!CutShort, Kept!Db!CutShort
  <2> QED
    BY <2>7, <2>8, <2>9, <2>10, <2>11
       DEF Reg!Next, Kept!Next, Reg!Step, Kept!Step, Reg!Entry, Kept!Entry, Reg!vars, Kept!vars
<1> QED
  BY <1>1, <1>2, PTL DEF Reg!Spec, Kept!Spec

(* registry.h, seen through NPKG: with all the other files a command writes *)
(* in between, its three DOS calls on INSTALLED.DB are one update of the    *)
(* set of installed packages, a call that failed has left the database as   *)
(* it was or, gone, what it wrote of the new table in INSTALLED.TMP, and    *)
(* while no write comes up short one whole table survives every failure.    *)
THEOREM NpkgKeepsInstalledSet ==
    SpecWithPast => /\ Kept!ImplementsInstalledSet
                    /\ [](Kept!FailureLosesNothing /\ Kept!OneCopySurvives)
<1> USE KeptAssumed
<1>1. SpecWithPast => Kept!Spec
  BY NpkgDrivesRegistry, RegKept, PTL DEF DrivesRegistry
<1>2. Kept!Spec => Kept!ImplementsInstalledSet
  BY Kept!RegistryImplementsInstalledSet, PTL
<1>3. Kept!Spec => []Kept!FailureLosesNothing
  BY Kept!RegistryFailureLosesNothing, PTL
<1>4. Kept!Spec => [](Kept!NoPartialDb /\ Kept!OneCopySurvives)
  BY Kept!RegistrySurvivesFailures, PTL
<1> QED
  BY <1>1, <1>2, <1>3, <1>4, PTL
==============================================================================
