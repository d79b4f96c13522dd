----------------------------- MODULE ShellProofs -----------------------------
(***************************************************************************)
(* What the file panels, the viewer and the launcher rely on, for any disk, *)
(* any names, texts and menus and any sizes of the panels.                  *)
(***************************************************************************)
EXTENDS Shell, SequenceTheorems, FiniteSetTheorems, WellFoundedInduction, TLAPS

------------------------------------------------------------------------------
(* Paths.                                                                   *)

LEMMA PathIsSeq ==
    ASSUME NEW p \in Path
    PROVE  p \in Seq(STRING) /\ Len(p) \in Nat /\ p \in [1 .. Len(p) -> STRING]
           /\ \A i \in 2 .. Len(p) : p[i] \in Names
  BY LenProperties DEF Path

LEMMA FrontOfPath ==
    ASSUME NEW p \in Path, Len(p) > 1
    PROVE  /\ Front(p) \in Path /\ Len(Front(p)) = Len(p) - 1
           /\ \A i \in 1 .. Len(p) - 1 : Front(p)[i] = p[i]
           /\ Last(p) \in Names /\ Last(p) = p[Len(p)]
<1>1. p \in Seq(STRING) /\ Len(p) \in Nat
  BY PathIsSeq
<1>2. \A i \in 1 .. Len(p) - 1 : p[i] \in STRING
  BY <1>1, ElementOfSeq
<1>3. /\ Front(p) \in Seq(STRING) /\ Len(Front(p)) = Len(p) - 1
      /\ \A i \in 1 .. Len(p) - 1 : Front(p)[i] = p[i]
  <2>1. 1 \in Int /\ Len(p) - 1 \in Int /\ 1 <= Len(p) - 1
    BY <1>1
  <2> QED
    BY <1>1, <1>2, <2>1, SubSeqProperties DEF Front
<1>4. \A i \in 2 .. Len(p) : p[i] \in Names
  BY PathIsSeq
<1> QED
  BY <1>1, <1>3, <1>4 DEF Path, Last

LEMMA Extended ==
    ASSUME NEW d \in Path, NEW name \in Names
    PROVE  Append(d, name) \in Path /\ Len(Append(d, name)) = Len(d) + 1
<1>1. name \in STRING /\ d \in Seq(STRING) /\ Len(d) \in Nat
  BY PathIsSeq, PanelAssumption DEF PanelAssumption
<1> DEFINE new == Append(d, name)
<1>2. /\ new \in Seq(STRING) /\ Len(new) = Len(d) + 1
      /\ \A i \in 1 .. Len(d) : new[i] = d[i]
      /\ new[Len(d) + 1] = name
  <2>1. ASSUME NEW S, d \in Seq(S), name \in S
        PROVE  /\ new \in Seq(S) /\ Len(new) = Len(d) + 1
               /\ \A i \in 1 .. Len(d) : new[i] = d[i]
               /\ new[Len(d) + 1] = name
    BY <2>1, AppendProperties
  <2> QED
    BY <1>1, <2>1
<1> HIDE DEF new
<1>3. \A i \in 2 .. Len(d) : d[i] \in Names
  BY PathIsSeq
<1>4. \A i \in 2 .. Len(d) + 1 : new[i] \in Names
  <2> TAKE i \in 2 .. Len(d) + 1
  <2>1. CASE i \in 2 .. Len(d)
    BY <1>1, <1>2, <1>3, <2>1
  <2>2. CASE i = Len(d) + 1
    BY <1>2, <2>2
  <2> QED
    BY <1>1, <2>1, <2>2
<1>5. new \in Path /\ Len(new) = Len(d) + 1
  BY <1>2, <1>4 DEF Path
<1> QED
  BY <1>5 DEF new

(* A path is its directory and its name.                                    *)
LEMMA SamePath ==
    ASSUME NEW p \in Path, NEW q \in Path, Len(p) > 1, Len(q) > 1, Front(p) = Front(q), Last(p) = Last(q)
    PROVE  p = q
<1>1. Len(p) = Len(q)
  BY PathIsSeq, FrontOfPath
<1>2. \A i \in 1 .. Len(p) - 1 : p[i] = q[i]
  BY <1>1, FrontOfPath
<1>3. p[Len(p)] = q[Len(p)]
  BY <1>1 DEF Last
<1>4. \A i \in 1 .. Len(p) : p[i] = q[i]
  BY <1>2, <1>3, PathIsSeq
<1> QED
  BY <1>1, <1>4, PathIsSeq, SeqEqual

LEMMA InsideMeans ==
    ASSUME NEW p \in Seq(STRING), NEW d \in Seq(STRING)
    PROVE  Inside(p, d) <=> Len(d) <= Len(p) /\ \A i \in 1 .. Len(d) : p[i] = d[i]
<1>1. Len(p) \in Nat /\ Len(d) \in Nat
  BY LenProperties
<1>2. SubSeq(d, 1, Len(d)) = d
  BY SubSeqFull
<1>3. CASE Len(d) <= Len(p)
  <2>1. \A i \in 1 .. Len(d) : p[i] \in STRING
    BY <1>1, <1>3, ElementOfSeq
  <2>2. /\ SubSeq(p, 1, Len(d)) \in Seq(STRING)
        /\ Len(SubSeq(p, 1, Len(d))) = Len(d)
        /\ \A i \in 1 .. Len(d) : SubSeq(p, 1, Len(d))[i] = p[i]
    <3>1. 1 \in Int /\ Len(d) \in Int
      BY <1>1
    <3> QED
      BY <1>1, <2>1, <3>1, SubSeqProperties
  <2>3. SubSeq(p, 1, Len(d)) = d <=> \A i \in 1 .. Len(d) : p[i] = d[i]
    BY <1>1, <2>2, SeqEqual
  <2> QED
    BY <1>2, <1>3, <2>3 DEF Inside, IsPrefix
<1> QED
  BY <1>3 DEF Inside, IsPrefix

------------------------------------------------------------------------------
(* What a panel lists.  Sizes are those that files are known to have.       *)

At == [is_dir : BOOLEAN, size : DOMAIN Text, date : Nat]

LEMMA Sizes == 0 \in DOMAIN Text /\ 1 \in DOMAIN Text /\ DOMAIN Text \subseteq Nat
  BY ShellAssumption DEF ShellAssumption

Entries == [name : Names, is_dir : BOOLEAN, size : Nat, date : Nat]

(* A disk: finitely many paths, each in a directory.                        *)
DiskOK(d) ==
    /\ IsFiniteSet(DOMAIN d)
    /\ \A p \in DOMAIN d : p \in Path /\ Len(p) > 1 /\ d[p] \in At /\ IsDir(d, Front(p))

(* A name stands once in a directory.                                       *)
LEMMA ListingOK ==
    ASSUME NEW d, DiskOK(d), NEW dir
    PROVE  /\ Listing(d, dir) \subseteq Entries
           /\ IsFiniteSet(Listing(d, dir)) /\ Cardinality(Listing(d, dir)) \in Nat
           /\ \A a, b \in Listing(d, dir) : a.name = b.name => a = b
<1> DEFINE ps == {q \in DOMAIN d : Len(q) > 1 /\ Front(q) = dir}
<1>1. IsFiniteSet(ps)
  BY FS_Subset DEF DiskOK
<1>2. Listing(d, dir) = {Entry(Last(p), d[p]) : p \in ps}
  BY DEF Listing
<1>3. \A p \in ps : Entry(Last(p), d[p]) \in Entries /\ Entry(Last(p), d[p]).name = Last(p)
  BY FrontOfPath, Sizes DEF DiskOK, Entry, Entries, At
<1>4. \A p, q \in ps : Last(p) = Last(q) => p = q
  BY SamePath DEF DiskOK
<1> HIDE DEF ps
<1>5. IsFiniteSet(Listing(d, dir))
  <2> DEFINE f == [p \in ps |-> Entry(Last(p), d[p])]
  <2>1. f \in Surjection(ps, Listing(d, dir))
    BY <1>2 DEF Surjection
  <2> QED
    BY <1>1, <2>1, FS_Surjection
<1>6. Listing(d, dir) \subseteq Entries
  BY <1>2, <1>3
<1>7. \A a, b \in Listing(d, dir) : a.name = b.name => a = b
  <2> SUFFICES ASSUME NEW a \in Listing(d, dir), NEW b \in Listing(d, dir), a.name = b.name
               PROVE  a = b
    OBVIOUS
  <2>1. PICK p \in ps : a = Entry(Last(p), d[p])
    BY <1>2
  <2>2. PICK q \in ps : b = Entry(Last(q), d[q])
    BY <1>2
  <2> QED
    BY <1>3, <1>4, <2>1, <2>2
<1> QED
  BY <1>5, <1>6, <1>7, FS_CardinalityType

(* The order of the entries of a directory is total.                        *)
LEMMA EntriesOrdered ==
    ASSUME NEW d, DiskOK(d), NEW dir, NEW sort \in Sorts
    PROVE  /\ \A a \in Listing(d, dir) : ~ cmp_entries(sort, a, a)
           /\ \A a, b \in Listing(d, dir) : a # b => cmp_entries(sort, a, b) \/ cmp_entries(sort, b, a)
           /\ \A a, b, c \in Listing(d, dir) :
                 cmp_entries(sort, a, b) /\ cmp_entries(sort, b, c) => cmp_entries(sort, a, c)
<1> DEFINE key(e) == CASE sort = "name" -> 0
                      [] sort = "ext"  -> ExtRank[e.name]
                      [] sort = "size" -> e.size
                      [] sort = "date" -> e.date
           all == Listing(d, dir)
<1>1. \A a \in all : a \in Entries
  BY ListingOK
<1>2. \A a \in all : key(a) \in Nat
  BY <1>1, PanelAssumption DEF Sorts, Entries, PanelAssumption
<1>3. \A a \in all : NameRank[a.name] \in Nat /\ a.is_dir \in BOOLEAN
  BY <1>1, PanelAssumption DEF Entries, PanelAssumption
<1>4. \A a, b \in all : NameRank[a.name] = NameRank[b.name] => a = b
  BY <1>1, ListingOK, PanelAssumption DEF Entries, PanelAssumption
<1>5. \A a, b \in all : cmp_entries(sort, a, b) <=>
         \/ a.is_dir /\ ~ b.is_dir
         \/ /\ a.is_dir = b.is_dir
            /\ \/ key(a) < key(b)
               \/ key(a) = key(b) /\ NameRank[a.name] < NameRank[b.name]
  BY DEF cmp_entries
<1> HIDE DEF key, all
<1>6. \A a \in all : ~ cmp_entries(sort, a, a)
  BY <1>2, <1>3, <1>5
<1>7. \A a, b \in all : a # b => cmp_entries(sort, a, b) \/ cmp_entries(sort, b, a)
  BY <1>2, <1>3, <1>4, <1>5
<1>8. \A a, b, c \in all : cmp_entries(sort, a, b) /\ cmp_entries(sort, b, c) => cmp_entries(sort, a, c)
  <2> SUFFICES ASSUME NEW a \in all, NEW b \in all, NEW c \in all, cmp_entries(sort, a, b), cmp_entries(sort, b, c)
               PROVE  cmp_entries(sort, a, c)
    OBVIOUS
  <2>1. key(a) \in Nat /\ key(b) \in Nat /\ key(c) \in Nat
    BY <1>2
  <2>2. NameRank[a.name] \in Nat /\ NameRank[b.name] \in Nat /\ NameRank[c.name] \in Nat
    BY <1>3
  <2> QED
    BY <1>3, <1>5, <2>1, <2>2
<1> QED
  BY <1>6, <1>7, <1>8 DEF all

(* Every entry of the directory has one row, and the rows are in order.     *)
LEMMA SortedLists ==
    ASSUME NEW d, DiskOK(d), NEW dir, NEW sort \in Sorts
    PROVE  LET all == Listing(d, dir)
               rows == Sorted(d, dir, sort)
           IN  /\ rows \in Seq(all) /\ Len(rows) = Cardinality(all)
               /\ \A e \in all : \E k \in 1 .. Len(rows) : rows[k] = e
               /\ \A k, l \in 1 .. Len(rows) : k < l => cmp_entries(sort, rows[k], rows[l])
<1> DEFINE all == Listing(d, dir)
           n == Cardinality(all)
           less(a, b) == cmp_entries(sort, a, b)
           Below(e) == {a \in all : less(a, e)}
           rank == [e \in all |-> Cardinality(Below(e))]
           rows == Sorted(d, dir, sort)
<1>1. IsFiniteSet(all) /\ n \in Nat
  BY ListingOK
<1>2. /\ \A a \in all : ~ less(a, a)
      /\ \A a, b \in all : a # b => less(a, b) \/ less(b, a)
      /\ \A a, b, c \in all : less(a, b) /\ less(b, c) => less(a, c)
  BY EntriesOrdered
<1> DEFINE at(k) == CHOOSE e \in all : Cardinality(Below(e)) = k - 1
<1>3. rows = [k \in 1 .. n |-> at(k)]
  BY DEF Sorted
<1> HIDE DEF all, n, less, rows, at
<1>4. DOMAIN rows = 1 .. n /\ \A k \in 1 .. n : rows[k] = at(k)
  BY <1>3
<1>5. \A e \in all : IsFiniteSet(Below(e)) /\ Cardinality(Below(e)) \in 0 .. n - 1
  <2> TAKE e \in all
  <2>1. IsFiniteSet(Below(e))
    BY <1>1, FS_Subset
  <2>2. IsFiniteSet(all \ {e}) /\ Cardinality(all \ {e}) = n - 1
    BY <1>1, FS_RemoveElement DEF n
  <2>3. Below(e) \subseteq all \ {e}
    BY <1>2
  <2>4. Cardinality(Below(e)) <= n - 1
    BY <2>2, <2>3, FS_Subset
  <2>5. Cardinality(Below(e)) \in Nat
    BY <2>1, FS_CardinalityType
  <2> QED
    BY <1>1, <2>1, <2>4, <2>5
<1>6. \A a, b \in all : less(a, b) => rank[a] < rank[b]
  <2> SUFFICES ASSUME NEW a \in all, NEW b \in all, less(a, b) PROVE rank[a] < rank[b]
    OBVIOUS
  <2>1. Below(a) \cup {a} \in SUBSET Below(b) /\ a \notin Below(a)
    BY <1>2
  <2>2. Cardinality(Below(a) \cup {a}) = Cardinality(Below(a)) + 1
    BY <1>5, <2>1, FS_AddElement
  <2>3. Cardinality(Below(a) \cup {a}) <= Cardinality(Below(b))
    BY <1>5, <2>1, FS_Subset
  <2>4. Cardinality(Below(a)) \in Nat /\ Cardinality(Below(b)) \in Nat
    BY <1>5, <1>1
  <2> QED
    BY <2>2, <2>3, <2>4
<1>7. \A e \in all : rank[e] \in 0 .. n - 1
  BY <1>5
<1> HIDE DEF rank
<1>8. \A a, b \in all : rank[a] = rank[b] => a = b
  BY <1>1, <1>2, <1>6, <1>7
<1>9. rank \in Injection(all, 0 .. n - 1)
  BY <1>7, <1>8 DEF rank, Injection, IsInjective
<1>10. IsFiniteSet(0 .. n - 1) /\ Cardinality(0 .. n - 1) = n
  <2>1. 0 \in Int /\ n - 1 \in Int
    BY <1>1
  <2>2. IsFiniteSet(0 .. n - 1) /\ Cardinality(0 .. n - 1) = IF 0 > n - 1 THEN 0 ELSE n - 1 - 0 + 1
    BY <2>1, FS_Interval
  <2> QED
    BY <1>1, <2>2
<1>11. rank \in Surjection(all, 0 .. n - 1)
  BY <1>9, <1>10, FS_Injection DEF n
<1>12. \A k \in 1 .. n : rows[k] \in all /\ rank[rows[k]] = k - 1
  <2> TAKE k \in 1 .. n
  <2>1. k - 1 \in 0 .. n - 1
    BY <1>1
  <2>2. \E e \in all : Cardinality(Below(e)) = k - 1
    BY <1>11, <2>1 DEF Surjection, rank
  <2>3. rows[k] \in all /\ Cardinality(Below(rows[k])) = k - 1
    BY <1>4, <2>2 DEF at
  <2> QED
    BY <2>3 DEF rank
<1>13. rows \in Seq(all) /\ Len(rows) = n
  <2>1. rows \in [1 .. n -> all]
    BY <1>3, <1>4, <1>12
  <2> QED
    BY <1>1, <2>1
<1>14. ASSUME NEW e \in all PROVE \E k \in 1 .. n : rows[k] = e
  <2>1. PICK k \in 1 .. n : rank[e] = k - 1
    <3>1. rank[e] \in 0 .. n - 1
      BY <1>7, <1>14
    <3>2. rank[e] + 1 \in 1 .. n /\ rank[e] = (rank[e] + 1) - 1
      BY <1>1, <3>1
    <3> QED
      BY <3>2
  <2>2. rows[k] \in all /\ rank[rows[k]] = k - 1
    BY <1>12, <2>1
  <2> QED
    BY <1>8, <1>14, <2>1, <2>2
<1>15. ASSUME NEW k \in 1 .. n, NEW l \in 1 .. n, k < l PROVE less(rows[k], rows[l])
  <2>1. rank[rows[k]] < rank[rows[l]]
    BY <1>1, <1>12, <1>15
  <2>2. ~ less(rows[l], rows[k])
    <3>1. less(rows[l], rows[k]) => rank[rows[l]] < rank[rows[k]]
      BY <1>6, <1>12
    <3>2. rank[rows[k]] \in Nat /\ rank[rows[l]] \in Nat
      BY <1>1, <1>7, <1>12
    <3> QED
      BY <2>1, <3>1, <3>2
  <2>3. rows[k] # rows[l]
    <3>1. rank[rows[k]] \in Nat
      BY <1>1, <1>7, <1>12
    <3> QED
      BY <2>1, <3>1
  <2> QED
    BY <1>2, <1>12, <2>2, <2>3
<1> QED
  BY <1>13, <1>14, <1>15 DEF all, n, less, rows

------------------------------------------------------------------------------
(* The disk stays a tree.                                                   *)

LEMMA FrontInside ==
    ASSUME NEW p \in Path, Len(p) > 1, NEW d \in Seq(STRING)
    PROVE  /\ Inside(Front(p), d) => Inside(p, d)
           /\ Inside(p, d) /\ p # d => Inside(Front(p), d)
           /\ Front(p) # p /\ Inside(p, p)
<1>1. /\ p \in Seq(STRING) /\ Front(p) \in Seq(STRING) /\ Len(p) \in Nat /\ Len(d) \in Nat
      /\ Len(Front(p)) = Len(p) - 1 /\ \A i \in 1 .. Len(p) - 1 : Front(p)[i] = p[i]
  BY FrontOfPath, PathIsSeq, LenProperties
<1>2. Inside(Front(p), d) => Inside(p, d)
  BY <1>1, InsideMeans
<1>3. ASSUME Inside(p, d), p # d PROVE Inside(Front(p), d)
  <2>1. Len(d) <= Len(p) /\ \A i \in 1 .. Len(d) : p[i] = d[i]
    BY <1>1, <1>3, InsideMeans
  <2>2. Len(d) # Len(p)
    BY <1>1, <1>3, <2>1, SeqEqual
  <2>3. Len(d) <= Len(Front(p)) /\ \A i \in 1 .. Len(d) : Front(p)[i] = d[i]
    BY <1>1, <2>1, <2>2
  <2> QED
    BY <1>1, <2>3, InsideMeans
<1>4. Inside(p, p)
  BY <1>1, InsideMeans
<1> QED
  BY <1>1, <1>2, <1>3, <1>4

LEMMA WithoutOK ==
    ASSUME DiskOK(disk), NEW path \in Seq(STRING)
    PROVE  DiskOK(Without(path))
<1> DEFINE new == Without(path)
<1>1. DOMAIN new = {q \in DOMAIN disk : ~ Inside(q, path)} /\ \A p \in DOMAIN new : new[p] = disk[p]
  BY DEF Without
<1> HIDE DEF new
<1>2. IsFiniteSet(DOMAIN new)
  BY <1>1, FS_Subset DEF DiskOK
<1>3. ASSUME NEW p \in DOMAIN new
      PROVE  p \in Path /\ Len(p) > 1 /\ new[p] \in At /\ IsDir(new, Front(p))
  <2>1. p \in Path /\ Len(p) > 1 /\ disk[p] \in At /\ IsDir(disk, Front(p)) /\ new[p] = disk[p]
    BY <1>1 DEF DiskOK
  <2>2. ~ Inside(Front(p), path)
    BY <1>1, <2>1, FrontInside
  <2> QED
    BY <1>1, <2>1, <2>2 DEF IsDir, PathExists
<1> QED
  BY <1>2, <1>3 DEF DiskOK, new

(* Something new, or another file in the place of one; nothing is in it.    *)
LEMMA WithOK ==
    ASSUME NEW d, DiskOK(d), NEW path \in Path, Len(path) > 1, IsDir(d, Front(path)),
           path \in DOMAIN d => ~ d[path].is_dir, NEW at \in At
    PROVE  DiskOK(With(d, path, at))
<1> DEFINE new == With(d, path, at)
<1>1. DOMAIN new = DOMAIN d \cup {path} /\ \A p \in DOMAIN new : new[p] = IF p = path THEN at ELSE d[p]
  BY DEF With
<1> HIDE DEF new
<1>2. IsFiniteSet(DOMAIN new)
  BY <1>1, FS_AddElement DEF DiskOK
<1>3. ASSUME NEW p \in DOMAIN new
      PROVE  p \in Path /\ Len(p) > 1 /\ new[p] \in At /\ IsDir(new, Front(p))
  <2>1. p \in Path /\ Len(p) > 1 /\ new[p] \in At /\ IsDir(d, Front(p))
    BY <1>1 DEF DiskOK
  <2>2. CASE Len(Front(p)) = 1
    BY <2>1, <2>2 DEF IsDir
  <2>3. CASE Len(Front(p)) # 1
    <3>1. Front(p) \in DOMAIN d /\ d[Front(p)].is_dir
      BY <2>1, <2>3 DEF IsDir, PathExists
    <3>2. Front(p) # path
      BY <3>1
    <3> QED
      BY <1>1, <2>1, <3>1, <3>2 DEF IsDir, PathExists
  <2> QED
    BY <2>1, <2>2, <2>3
<1> QED
  BY <1>2, <1>3 DEF DiskOK, new

(* A file is removed.                                                       *)
LEMMA FileGone ==
    ASSUME NEW d, DiskOK(d), NEW gone, \A p \in gone : p \in DOMAIN d => ~ d[p].is_dir
    PROVE  DiskOK([p \in DOMAIN d \ gone |-> d[p]])
<1> DEFINE new == [p \in DOMAIN d \ gone |-> d[p]]
<1>1. DOMAIN new = DOMAIN d \ gone /\ \A p \in DOMAIN new : new[p] = d[p]
  OBVIOUS
<1> HIDE DEF new
<1>2. IsFiniteSet(DOMAIN new)
  BY <1>1, FS_Subset DEF DiskOK
<1>3. ASSUME NEW p \in DOMAIN new
      PROVE  p \in Path /\ Len(p) > 1 /\ new[p] \in At /\ IsDir(new, Front(p))
  <2>1. p \in Path /\ Len(p) > 1 /\ d[p] \in At /\ IsDir(d, Front(p)) /\ new[p] = d[p]
    BY <1>1 DEF DiskOK
  <2> QED
    BY <1>1, <2>1 DEF IsDir, PathExists
<1> QED
  BY <1>2, <1>3 DEF DiskOK, new

(* A path below src comes below dst, and back.                              *)
LEMMA MovedAt ==
    ASSUME NEW src \in Seq(STRING), NEW dst \in Seq(STRING), NEW q \in Seq(STRING), Len(src) <= Len(q)
    PROVE  /\ Moved(q, src, dst) \in Seq(STRING)
           /\ Len(Moved(q, src, dst)) = Len(dst) + Len(q) - Len(src)
           /\ \A i \in 1 .. Len(dst) + Len(q) - Len(src) :
                 Moved(q, src, dst)[i] = IF i <= Len(dst) THEN dst[i] ELSE q[i - Len(dst) + Len(src)]
<1>1. Len(src) \in Nat /\ Len(dst) \in Nat /\ Len(q) \in Nat
  BY LenProperties
<1> DEFINE Tl == SubSeq(q, Len(src) + 1, Len(q))
           m == Moved(q, src, dst)
<1>2. /\ Tl \in Seq(STRING) /\ Len(Tl) = Len(q) - Len(src)
      /\ \A i \in 1 .. Len(Tl) : Tl[i] = q[Len(src) + i]
  <2>1. \A i \in Len(src) + 1 .. Len(q) : q[i] \in STRING
    BY <1>1, ElementOfSeq
  <2>2. Len(src) + 1 \in Int /\ Len(q) \in Int
    BY <1>1
  <2>3. /\ Tl \in Seq(STRING) /\ Len(Tl) = IF Len(src) + 1 <= Len(q) THEN Len(q) - (Len(src) + 1) + 1 ELSE 0
        /\ \A i \in 1 .. Len(q) - (Len(src) + 1) + 1 : Tl[i] = q[Len(src) + 1 + i - 1]
    BY <2>1, <2>2, SubSeqProperties
  <2> QED
    BY <1>1, <2>3
<1> HIDE DEF Tl
<1>3. m = dst \o Tl
  BY DEF Moved, Tl
<1> HIDE DEF m
<1>4. /\ m \in Seq(STRING) /\ Len(m) = Len(dst) + Len(Tl)
      /\ \A i \in 1 .. Len(dst) + Len(Tl) : m[i] = IF i <= Len(dst) THEN dst[i] ELSE Tl[i - Len(dst)]
  BY <1>2, <1>3, ConcatProperties
<1>5. Len(m) = Len(dst) + Len(q) - Len(src)
  BY <1>1, <1>2, <1>4
<1>6. ASSUME NEW i \in 1 .. Len(dst) + Len(q) - Len(src)
      PROVE  m[i] = IF i <= Len(dst) THEN dst[i] ELSE q[i - Len(dst) + Len(src)]
  <2>1. CASE i <= Len(dst)
    BY <1>1, <1>2, <1>4, <2>1
  <2>2. CASE i > Len(dst)
    <3>1. i - Len(dst) \in 1 .. Len(Tl) /\ Len(src) + (i - Len(dst)) = i - Len(dst) + Len(src)
      BY <1>1, <1>2, <2>2
    <3>2. m[i] = Tl[i - Len(dst)]
      BY <1>1, <1>2, <1>4, <2>2
    <3>3. Tl[i - Len(dst)] = q[Len(src) + (i - Len(dst))]
      BY <1>2, <3>1
    <3> QED
      BY <1>1, <2>2, <3>1, <3>2, <3>3
  <2> QED
    BY <1>1, <2>1, <2>2
<1> QED
  BY <1>4, <1>5, <1>6 DEF m

LEMMA MovedBack ==
    ASSUME NEW src \in Path, Len(src) > 1, NEW dst \in Path, Len(dst) > 1, NEW q \in Path, Inside(q, src)
    PROVE  /\ Moved(q, src, dst) \in Path /\ Len(Moved(q, src, dst)) > 1
           /\ Inside(Moved(q, src, dst), dst)
           /\ Moved(Moved(q, src, dst), dst, src) = q
<1>1. /\ src \in Seq(STRING) /\ dst \in Seq(STRING) /\ q \in Seq(STRING)
      /\ Len(src) \in Nat /\ Len(dst) \in Nat /\ Len(q) \in Nat
      /\ \A i \in 2 .. Len(q) : q[i] \in Names
      /\ \A i \in 2 .. Len(dst) : dst[i] \in Names
  BY PathIsSeq
<1>2. Len(src) <= Len(q) /\ \A i \in 1 .. Len(src) : q[i] = src[i]
  BY <1>1, InsideMeans
<1> DEFINE m == Moved(q, src, dst)
           b == Moved(m, dst, src)
<1>3. /\ m \in Seq(STRING) /\ Len(m) = Len(dst) + Len(q) - Len(src)
      /\ \A i \in 1 .. Len(dst) + Len(q) - Len(src) :
            m[i] = IF i <= Len(dst) THEN dst[i] ELSE q[i - Len(dst) + Len(src)]
  BY <1>1, <1>2, MovedAt
<1> HIDE DEF m
<1>4. Len(m) \in Nat /\ Len(m) > 1 /\ Len(dst) <= Len(m)
  BY <1>1, <1>2, <1>3
<1>5. m \in Path
  <2>1. \A i \in 2 .. Len(m) : m[i] \in Names
    <3> TAKE i \in 2 .. Len(m)
    <3>1. i \in 1 .. Len(dst) + Len(q) - Len(src)
      BY <1>1, <1>3
    <3>2. CASE i <= Len(dst)
      BY <1>1, <1>3, <3>1, <3>2
    <3>3. CASE i > Len(dst)
      <4>1. i - Len(dst) + Len(src) \in 2 .. Len(q)
        BY <1>1, <1>3, <3>3
      <4>2. m[i] = q[i - Len(dst) + Len(src)]
        BY <1>1, <1>3, <3>1, <3>3
      <4> QED
        BY <1>1, <4>1, <4>2
    <3> QED
      BY <1>1, <3>2, <3>3
  <2> QED
    BY <1>3, <2>1 DEF Path
<1>6. Inside(m, dst)
  <2>1. ASSUME NEW i \in 1 .. Len(dst) PROVE m[i] = dst[i]
    <3>1. i \in 1 .. Len(dst) + Len(q) - Len(src) /\ i <= Len(dst)
      BY <1>1, <1>2
    <3> QED
      BY <1>3, <3>1
  <2> QED
    BY <1>1, <1>3, <1>4, <2>1, InsideMeans
<1>7. b = q
  <2>1. /\ b \in Seq(STRING) /\ Len(b) = Len(src) + Len(m) - Len(dst)
        /\ \A i \in 1 .. Len(src) + Len(m) - Len(dst) :
              b[i] = IF i <= Len(src) THEN src[i] ELSE m[i - Len(src) + Len(dst)]
    BY <1>1, <1>3, <1>4, MovedAt
  <2> HIDE DEF b
  <2>2. Len(b) = Len(q)
    BY <1>1, <1>3, <2>1
  <2>3. ASSUME NEW i \in 1 .. Len(q) PROVE b[i] = q[i]
    <3>1. i \in 1 .. Len(src) + Len(m) - Len(dst)
      BY <1>1, <1>3
    <3>2. CASE i <= Len(src)
      BY <1>1, <1>2, <2>1, <3>1, <3>2
    <3>3. CASE ~ (i <= Len(src))
      <4>1. /\ i - Len(src) + Len(dst) \in 1 .. Len(dst) + Len(q) - Len(src)
            /\ ~ (i - Len(src) + Len(dst) <= Len(dst))
            /\ (i - Len(src) + Len(dst)) - Len(dst) + Len(src) = i
        BY <1>1, <3>3
      <4>2. m[i - Len(src) + Len(dst)] = q[(i - Len(src) + Len(dst)) - Len(dst) + Len(src)]
        BY <1>3, <4>1
      <4>3. b[i] = m[i - Len(src) + Len(dst)]
        BY <1>1, <2>1, <3>1, <3>3
      <4> QED
        BY <4>1, <4>2, <4>3
    <3> QED
      BY <1>1, <3>2, <3>3
  <2> QED
    BY <1>1, <2>1, <2>2, <2>3, SeqEqual
<1> QED
  BY <1>4, <1>5, <1>6, <1>7 DEF m

(* What moves is its directory, and what it is in moves with it.            *)
LEMMA MovedFront ==
    ASSUME NEW src \in Path, Len(src) > 1, NEW dst \in Path, Len(dst) > 1, NEW q \in Path, Inside(q, src)
    PROVE  /\ q = src => Moved(q, src, dst) = dst
           /\ q # src => /\ Len(q) > 1 /\ Front(q) \in Path /\ Inside(Front(q), src)
                         /\ Front(Moved(q, src, dst)) = Moved(Front(q), src, dst)
<1>1. /\ src \in Seq(STRING) /\ dst \in Seq(STRING) /\ q \in Seq(STRING)
      /\ Len(src) \in Nat /\ Len(dst) \in Nat /\ Len(q) \in Nat
  BY PathIsSeq
<1>2. Len(src) <= Len(q) /\ \A i \in 1 .. Len(src) : q[i] = src[i]
  BY <1>1, InsideMeans
<1> DEFINE m == Moved(q, src, dst)
<1>3. /\ m \in Seq(STRING) /\ Len(m) = Len(dst) + Len(q) - Len(src)
      /\ \A i \in 1 .. Len(dst) + Len(q) - Len(src) :
            m[i] = IF i <= Len(dst) THEN dst[i] ELSE q[i - Len(dst) + Len(src)]
  BY <1>1, <1>2, MovedAt
<1>4. m \in Path /\ Len(m) > 1
  BY MovedBack
<1> HIDE DEF m
<1>5. ASSUME q = src PROVE m = dst
  <2>1. Len(m) = Len(dst) /\ \A i \in 1 .. Len(m) : m[i] = dst[i]
    BY <1>1, <1>3, <1>5
  <2> QED
    BY <1>1, <1>3, <2>1, SeqEqual
<1>6. ASSUME q # src
      PROVE  Len(q) > 1 /\ Front(q) \in Path /\ Inside(Front(q), src) /\ Front(m) = Moved(Front(q), src, dst)
  <2> DEFINE f == Front(q)
             n == Moved(f, src, dst)
  <2>1. Len(q) > 1 /\ f \in Path /\ Inside(f, src) /\ Len(f) = Len(q) - 1
        /\ \A i \in 1 .. Len(q) - 1 : f[i] = q[i]
    BY <1>1, <1>2, <1>6, FrontInside, FrontOfPath
  <2>2. Front(m) \in Seq(STRING) /\ Len(Front(m)) = Len(m) - 1 /\ \A i \in 1 .. Len(m) - 1 : Front(m)[i] = m[i]
    BY <1>4, FrontOfPath, PathIsSeq
  <2> HIDE DEF f
  <2>3. f \in Seq(STRING) /\ Len(src) <= Len(f)
    BY <1>1, <2>1, PathIsSeq, InsideMeans
  <2>4. /\ n \in Seq(STRING) /\ Len(n) = Len(dst) + Len(f) - Len(src)
        /\ \A i \in 1 .. Len(dst) + Len(f) - Len(src) :
              n[i] = IF i <= Len(dst) THEN dst[i] ELSE f[i - Len(dst) + Len(src)]
    BY <1>1, <2>3, MovedAt
  <2> HIDE DEF n
  <2>5. Len(Front(m)) = Len(n)
    BY <1>1, <1>3, <2>1, <2>2, <2>4
  <2>6. ASSUME NEW i \in 1 .. Len(n) PROVE Front(m)[i] = n[i]
    <3>1. /\ i \in 1 .. Len(m) - 1 /\ i \in 1 .. Len(dst) + Len(q) - Len(src)
          /\ i \in 1 .. Len(dst) + Len(f) - Len(src)
      BY <1>1, <1>3, <2>1, <2>4
    <3>2. Front(m)[i] = m[i]
      BY <2>2, <3>1
    <3>3. CASE i <= Len(dst)
      BY <1>3, <2>4, <3>1, <3>2, <3>3
    <3>4. CASE ~ (i <= Len(dst))
      <4>1. i - Len(dst) + Len(src) \in 1 .. Len(q) - 1
        BY <1>1, <2>1, <3>1, <3>4
      <4> QED
        BY <1>3, <2>1, <2>4, <3>1, <3>2, <3>4, <4>1
    <3> QED
      BY <3>3, <3>4
  <2> QED
    BY <2>1, <2>2, <2>4, <2>5, <2>6, SeqEqual DEF f, n
<1> QED
  BY <1>5, <1>6 DEF m

(* A set of numbers has a smallest one.                                     *)
LEMMA Smallest ==
    ASSUME NEW S \in SUBSET Nat, S # {}
    PROVE  \E n \in S : \A k \in S : n <= k
<1>1. PICK n \in S : \A k \in S : ~ (<<k, n>> \in OpToRel(<, Nat))
  BY NatLessThanWellFounded, WFMin
<1>2. \A k \in S : ~ (k < n)
  BY <1>1 DEF OpToRel
<1> QED
  BY <1>2

(* Nothing is in a directory that is not there.                             *)
LEMMA NothingInside ==
    ASSUME NEW d, DiskOK(d), NEW dir \in Path, Len(dir) > 1, dir \notin DOMAIN d
    PROVE  \A p \in DOMAIN d : ~ Inside(p, dir)
<1> DEFINE lens == {Len(p) : p \in {q \in DOMAIN d : Inside(q, dir)}}
<1> SUFFICES ASSUME lens # {} PROVE FALSE
  OBVIOUS
<1>1. lens \in SUBSET Nat
  BY PathIsSeq DEF DiskOK
<1>2. PICK n \in lens : \A k \in lens : n <= k
  BY <1>1, Smallest
<1>3. PICK p \in DOMAIN d : Inside(p, dir) /\ Len(p) = n
  BY <1>2
<1>4. p \in Path /\ Len(p) > 1 /\ IsDir(d, Front(p)) /\ p # dir
  BY <1>3 DEF DiskOK
<1>5. Inside(Front(p), dir) /\ Len(Front(p)) = Len(p) - 1 /\ Front(p) \in Path
  BY <1>3, <1>4, FrontInside, FrontOfPath, PathIsSeq
<1>6. Len(Front(p)) >= Len(dir) /\ Len(dir) \in Nat /\ Len(p) \in Nat
  BY <1>4, <1>5, InsideMeans, PathIsSeq
<1>7. Front(p) \in DOMAIN d
  BY <1>4, <1>5, <1>6 DEF IsDir, PathExists
<1>8. Len(p) - 1 \in lens
  BY <1>5, <1>7
<1> QED
  BY <1>2, <1>3, <1>6, <1>8

(* A directory takes all that is in it along.                               *)
LEMMA RenamedOK ==
    ASSUME DiskOK(disk), NEW src \in Path, Len(src) > 1, NEW dst \in Path, CanRename(src, dst)
    PROVE  /\ DiskOK(Renamed(src, dst))
           /\ dst \in DOMAIN Renamed(src, dst) /\ Renamed(src, dst)[dst] = disk[src]
           /\ \A p \in DOMAIN disk \cup DOMAIN Renamed(src, dst) :
                 \/ Inside(p, src) \/ Inside(p, dst)
                 \/ /\ p \in DOMAIN disk \cap DOMAIN Renamed(src, dst)
                    /\ disk[p] = Renamed(src, dst)[p]
<1> DEFINE kept == Without(src)
           from == {r \in DOMAIN disk : Inside(r, src)}
           moved == {Moved(q, src, dst) : q \in from}
           new == Renamed(src, dst)
<1>1. /\ src \in DOMAIN disk /\ dst \notin DOMAIN disk /\ Len(dst) > 1
      /\ IsDir(disk, Front(dst)) /\ ~ Inside(dst, src)
  BY DEF CanRename, PathExists, Creatable
<1>2. src \in Seq(STRING) /\ dst \in Seq(STRING)
  BY PathIsSeq
<1>3. DOMAIN kept = {q \in DOMAIN disk : ~ Inside(q, src)} /\ \A p \in DOMAIN kept : kept[p] = disk[p]
  BY DEF Without
<1>4. /\ DOMAIN new = DOMAIN kept \cup moved
      /\ \A p \in DOMAIN new : new[p] = IF p \in moved THEN disk[Moved(p, dst, src)] ELSE kept[p]
  BY DEF Renamed
<1>5. \A q \in from : /\ q \in DOMAIN disk /\ q \in Path /\ Len(q) > 1 /\ disk[q] \in At
                      /\ Inside(q, src) /\ IsDir(disk, Front(q))
  BY DEF DiskOK
<1>6. \A q \in from : /\ Moved(q, src, dst) \in Path /\ Len(Moved(q, src, dst)) > 1
                      /\ Inside(Moved(q, src, dst), dst)
                      /\ Moved(q, src, dst) \in moved
                      /\ Moved(Moved(q, src, dst), dst, src) = q
  BY <1>1, <1>5, MovedBack
<1>7. \A q \in from : new[Moved(q, src, dst)] = disk[q] /\ Moved(q, src, dst) \in DOMAIN new
  BY <1>4, <1>6
<1>8. IsFiniteSet(DOMAIN new)
  <2>1. IsFiniteSet(from) /\ IsFiniteSet(DOMAIN kept)
    BY <1>3, FS_Subset DEF DiskOK
  <2>2. IsFiniteSet(moved)
    <3> DEFINE f == [q \in from |-> Moved(q, src, dst)]
    <3>1. f \in Surjection(from, moved)
      BY DEF Surjection
    <3> QED
      BY <2>1, <3>1, FS_Surjection
  <2> QED
    BY <1>4, <2>1, <2>2, FS_Union
<1>9. src \in from /\ Moved(src, src, dst) = dst
  <2>1. Inside(src, src)
    BY <1>2, LenProperties, InsideMeans
  <2>2. src \in from
    BY <1>1, <2>1
  <2> QED
    BY <1>1, <2>1, MovedFront
<1> HIDE DEF kept, from, moved, new
<1>10. ASSUME NEW p \in DOMAIN new, p \notin moved
       PROVE  p \in DOMAIN kept /\ new[p] = disk[p]
  <2>1. new[p] = kept[p] /\ p \in DOMAIN kept
    BY <1>4, <1>10
  <2> QED
    BY <1>3, <2>1
(* A directory that stays where it was.                                     *)
<1>11. \A p \in moved : p \notin DOMAIN disk
  <2>1. \A p \in DOMAIN disk : ~ Inside(p, dst)
    BY <1>1, NothingInside
  <2> QED
    BY <1>6, <2>1 DEF moved
<1>12. ASSUME NEW f, IsDir(disk, f), ~ Inside(f, src) PROVE IsDir(new, f)
  <2>1. CASE Len(f) = 1
    BY <2>1 DEF IsDir
  <2>2. CASE f \in DOMAIN disk /\ disk[f].is_dir
    BY <1>3, <1>4, <1>11, <1>12, <2>2 DEF IsDir, PathExists
  <2> QED
    BY <1>12, <2>1, <2>2 DEF IsDir, PathExists
<1>13. ASSUME NEW p \in DOMAIN kept
       PROVE  p \in Path /\ Len(p) > 1 /\ new[p] \in At /\ IsDir(new, Front(p)) /\ new[p] = disk[p]
  <2>1. p \in Path /\ Len(p) > 1 /\ disk[p] \in At /\ IsDir(disk, Front(p)) /\ ~ Inside(p, src) /\ p \in DOMAIN disk
    BY <1>3 DEF DiskOK
  <2>2. ~ Inside(Front(p), src)
    BY <1>2, <2>1, FrontInside
  <2>3. IsDir(new, Front(p))
    BY <1>12, <2>1, <2>2
  <2>4. new[p] = disk[p]
    BY <1>3, <1>4, <1>11, <2>1
  <2> QED
    BY <2>1, <2>3, <2>4
<1>14. ASSUME NEW q \in from PROVE IsDir(new, Front(Moved(q, src, dst)))
  <2>1. CASE q = src
    <3>1. IsDir(new, Front(dst))
      <4>1. ~ Inside(Front(dst), src)
        BY <1>1, <1>2, FrontInside
      <4> QED
        BY <1>1, <1>12, <4>1
    <3> QED
      BY <1>9, <2>1, <3>1
  <2>2. CASE q # src
    <3>1. /\ q \in DOMAIN disk /\ q \in Path /\ Len(q) > 1 /\ IsDir(disk, Front(q))
          /\ Front(q) \in Path /\ Inside(Front(q), src)
          /\ Front(Moved(q, src, dst)) = Moved(Front(q), src, dst)
      BY <1>1, <1>5, <2>2, MovedFront
    <3>2. Len(Front(q)) # 1
      <4>1. Len(src) <= Len(Front(q)) /\ Len(Front(q)) \in Nat /\ Len(src) \in Nat
        BY <1>2, <3>1, PathIsSeq, InsideMeans
      <4> QED
        BY <4>1
    <3>3. Front(q) \in DOMAIN disk /\ disk[Front(q)].is_dir
      BY <3>1, <3>2 DEF IsDir, PathExists
    <3>4. Front(q) \in from
      BY <3>1, <3>3 DEF from
    <3>5. new[Moved(Front(q), src, dst)].is_dir /\ Moved(Front(q), src, dst) \in DOMAIN new
      BY <1>7, <3>3, <3>4
    <3> QED
      BY <3>1, <3>5 DEF IsDir, PathExists
  <2> QED
    BY <2>1, <2>2
<1>15. DiskOK(new)
  <2>1. ASSUME NEW p \in DOMAIN new
        PROVE  p \in Path /\ Len(p) > 1 /\ new[p] \in At /\ IsDir(new, Front(p))
    <3>1. CASE p \in moved
      <4>1. PICK q \in from : p = Moved(q, src, dst)
        BY <3>1 DEF moved
      <4> QED
        BY <1>5, <1>6, <1>7, <1>14, <4>1
    <3>2. CASE p \in DOMAIN kept
      BY <1>13, <3>2
    <3> QED
      BY <1>10, <3>1, <3>2
  <2> QED
    BY <1>8, <2>1 DEF DiskOK
<1>16. dst \in DOMAIN new /\ new[dst] = disk[src]
  BY <1>7, <1>9
<1>17. ASSUME NEW p \in DOMAIN disk \cup DOMAIN new
       PROVE  Inside(p, src) \/ Inside(p, dst) \/ (p \in DOMAIN disk \cap DOMAIN new /\ disk[p] = new[p])
  <2>1. CASE p \in DOMAIN kept
    BY <1>3, <1>4, <1>13, <2>1
  <2>2. CASE p \in moved
    BY <1>6, <2>2 DEF moved
  <2>3. CASE p \in DOMAIN disk /\ Inside(p, src)
    BY <2>3
  <2> QED
    BY <1>3, <1>10, <2>1, <2>2, <2>3
<1> QED
  BY <1>15, <1>16, <1>17 DEF new

(* A file is copied, and what is in gone, a file as well, is removed.       *)
LEMMA CopiedOK ==
    ASSUME DiskOK(disk), NEW src, NEW dst \in Path, NEW gone \in {{}, {src}}, Copied(src, dst, gone)
    PROVE  /\ DiskOK(disk') /\ changes < MaxChanges /\ changes' = changes + 1 /\ short' \in BOOLEAN
           /\ \A p \in DOMAIN disk \cup DOMAIN disk' :
                 p = src \/ p = dst \/ (p \in DOMAIN disk \cap DOMAIN disk' /\ disk[p] = disk'[p])
           /\ src # dst /\ ~ short' => dst \in DOMAIN disk' /\ disk'[dst].size = disk[src].size
<1>1. /\ src \in DOMAIN disk /\ ~ disk[src].is_dir /\ disk[src] \in At
      /\ Len(dst) > 1 /\ IsDir(disk, Front(dst))
      /\ (dst \in DOMAIN disk => ~ disk[dst].is_dir)
      /\ changes < MaxChanges /\ changes' = changes + 1
  BY DEF Copied, PathExists, IsDir, Writable, Creatable, Room, DiskOK
<1>2. PICK cut \in {FALSE, src # dst} :
        LET size == IF cut \/ src = dst THEN 0 ELSE disk[src].size
            written == With(disk, dst, File(size, 1))
        IN  short' = cut /\ disk' = [p \in DOMAIN written \ gone |-> written[p]]
  BY Zenon DEF Copied
<1> DEFINE size == IF cut \/ src = dst THEN 0 ELSE disk[src].size
           written == With(disk, dst, File(size, 1))
<1>3. short' = cut /\ cut \in BOOLEAN /\ disk' = [p \in DOMAIN written \ gone |-> written[p]]
  BY <1>2
<1>4. File(size, 1) \in At /\ File(size, 1).size = size /\ ~ File(size, 1).is_dir
  BY <1>1, Sizes DEF File, At
<1> HIDE DEF size
<1>5. /\ DOMAIN written = DOMAIN disk \cup {dst}
      /\ \A p \in DOMAIN written : written[p] = IF p = dst THEN File(size, 1) ELSE disk[p]
  BY DEF With
<1>6. DiskOK(written)
  BY <1>1, <1>4, WithOK
<1> HIDE DEF written
<1>7. \A p \in gone : p \in DOMAIN written => ~ written[p].is_dir
  BY <1>1, <1>4, <1>5
<1>8. DiskOK(disk')
  BY <1>3, <1>6, <1>7, FileGone
<1>9. DOMAIN disk' = DOMAIN written \ gone /\ \A p \in DOMAIN disk' : disk'[p] = written[p]
  BY <1>3
<1>10. ASSUME NEW p \in DOMAIN disk \cup DOMAIN disk', p # src, p # dst
       PROVE  p \in DOMAIN disk \cap DOMAIN disk' /\ disk[p] = disk'[p]
  BY <1>5, <1>9, <1>10
<1>11. ASSUME src # dst, ~ short'
       PROVE  dst \in DOMAIN disk' /\ disk'[dst].size = disk[src].size
  BY <1>3, <1>4, <1>5, <1>9, <1>11 DEF size
<1> QED
  BY <1>1, <1>3, <1>8, <1>10, <1>11

------------------------------------------------------------------------------
(* The panels.                                                              *)

Rows == Entries \cup {DotDot}
Read == [path : {p \in Path : Len(p) > 0}, files : Seq(Rows), cursor : Int, scroll : Int, sort : Sorts]
Panels ==
    {p \in Read : /\ p.cursor \in {0} \cup -1 .. Len(p.files) - 1
                  /\ p.scroll \in -1 .. Len(p.files) /\ OnScreen(p)}

Lists(d, path, sort) == (IF Len(path) > 1 THEN <<DotDot>> ELSE <<>>) \o Sorted(d, path, sort)

(* What is read depends on the directory and on the order, and the cursor   *)
(* is on the screen.                                                        *)
LEMMA ReadOK ==
    ASSUME NEW d, DiskOK(d), NEW p \in Read
    PROVE  /\ nos_panel_read_dir(d, p) \in Panels
           /\ nos_panel_read_dir(d, p).path = p.path /\ nos_panel_read_dir(d, p).sort = p.sort
           /\ nos_panel_read_dir(d, p).files = Lists(d, p.path, p.sort)
<1> DEFINE new == nos_panel_read_dir(d, p)
           l == Lists(d, p.path, p.sort)
<1>1. new = [p EXCEPT !.files = l, !.cursor = 0, !.scroll = 0]
  BY DEF nos_panel_read_dir, Lists
<1>2. l \in Seq(Rows) /\ Len(l) \in Nat
  <2>1. Sorted(d, p.path, p.sort) \in Seq(Rows)
    <3>1. Sorted(d, p.path, p.sort) \in Seq(Listing(d, p.path))
      BY SortedLists DEF Read
    <3>2. Listing(d, p.path) \subseteq Rows
      BY ListingOK DEF Rows
    <3> QED
      BY <3>1, <3>2
  <2>2. <<DotDot>> \in Seq(Rows) /\ <<>> \in Seq(Rows)
    BY DEF Rows
  <2>3. l \in Seq(Rows)
    BY <2>1, <2>2, ConcatProperties DEF Lists
  <2> QED
    BY <2>3, LenProperties
<1> HIDE DEF l, new
<1>3. /\ new \in Read /\ new.path = p.path /\ new.sort = p.sort /\ new.files = l
      /\ new.cursor = 0 /\ new.scroll = 0
  <2>1. new = [path |-> p.path, files |-> l, cursor |-> 0, scroll |-> 0, sort |-> p.sort]
    BY <1>1 DEF Read
  <2> QED
    BY <1>2, <2>1 DEF Read
<1>4. OnScreen(new)
  BY <1>3, PanelAssumption DEF OnScreen, PanelAssumption
<1>5. new \in Panels
  BY <1>2, <1>3, <1>4 DEF Panels
<1> QED
  BY <1>3, <1>5 DEF new, l

(* The cursor stays on the list, and the list stays.                        *)
LEMMA MoveCursorOK ==
    ASSUME NEW p \in Panels, NEW delta \in Int
    PROVE  /\ nos_panel_move_cursor(p, delta) \in Panels
           /\ nos_panel_move_cursor(p, delta).path = p.path
           /\ nos_panel_move_cursor(p, delta).sort = p.sort
           /\ nos_panel_move_cursor(p, delta).files = p.files
<1> DEFINE wanted == IF p.cursor + delta < 0 THEN 0 ELSE p.cursor + delta
           cursor == IF wanted >= Len(p.files) THEN Len(p.files) - 1 ELSE wanted
           scroll == IF cursor < p.scroll THEN cursor ELSE p.scroll
           last == IF cursor >= scroll + INNER_H THEN cursor - INNER_H + 1 ELSE scroll
           new == nos_panel_move_cursor(p, delta)
<1>1. new = [p EXCEPT !.cursor = cursor, !.scroll = last]
  BY DEF nos_panel_move_cursor
<1>2. /\ p.cursor \in Int /\ p.scroll \in Int /\ Len(p.files) \in Nat
      /\ p.cursor \in {0} \cup -1 .. Len(p.files) - 1 /\ p.scroll \in -1 .. Len(p.files)
      /\ p \in Read
  BY LenProperties DEF Panels, Read
<1>3. INNER_H \in Nat /\ INNER_H >= 1
  BY PanelAssumption DEF PanelAssumption
<1>4. wanted \in Nat
  BY <1>2
<1> HIDE DEF wanted
<1>5. cursor \in -1 .. Len(p.files) - 1 /\ (Len(p.files) > 0 => cursor >= 0)
  BY <1>2, <1>4
<1> HIDE DEF cursor
<1>6. scroll \in -1 .. Len(p.files) /\ scroll <= cursor
  BY <1>2, <1>5
<1>7. Len(p.files) > 0 => scroll >= 0
  <2>1. Len(p.files) > 0 => p.scroll >= 0
    BY <1>2 DEF Panels, OnScreen
  <2> QED
    BY <2>1, <1>5
<1> HIDE DEF scroll
<1>8. last \in -1 .. Len(p.files) /\ (Len(p.files) > 0 => 0 <= last /\ last <= cursor /\ cursor < last + INNER_H)
  BY <1>2, <1>3, <1>5, <1>6, <1>7
<1> HIDE DEF last, new
<1>9. /\ new \in Read /\ new.path = p.path /\ new.sort = p.sort /\ new.files = p.files
      /\ new.cursor = cursor /\ new.scroll = last
  <2>1. new = [path |-> p.path, files |-> p.files, cursor |-> cursor, scroll |-> last, sort |-> p.sort]
    BY <1>1, <1>2 DEF Read
  <2>2. cursor \in Int /\ last \in Int
    BY <1>2, <1>5, <1>8
  <2> QED
    BY <1>2, <2>1, <2>2 DEF Read
<1>10. new \in Panels
  <2>1. p.files # <<>> => Len(p.files) > 0
    BY <1>2, EmptySeq DEF Read
  <2>2. OnScreen(new)
    BY <1>8, <1>9, <2>1 DEF OnScreen
  <2>3. new.cursor \in {0} \cup -1 .. Len(new.files) - 1 /\ new.scroll \in -1 .. Len(new.files)
    BY <1>2, <1>5, <1>8, <1>9
  <2> QED
    BY <1>9, <2>2, <2>3 DEF Panels
<1> QED
  BY <1>9, <1>10 DEF new

(* The entry under the cursor is one of the list.                           *)
LEMMA CursorOnEntry ==
    ASSUME NEW p \in Panels, p.files # <<>>
    PROVE  /\ AtCursor(p) \in Rows
           /\ AtCursor(p).name # ".." =>
                 nos_panel_cursor_path(p) \in Path /\ Len(nos_panel_cursor_path(p)) > 1
<1>1. p \in Read /\ Len(p.files) \in Nat /\ p.files \in Seq(Rows) /\ p.path \in Path /\ Len(p.path) > 0
  BY LenProperties DEF Panels, Read
<1>2. p.cursor + 1 \in 1 .. Len(p.files)
  <2>1. Len(p.files) > 0
    BY <1>1, EmptySeq
  <2>2. p.cursor \in Int /\ p.scroll \in Int /\ 0 <= p.scroll /\ p.scroll <= p.cursor
        /\ p.cursor \in {0} \cup -1 .. Len(p.files) - 1
    BY DEF Panels, Read, OnScreen
  <2> QED
    BY <1>1, <2>1, <2>2
<1>3. AtCursor(p) \in Rows
  BY <1>1, <1>2, ElementOfSeq DEF AtCursor
<1>4. ASSUME AtCursor(p).name # ".."
      PROVE  nos_panel_cursor_path(p) \in Path /\ Len(nos_panel_cursor_path(p)) > 1
  <2>1. AtCursor(p).name \in Names
    BY <1>3, <1>4 DEF Rows, Entries, DotDot, Entry
  <2>2. nos_panel_cursor_path(p) = Append(p.path, AtCursor(p).name)
    BY DEF nos_panel_cursor_path
  <2>3. Len(p.path) \in Nat
    BY <1>1, PathIsSeq
  <2> QED
    BY <1>1, <2>1, <2>2, <2>3, Extended
<1> QED
  BY <1>3, <1>4

LEMMA EnterOK ==
    ASSUME NEW d, DiskOK(d), NEW p \in Panels, p.files # <<>>
    PROVE  /\ nos_panel_enter(d, p) \in Panels
           /\ nos_panel_enter(d, p).sort = p.sort
           /\ nos_panel_enter(d, p).files = nos_panel_read_dir(d, nos_panel_enter(d, p)).files
<1> DEFINE path == IF AtCursor(p).name = ".."
                   THEN (IF Len(p.path) > 1 THEN Front(p.path) ELSE p.path)
                   ELSE Append(p.path, AtCursor(p).name)
           q == [p EXCEPT !.path = path]
           new == nos_panel_enter(d, p)
<1>1. p \in Read /\ p.path \in Path /\ Len(p.path) > 0 /\ Len(p.path) \in Nat
  BY PathIsSeq DEF Panels, Read
<1>2. path \in Path /\ Len(path) > 0
  <2>1. AtCursor(p).name = ".." \/ AtCursor(p).name \in Names
    BY CursorOnEntry DEF Rows, Entries, DotDot, Entry
  <2>2. CASE AtCursor(p).name = ".."
    BY <1>1, <2>2, FrontOfPath
  <2>3. CASE AtCursor(p).name # ".." /\ AtCursor(p).name \in Names
    BY <1>1, <2>3, Extended
  <2> QED
    BY <2>1, <2>2, <2>3
<1>3. new = nos_panel_read_dir(d, q)
  BY DEF nos_panel_enter
<1> HIDE DEF path, new
<1>4. q \in Read /\ q.sort = p.sort
  BY <1>1, <1>2 DEF Read
<1> HIDE DEF q
<1>5. new \in Panels /\ new.path = q.path /\ new.sort = q.sort /\ new.files = Lists(d, q.path, q.sort)
  BY <1>3, <1>4, ReadOK
<1>6. new \in Read
  BY <1>5 DEF Panels
<1>7. nos_panel_read_dir(d, new).files = Lists(d, new.path, new.sort)
  BY <1>6, ReadOK
<1> QED
  BY <1>4, <1>5, <1>7 DEF new

------------------------------------------------------------------------------
(* The invariant: the disk is a tree, the cursors are on the screen, and a  *)
(* dialog for a path has one.                                               *)

Tree == DiskOK(disk)
Listed == panels \in [Sides -> Panels]

Asked ==
    /\ job = [cmd |-> job.cmd, src |-> job.src, dst |-> job.dst, reread |-> job.reread]
    /\ job.dst \in Path
    /\ mode = "input" => job.cmd \in {"copy", "move", "mkdir"}
    /\ mode = "confirm" => job.cmd = "delete"
    /\ mode = "confirm" \/ (mode = "input" /\ job.cmd # "mkdir") => job.src \in Path /\ Len(job.src) > 1

Others ==
    /\ active \in Sides /\ mode \in Modes
    /\ choice \in 1 .. 4 /\ cfg \in Sorts \cup {"none", "torn"}
    /\ stale \in BOOLEAN /\ unsaved \in BOOLEAN /\ short \in BOOLEAN
    /\ changes \in 0 .. MaxChanges

IInv == Tree /\ Listed /\ Asked /\ Others /\ PanelsShowDisk /\ OneOrder

LEMMA NoJobAsked ==
    ASSUME job' = NoJob \/ job' = [NoJob EXCEPT !.reread = TRUE] \/ (\E c : job' = [NoJob EXCEPT !.cmd = c]),
           mode' \notin {"input", "confirm"}
    PROVE  Asked'
<1>1. <<>> \in Path
  BY DEF Path
<1> QED
  BY <1>1 DEF Asked, NoJob

(* Nothing that a panel shows has changed.                                  *)
LEMMA QuietOK ==
    ASSUME IInv, UNCHANGED <<disk, panels, cfg, stale, unsaved>>, Asked', Others'
    PROVE  IInv'
<1>1. Tree' /\ Listed'
  BY DEF IInv, Tree, Listed
<1>2. PanelsShowDisk'
  BY DEF IInv, PanelsShowDisk
<1>3. OneOrder'
  BY DEF IInv, OneOrder
<1> QED
  BY <1>1, <1>2, <1>3 DEF IInv

LEMMA ReadBothOK ==
    ASSUME Listed, NEW d, DiskOK(d), ReadBoth(d)
    PROVE  /\ panels' \in [Sides -> Panels]
           /\ \A side \in Sides : /\ panels'[side].sort = panels[side].sort
                                  /\ panels'[side].files = nos_panel_read_dir(d, panels'[side]).files
<1>1. DOMAIN panels' = Sides /\ \A side \in Sides : panels'[side] = nos_panel_read_dir(d, panels[side])
  BY DEF ReadBoth
<1>2. ASSUME NEW side \in Sides
      PROVE  /\ panels'[side] \in Panels /\ panels'[side].sort = panels[side].sort
             /\ panels'[side].files = nos_panel_read_dir(d, panels'[side]).files
  <2>1. panels[side] \in Read
    BY DEF Listed, Panels
  <2>2. /\ panels'[side] \in Panels /\ panels'[side].sort = panels[side].sort
        /\ panels'[side].path = panels[side].path
        /\ panels'[side].files = Lists(d, panels[side].path, panels[side].sort)
    BY <1>1, <2>1, ReadOK
  <2>3. panels'[side] \in Read
    BY <2>2 DEF Panels
  <2>4. nos_panel_read_dir(d, panels'[side]).files = Lists(d, panels'[side].path, panels'[side].sort)
    BY <2>3, ReadOK
  <2> QED
    BY <2>2, <2>4
<1>3. panels' \in [Sides -> Panels]
  BY <1>1, <1>2 DEF ReadBoth
<1> QED
  BY <1>2, <1>3

LEMMA EndsOK ==
    ASSUME IInv, DiskOK(disk'), changes' \in 0 .. MaxChanges, short' \in BOOLEAN, Ends,
           UNCHANGED <<active, Programs, cfg, unsaved>>
    PROVE  IInv'
<1>1. /\ panels' \in [Sides -> Panels]
      /\ \A side \in Sides : /\ panels'[side].sort = panels[side].sort
                             /\ panels'[side].files = nos_panel_read_dir(disk', panels'[side]).files
  BY ReadBothOK DEF Ends, IInv
<1>2. Tree' /\ Listed'
  BY <1>1 DEF Tree, Listed
<1>3. Asked'
  BY NoJobAsked DEF Ends
<1>4. Others'
  BY DEF IInv, Others, Ends, Programs, Modes
<1>5. PanelsShowDisk'
  BY <1>1 DEF PanelsShowDisk
<1>6. OneOrder'
  BY <1>1 DEF OneOrder, IInv, Sides
<1> QED
  BY <1>2, <1>3, <1>4, <1>5, <1>6 DEF IInv

LEMMA FailsOK ==
    ASSUME IInv, Unchanged, Fails, UNCHANGED <<active, Programs, cfg, unsaved>>
    PROVE  IInv'
<1>1. Asked'
  BY NoJobAsked DEF Fails
<1>2. Others'
  BY DEF IInv, Others, Fails, Unchanged, Files, Programs, Modes
<1> QED
  BY <1>1, <1>2, QuietOK DEF Fails, Unchanged, Files

(* What a command may ask for.                                              *)
LEMMA AskOK ==
    ASSUME IInv, NEW dialog \in {"msg", "input", "confirm"}, NEW cmd, Ask(dialog, cmd),
           dialog = "input" => cmd \in {"copy", "move", "mkdir"},
           dialog = "confirm" => cmd = "delete",
           dialog = "confirm" \/ (dialog = "input" /\ cmd # "mkdir") => HasEntry /\ ~ OnDotDot
    PROVE  IInv'
<1>1. ap \in Panels
  BY DEF IInv, Listed, Others, ap
<1>2. HasEntry /\ ~ OnDotDot => nos_panel_cursor_path(ap) \in Path /\ Len(nos_panel_cursor_path(ap)) > 1
  BY <1>1, CursorOnEntry DEF HasEntry, OnDotDot
<1>3. job' = [cmd |-> cmd, src |-> nos_panel_cursor_path(ap), dst |-> <<>>, reread |-> FALSE] /\ mode' = dialog
  BY DEF Ask, NoJob
<1>4. <<>> \in Path
  BY DEF Path
<1>5. Asked'
  BY <1>2, <1>3, <1>4 DEF Asked
<1>6. Others'
  BY <1>3 DEF IInv, Others, Ask, Files, Programs, Modes
<1> QED
  BY <1>5, <1>6, QuietOK DEF Ask, Files

(* A destination is a path, as it was typed or with the name of the source. *)
LEMMA DestinationOK ==
    ASSUME IInv, mode = "input", job.cmd # "mkdir", Destination
    PROVE  \E dst \in Path : job' = [job EXCEPT !.dst = dst]
<1>1. PICK to \in Typed \cup {Proposed} :
        job' = [job EXCEPT !.dst = IF to.slash THEN Append(to.path, Last(job.src)) ELSE to.path]
  BY DEF Destination
<1>2. job.src \in Path /\ Len(job.src) > 1
  BY DEF IInv, Asked
<1>3. Last(job.src) \in Names
  BY <1>2, FrontOfPath
<1>4. ip \in Read /\ ip.path \in Path /\ Len(ip.path) > 0
  <2>1. Other(active) \in Sides
    BY DEF IInv, Others, Sides, Other
  <2>2. panels[Other(active)] \in Panels
    BY <2>1 DEF IInv, Listed
  <2> QED
    BY <2>2 DEF Panels, Read, ip
<1>5. Proposed.path \in Path
  <2>1. CASE Len(ip.path) <= DLG_FIELD_W
    BY <1>4, <2>1 DEF Proposed
  <2>2. CASE ~ (Len(ip.path) <= DLG_FIELD_W)
    <3> DEFINE h == SubSeq(ip.path, 1, DLG_FIELD_W - 1)
    <3>1. DLG_FIELD_W \in Nat \ {0} /\ Cut \in Names
      BY ShellAssumption DEF ShellAssumption
    <3>2. /\ ip.path \in Seq(STRING) /\ Len(ip.path) \in Nat
          /\ \A i \in 2 .. Len(ip.path) : ip.path[i] \in Names
      BY <1>4, PathIsSeq
    <3>3. 1 \in Int /\ DLG_FIELD_W - 1 \in Int
      BY <3>1
    <3>4. \A i \in 1 .. DLG_FIELD_W - 1 : ip.path[i] \in STRING
      BY <2>2, <3>1, <3>2, ElementOfSeq
    <3>5. /\ h \in Seq(STRING) /\ Len(h) = IF 1 <= DLG_FIELD_W - 1 THEN (DLG_FIELD_W - 1) - 1 + 1 ELSE 0
          /\ \A i \in 1 .. (DLG_FIELD_W - 1) - 1 + 1 : h[i] = ip.path[1 + i - 1]
      BY <3>3, <3>4, SubSeqProperties
    <3> HIDE DEF h
    <3>6. \A i \in 2 .. Len(h) : h[i] \in Names
      BY <2>2, <3>1, <3>2, <3>5
    <3>7. h \in Path
      BY <3>5, <3>6 DEF Path
    <3>8. Append(h, Cut) \in Path
      BY <3>1, <3>7, Extended
    <3> QED
      BY <2>2, <3>8 DEF Proposed, h
  <2> QED
    BY <2>1, <2>2
<1>6. to.path \in Path
  BY <1>5, ShellAssumption DEF ShellAssumption
<1>7. Append(to.path, Last(job.src)) \in Path
  BY <1>3, <1>6, Extended
<1> QED
  BY <1>1, <1>6, <1>7

LEMMA ChangedOK ==
    ASSUME changes \in 0 .. MaxChanges, NEW d, DiskOK(d), Changed(d)
    PROVE  DiskOK(disk') /\ disk' = d /\ changes' \in 0 .. MaxChanges /\ short' \in BOOLEAN
<1>1. disk' = d /\ short' = FALSE /\ changes' = changes + 1 /\ changes < MaxChanges
  BY DEF Changed, Room
<1>2. changes' \in 0 .. MaxChanges
  BY <1>1, ShellAssumption DEF ShellAssumption
<1>3. DiskOK(disk')
  BY <1>1
<1> QED
  BY <1>1, <1>2, <1>3

(* Another program takes a file away, or makes one.                         *)
LEMMA OtherProgramOK ==
    ASSUME IInv, OtherProgram
    PROVE  DiskOK(disk') /\ changes' \in 0 .. MaxChanges /\ short' \in BOOLEAN /\ stale' = TRUE
<1>1. DiskOK(disk) /\ changes \in 0 .. MaxChanges /\ short \in BOOLEAN /\ MaxChanges \in Nat
  BY ShellAssumption DEF IInv, Tree, Others, ShellAssumption
<1>2. stale' = TRUE
  BY DEF OtherProgram
<1>3. CASE Unchanged
  BY <1>1, <1>2, <1>3 DEF Unchanged, Files
<1>4. CASE \E p \in DOMAIN disk : ~ disk[p].is_dir /\ Changed(Without(p))
  <2>1. PICK p \in DOMAIN disk : Changed(Without(p))
    BY <1>4
  <2>2. DiskOK(Without(p))
    BY <1>1, <2>1, PathIsSeq, WithoutOK DEF DiskOK
  <2> QED
    BY <1>1, <1>2, <2>1, <2>2, ChangedOK
<1>5. CASE \E dir \in {Home}, name \in NewNames :
             Writable(Append(dir, name)) /\ Changed(With(disk, Append(dir, name), File(1, 1)))
  <2>1. PICK name \in NewNames :
             Writable(Append(Home, name)) /\ Changed(With(disk, Append(Home, name), File(1, 1)))
    BY <1>5
  <2> DEFINE path == Append(Home, name)
  <2>2. path \in Path
    BY ShellAssumption, Extended DEF ShellAssumption
  <2>3. Writable(path) /\ Changed(With(disk, path, File(1, 1)))
    BY <2>1
  <2> HIDE DEF path
  <2>4. Len(path) > 1 /\ IsDir(disk, Front(path)) /\ (path \in DOMAIN disk => ~ disk[path].is_dir)
    BY <2>3 DEF Writable, Creatable, IsDir, PathExists
  <2>5. File(1, 1) \in At
    BY Sizes DEF File, At
  <2>6. DiskOK(With(disk, path, File(1, 1)))
    BY <1>1, <2>2, <2>4, <2>5, WithOK
  <2> QED
    BY <1>1, <1>2, <2>3, <2>6, ChangedOK
<1> QED
  BY <1>3, <1>4, <1>5 DEF OtherProgram

(* What the panels show is stale then, and stays as it is.                  *)
LEMMA AfterOtherProgram ==
    ASSUME IInv, OtherProgram, UNCHANGED <<panels, active, cfg, unsaved, choice, job>>,
           mode' \in Modes \ {"input", "confirm"}
    PROVE  IInv'
<1>1. DiskOK(disk') /\ changes' \in 0 .. MaxChanges /\ short' \in BOOLEAN /\ stale' = TRUE
  BY OtherProgramOK
<1>2. Tree' /\ Listed'
  BY <1>1 DEF IInv, Tree, Listed
<1>3. Asked'
  BY DEF IInv, Asked
<1>4. Others'
  BY <1>1 DEF IInv, Others
<1>5. PanelsShowDisk'
  BY <1>1 DEF PanelsShowDisk
<1>6. OneOrder'
  BY DEF IInv, OneOrder
<1> QED
  BY <1>2, <1>3, <1>4, <1>5, <1>6 DEF IInv

(* A command that puts a file, a directory or nothing in the place of what  *)
(* its dialog named.                                                        *)
LEMMA CommandOK ==
    ASSUME IInv, Copy \/ Move \/ Mkdir \/ Delete
    PROVE  /\ IInv'
           /\ \A p \in DOMAIN disk \cup DOMAIN disk' : Same(p) \/ Named(p)
           /\ (mode = "input" /\ job.cmd = "move" /\ job.src \in DOMAIN disk
                 /\ job.dst \notin {<<>>, job.src} /\ ~ short') => Kept
<1> DEFINE Fine == DiskOK(disk') /\ changes' \in 0 .. MaxChanges /\ short' \in BOOLEAN
           Touched == \A p \in DOMAIN disk \cup DOMAIN disk' : Same(p) \/ Named(p)
<1>1. /\ DiskOK(disk) /\ changes \in 0 .. MaxChanges /\ MaxChanges \in Nat /\ job.dst \in Path
  BY ShellAssumption DEF IInv, Tree, Others, Asked, ShellAssumption
<1>2. UNCHANGED <<active, Programs, cfg, unsaved>>
  BY DEF Copy, Move, Mkdir, Delete
<1>3. ASSUME Unchanged, Fails
      PROVE  IInv' /\ Touched /\ (job.src \in DOMAIN disk => Kept)
  <2>1. IInv'
    BY <1>2, <1>3, FailsOK
  <2>2. disk' = disk
    BY <1>3 DEF Unchanged, Files
  <2> QED
    BY <2>1, <2>2 DEF Same, Kept
<1>4. ASSUME Fine, Ends PROVE IInv'
  BY <1>2, <1>4, EndsOK
<1>5. ASSUME NEW src \in Path, NEW dst \in Path, NEW gone \in {{}, {src}}, Copied(src, dst, gone)
      PROVE  /\ Fine
             /\ \A p \in DOMAIN disk \cup DOMAIN disk' : Same(p) \/ Inside(p, src) \/ Inside(p, dst)
             /\ src # dst /\ ~ short' => dst \in DOMAIN disk' /\ disk'[dst].size = disk[src].size
  <2>1. /\ DiskOK(disk') /\ changes < MaxChanges /\ changes' = changes + 1 /\ short' \in BOOLEAN
        /\ \A p \in DOMAIN disk \cup DOMAIN disk' :
              p = src \/ p = dst \/ (p \in DOMAIN disk \cap DOMAIN disk' /\ disk[p] = disk'[p])
        /\ src # dst /\ ~ short' => dst \in DOMAIN disk' /\ disk'[dst].size = disk[src].size
    BY <1>1, <1>5, CopiedOK
  <2>2. Inside(src, src) /\ Inside(dst, dst)
    BY PathIsSeq, InsideMeans
  <2>3. changes' \in 0 .. MaxChanges
    BY <1>1, <2>1
  <2> QED
    BY <2>1, <2>2, <2>3 DEF Same
<1>6. CASE Copy
  <2>1. mode = "input" /\ job.cmd = "copy" /\ job.dst # <<>> /\ job.src \in Path
    BY <1>6 DEF Copy, IInv, Asked
  <2>2. CASE Copied(job.src, job.dst, {}) /\ Ends
    <3>1. Fine /\ \A p \in DOMAIN disk \cup DOMAIN disk' : Same(p) \/ Inside(p, job.src) \/ Inside(p, job.dst)
      BY <1>1, <1>5, <2>1, <2>2
    <3>2. Touched
      BY <2>1, <3>1 DEF Named
    <3> QED
      BY <1>4, <2>1, <2>2, <3>1, <3>2
  <2> QED
    BY <1>3, <1>6, <2>1, <2>2 DEF Copy
<1>7. CASE Move
  <2>1. mode = "input" /\ job.cmd = "move" /\ job.dst # <<>> /\ job.src \in Path /\ Len(job.src) > 1
    BY <1>7 DEF Move, IInv, Asked
  <2>2. CASE CanRename(job.src, job.dst) /\ Changed(Renamed(job.src, job.dst)) /\ Ends
    <3> DEFINE new == Renamed(job.src, job.dst)
    <3>1. /\ DiskOK(new) /\ job.dst \in DOMAIN new /\ new[job.dst] = disk[job.src]
          /\ \A p \in DOMAIN disk \cup DOMAIN new :
                \/ Inside(p, job.src) \/ Inside(p, job.dst)
                \/ p \in DOMAIN disk \cap DOMAIN new /\ disk[p] = new[p]
      BY <1>1, <2>1, <2>2, RenamedOK
    <3>2. Changed(new)
      BY <2>2
    <3> HIDE DEF new
    <3>3. Fine /\ disk' = new
      BY <1>1, <3>1, <3>2, ChangedOK
    <3>4. Touched
      BY <2>1, <3>1, <3>3 DEF Named, Same
    <3>5. Kept
      BY <3>1, <3>3 DEF Kept
    <3> QED
      BY <1>4, <2>2, <3>3, <3>4, <3>5
  <2>3. CASE \E gone \in {{}, {job.src}} : Copied(job.src, job.dst, gone) /\ Ends
    <3>1. PICK gone \in {{}, {job.src}} : Copied(job.src, job.dst, gone) /\ Ends
      BY <2>3
    <3>2. /\ Fine
          /\ \A p \in DOMAIN disk \cup DOMAIN disk' : Same(p) \/ Inside(p, job.src) \/ Inside(p, job.dst)
          /\ job.src # job.dst /\ ~ short' => job.dst \in DOMAIN disk' /\ disk'[job.dst].size = disk[job.src].size
      BY <1>1, <1>5, <2>1, <3>1
    <3>3. Touched
      BY <2>1, <3>2 DEF Named
    <3>4. job.src # job.dst /\ ~ short' => Kept
      BY <3>2 DEF Kept
    <3> QED
      BY <1>4, <3>1, <3>2, <3>3, <3>4
  <2> QED
    BY <1>3, <1>7, <2>2, <2>3 DEF Move
<1>8. CASE Mkdir
  <2>1. mode = "input" /\ job.cmd = "mkdir"
    BY <1>8 DEF Mkdir
  <2>2. PICK name \in NewNames :
          LET full == Append(ap.path, name)
          IN  \/ /\ Creatable(full) /\ ~ PathExists(disk, full)
                 /\ Changed(With(disk, full, [Directory EXCEPT !.date = 1])) /\ Ends
              \/ Unchanged /\ Fails
    BY <1>8 DEF Mkdir
  <2> DEFINE full == Append(ap.path, name)
             at == [Directory EXCEPT !.date = 1]
  <2>3. CASE Creatable(full) /\ ~ PathExists(disk, full) /\ Changed(With(disk, full, at)) /\ Ends
    <3>1. full \in Path
      <4>1. ap \in Panels
        BY DEF IInv, Listed, Others, ap
      <4>2. ap.path \in Path /\ name \in Names
        BY <2>2, <4>1, ShellAssumption DEF Panels, Read, ShellAssumption
      <4> QED
        BY <4>2, Extended
    <3>2. at \in At /\ at.is_dir
      BY Sizes DEF At, Directory
    <3> HIDE DEF full, at
    <3>3. Len(full) > 1 /\ IsDir(disk, Front(full)) /\ full \notin DOMAIN disk
      BY <2>3 DEF Creatable, PathExists
    <3>4. DiskOK(With(disk, full, at))
      BY <1>1, <3>1, <3>2, <3>3, WithOK
    <3>5. Fine /\ disk' = With(disk, full, at)
      BY <1>1, <2>3, <3>4, ChangedOK
    <3>6. Touched
      BY <2>1, <3>2, <3>3, <3>5 DEF With, Same, Named
    <3> QED
      BY <1>4, <2>1, <2>3, <3>5, <3>6
  <2> QED
    BY <1>3, <2>1, <2>2, <2>3
<1>9. CASE Delete
  <2>1. mode = "confirm" /\ job.cmd = "delete" /\ job.src \in Path /\ job.src \in Seq(STRING)
    BY <1>9, PathIsSeq DEF Delete, IInv, Asked
  <2>2. CASE Changed(Without(job.src)) /\ Ends
    <3>1. DiskOK(Without(job.src))
      BY <1>1, <2>1, WithoutOK
    <3>2. Fine /\ disk' = Without(job.src)
      BY <1>1, <2>2, <3>1, ChangedOK
    <3>3. Touched
      BY <2>1, <3>2 DEF Without, Same, Named
    <3> QED
      BY <1>4, <2>1, <2>2, <3>2, <3>3
  <2> QED
    BY <1>3, <1>9, <2>1, <2>2 DEF Delete
<1> QED
  BY <1>6, <1>7, <1>8, <1>9

(* The panels at the start of the shell.                                    *)
LEMMA StartOK ==
    ASSUME NEW d, DiskOK(d), NEW cwd \in Path, Len(cwd) > 0
    PROVE  /\ nos_panel_init(d, cwd) \in Panels
           /\ nos_panel_init(d, cwd).sort = "name"
           /\ nos_panel_init(d, cwd).files = nos_panel_read_dir(d, nos_panel_init(d, cwd)).files
<1> DEFINE empty == [path |-> cwd, files |-> <<>>, cursor |-> 0, scroll |-> 0, sort |-> "name"]
           new == nos_panel_init(d, cwd)
<1>1. empty \in Read /\ empty.sort = "name"
  BY DEF Read, Sorts
<1>2. new = nos_panel_read_dir(d, empty)
  BY DEF nos_panel_init
<1> HIDE DEF empty, new
<1>3. new \in Panels /\ new.path = empty.path /\ new.sort = empty.sort /\ new.files = Lists(d, empty.path, empty.sort)
  BY <1>1, <1>2, ReadOK
<1>4. new \in Read
  BY <1>3 DEF Panels
<1>5. nos_panel_read_dir(d, new).files = Lists(d, new.path, new.sort)
  BY <1>4, ReadOK
<1> QED
  BY <1>1, <1>3, <1>5 DEF new

(* A panel is read in an order.                                             *)
LEMMA ReadInOrder ==
    ASSUME NEW d, DiskOK(d), NEW p \in Panels, NEW sort \in Sorts
    PROVE  LET new == nos_panel_read_dir(d, [p EXCEPT !.sort = sort])
           IN  new \in Panels /\ new.sort = sort /\ new.files = nos_panel_read_dir(d, new).files
<1> DEFINE q == [p EXCEPT !.sort = sort]
           new == nos_panel_read_dir(d, q)
<1>1. q \in Read /\ q.sort = sort
  BY DEF Panels, Read
<1> HIDE DEF q
<1>2. new \in Panels /\ new.path = q.path /\ new.sort = q.sort /\ new.files = Lists(d, q.path, q.sort)
  BY <1>1, ReadOK
<1> HIDE DEF new
<1>3. new \in Read
  BY <1>2 DEF Panels
<1>4. nos_panel_read_dir(d, new).files = Lists(d, new.path, new.sort)
  BY <1>3, ReadOK
<1>5. new \in Panels /\ new.sort = sort /\ new.files = nos_panel_read_dir(d, new).files
  BY <1>1, <1>2, <1>4
<1> QED
  BY <1>5 DEF new, q

LEMMA InitInvariant == Init => IInv
<1> SUFFICES ASSUME Init PROVE IInv
  OBVIOUS
<1>1. DiskOK(disk)
  BY ShellAssumption DEF Init, DiskOK, ShellAssumption, At
<1>2. \A side \in Sides : panels[side] = nos_panel_init(disk, Home)
  BY DEF Init
<1>3. /\ nos_panel_init(disk, Home) \in Panels /\ nos_panel_init(disk, Home).sort = "name"
      /\ nos_panel_init(disk, Home).files = nos_panel_read_dir(disk, nos_panel_init(disk, Home)).files
  BY <1>1, StartOK, ShellAssumption DEF ShellAssumption
<1>4. Tree /\ Listed
  BY <1>1, <1>3 DEF Init, Tree, Listed
<1>5. Asked
  <2>1. <<>> \in Path
    BY DEF Path
  <2> QED
    BY <2>1 DEF Init, Asked, NoJob
<1>6. Others
  <2>1. changes \in 0 .. MaxChanges /\ choice \in 1 .. 4
    BY ShellAssumption DEF Init, ShellAssumption
  <2>2. stale \in BOOLEAN /\ unsaved \in BOOLEAN /\ short \in BOOLEAN
    BY Zenon DEF Init
  <2>3. active \in Sides /\ mode \in Modes /\ cfg \in Sorts \cup {"none", "torn"}
    BY DEF Init, Sides, Modes
  <2> QED
    BY <2>1, <2>2, <2>3 DEF Others
<1>7. PanelsShowDisk
  BY <1>2, <1>3 DEF PanelsShowDisk
<1>8. OneOrder
  BY <1>2, <1>3 DEF OneOrder, Init, Sides, Sorts
<1> QED
  BY <1>4, <1>5, <1>6, <1>7, <1>8 DEF IInv

(* The shell is left and comes back in the order of SHELL.CFG.              *)
LEMMA StartsOK ==
    ASSUME IInv, Starts
    PROVE  IInv'
<1>1. PICK cwd \in Directories :
        panels' = [side \in Sides |->
            nos_panel_read_dir(disk, [nos_panel_init(disk, cwd) EXCEPT !.sort = nos_cfg_load])]
  BY DEF Starts
<1>2. DiskOK(disk) /\ nos_cfg_load \in Sorts
  BY DEF IInv, Tree, nos_cfg_load, Sorts
<1>3. cwd \in Path /\ Len(cwd) > 0
  <2>1. CASE cwd = Home
    BY <2>1, ShellAssumption DEF ShellAssumption
  <2>2. CASE cwd \in DOMAIN disk
    <3>1. cwd \in Path /\ Len(cwd) > 1
      BY <1>2, <2>2 DEF DiskOK
    <3>2. Len(cwd) \in Nat
      BY <3>1, PathIsSeq
    <3> QED
      BY <3>1, <3>2
  <2> QED
    BY <2>1, <2>2 DEF Directories
<1> DEFINE new == nos_panel_read_dir(disk, [nos_panel_init(disk, cwd) EXCEPT !.sort = nos_cfg_load])
<1>4. new \in Panels /\ new.sort = nos_cfg_load /\ new.files = nos_panel_read_dir(disk, new).files
  BY <1>2, <1>3, StartOK, ReadInOrder
<1>5. panels' = [side \in Sides |-> new] /\ disk' = disk
  BY <1>1 DEF Starts, Files
<1> HIDE DEF new
<1>6. \A side \in Sides : panels'[side] = new
  BY <1>5
<1>7. Tree' /\ Listed'
  BY <1>2, <1>4, <1>5 DEF Tree, Listed
<1>8. Asked'
  BY DEF Starts, IInv, Asked
<1>9. Others'
  BY DEF Starts, IInv, Others, Files, Programs, Sides, Modes
<1>10. PanelsShowDisk'
  BY <1>4, <1>5, <1>6 DEF PanelsShowDisk
<1>11. OneOrder'
  BY <1>4, <1>6 DEF OneOrder, Starts, Sides, nos_cfg_load
<1> QED
  BY <1>7, <1>8, <1>9, <1>10, <1>11 DEF IInv

(* Another order is chosen for both panels.                                 *)
LEMMA SortChosenOK ==
    ASSUME IInv, SortChosen
    PROVE  IInv'
<1> DEFINE order == SortOrder[choice]
<1>1. DiskOK(disk) /\ order \in Sorts /\ choice \in 1 .. 4
  BY DEF IInv, Tree, Others, SortOrder, Sorts
<1>2. Asked'
  BY DEF SortChosen, IInv, Asked
<1>3. CASE UNCHANGED <<panels, stale, cfg, unsaved>>
  <2>1. Others'
    BY <1>3 DEF SortChosen, IInv, Others, Files, Modes
  <2> QED
    BY <1>2, <1>3, <2>1, QuietOK DEF SortChosen, Files
<1>4. CASE /\ panels' = [side \in Sides |-> nos_panel_read_dir(disk, [panels[side] EXCEPT !.sort = order])]
           /\ stale' = FALSE /\ nos_cfg_save(order)
  <2> HIDE DEF order
  <2>1. DOMAIN panels' = Sides /\ \A side \in Sides :
           panels'[side] = nos_panel_read_dir(disk, [panels[side] EXCEPT !.sort = order])
    BY <1>4
  <2>2. \A side \in Sides : /\ panels'[side] \in Panels /\ panels'[side].sort = order
                            /\ panels'[side].files = nos_panel_read_dir(disk, panels'[side]).files
    <3> TAKE side \in Sides
    <3>1. panels[side] \in Panels
      BY DEF IInv, Listed
    <3> DEFINE new == nos_panel_read_dir(disk, [panels[side] EXCEPT !.sort = order])
    <3>2. new \in Panels /\ new.sort = order /\ new.files = nos_panel_read_dir(disk, new).files
      BY <1>1, <3>1, ReadInOrder
    <3>3. panels'[side] = new
      BY <2>1
    <3> HIDE DEF new
    <3> QED
      BY <3>2, <3>3
  <2>3. disk' = disk
    BY DEF SortChosen, Files
  <2>4. panels' \in [Sides -> Panels]
    BY <1>4, <2>1, <2>2
  <2>5. Tree' /\ Listed'
    BY <1>1, <2>3, <2>4 DEF Tree, Listed
  <2>6. Others'
    <3>1. cfg' \in Sorts \cup {"none", "torn"}
      BY <1>1, <1>4 DEF nos_cfg_save, IInv, Others
    <3>2. unsaved' \in BOOLEAN /\ stale' \in BOOLEAN
      BY <1>4, Zenon DEF nos_cfg_save
    <3>3. active' \in Sides /\ mode' \in Modes /\ choice' \in 1 .. 4
      BY DEF SortChosen, IInv, Others, Modes
    <3>4. changes' \in 0 .. MaxChanges /\ short' \in BOOLEAN
      BY DEF SortChosen, IInv, Others, Files
    <3> QED
      BY <3>1, <3>2, <3>3, <3>4 DEF Others
  <2>7. PanelsShowDisk'
    BY <2>2, <2>3 DEF PanelsShowDisk
  <2>8. OneOrder'
    BY <1>4, <2>2 DEF OneOrder, nos_cfg_save, Sides
  <2> QED
    BY <1>2, <2>5, <2>6, <2>7, <2>8 DEF IInv
<1> QED
  BY <1>3, <1>4 DEF SortChosen

(* The entry ".." is a directory.                                           *)
LEMMA DotDotIsDir ==
    ASSUME NEW p \in Panels, p.files # <<>>, AtCursor(p).name = ".."
    PROVE  AtCursor(p).is_dir
<1>1. AtCursor(p) \in Rows
  BY CursorOnEntry
<1>2. ".." \notin Names
  BY PanelAssumption DEF PanelAssumption
<1> QED
  BY <1>1, <1>2 DEF Rows, Entries, DotDot, Entry, Directory

LEMMA NextInvariant == IInv /\ [Next]_vars => IInv'
<1> SUFFICES ASSUME IInv, [Next]_vars PROVE IInv'
  OBVIOUS
<1>1. active \in Sides /\ ap \in Panels /\ DiskOK(disk)
  BY DEF IInv, Tree, Others, Listed, ap
<1>2. CASE action_copy
  <2>1. HasEntry /\ (~ AtCursor(ap).is_dir => ~ OnDotDot)
    BY <1>1, <1>2, DotDotIsDir DEF action_copy, HasEntry, OnDotDot
  <2>2. CASE AtCursor(ap).is_dir
    <3>1. Ask("msg", "copy")
      BY <1>2, <2>2 DEF action_copy
    <3> QED
      BY <3>1, AskOK
  <2>3. CASE ~ AtCursor(ap).is_dir
    <3>1. Ask("input", "copy")
      BY <1>2, <2>3 DEF action_copy
    <3> QED
      BY <2>1, <2>3, <3>1, AskOK
  <2> QED
    BY <2>2, <2>3
<1>3. CASE action_move
  BY <1>3, AskOK DEF action_move
<1>4. CASE action_mkdir
  BY <1>4, AskOK DEF action_mkdir
<1>5. CASE action_delete
  BY <1>5, AskOK DEF action_delete
<1>6. CASE EntersDestination
  <2>1. mode = "input" /\ job.cmd # "mkdir" /\ Destination
    BY <1>6 DEF EntersDestination
  <2>2. PICK dst \in Path : job' = [job EXCEPT !.dst = dst]
    BY <2>1, DestinationOK
  <2>3. Asked'
    BY <1>6, <2>2 DEF EntersDestination, IInv, Asked
  <2>4. Others'
    BY <1>6 DEF EntersDestination, IInv, Others, Files, Programs
  <2> QED
    BY <1>6, <2>3, <2>4, QuietOK DEF EntersDestination, Files
<1>7. CASE Cancels
  <2>1. Asked'
    BY <1>7, NoJobAsked DEF Cancels
  <2>2. Others'
    BY <1>7 DEF Cancels, IInv, Others, Files, Programs, Modes
  <2> QED
    BY <1>7, <2>1, <2>2, QuietOK DEF Cancels, Files
<1>8. CASE Copy \/ Move \/ Mkdir \/ Delete
  BY <1>8, CommandOK
<1>9. CASE MsgDismissed
  <2>1. UNCHANGED Files /\ UNCHANGED <<active, Programs, cfg, unsaved>>
    BY <1>9 DEF MsgDismissed, Unchanged
  <2>2. CASE Ends
    <3>1. DiskOK(disk') /\ changes' \in 0 .. MaxChanges /\ short' \in BOOLEAN
      BY <1>1, <2>1 DEF Files, IInv, Others
    <3> QED
      BY <2>1, <2>2, <3>1, EndsOK
  <2>3. CASE mode' = "run" /\ job' = NoJob /\ UNCHANGED <<panels, stale>>
    <3>1. Asked'
      BY <2>3, NoJobAsked
    <3>2. Others'
      BY <2>1, <2>3 DEF IInv, Others, Files, Programs, Modes
    <3> QED
      BY <2>1, <2>3, <3>1, <3>2, QuietOK DEF Files
  <2> QED
    BY <1>9, <2>2, <2>3 DEF MsgDismissed
<1>10. ASSUME NEW p \in Panels, panels' = [panels EXCEPT ![active] = p], p.sort = ap.sort,
              ~ stale => p.files = nos_panel_read_dir(disk, p).files,
              UNCHANGED <<Files, active, mode, job, Programs, cfg, stale, unsaved>>
       PROVE  IInv'
  <2>1. \A side \in Sides : panels'[side] = IF side = active THEN p ELSE panels[side]
    BY <1>10 DEF IInv, Listed
  <2>2. Tree' /\ Listed'
    BY <1>10 DEF IInv, Tree, Listed, Files
  <2>3. Asked' /\ Others'
    BY <1>10 DEF IInv, Asked, Others, Files, Programs
  <2>4. disk' = disk /\ stale' = stale
    BY <1>10 DEF Files
  <2>5. PanelsShowDisk'
    BY <1>10, <2>1, <2>4 DEF IInv, PanelsShowDisk
  <2>6. OneOrder'
    BY <1>10, <2>1 DEF IInv, OneOrder, Sides, ap
  <2> QED
    BY <2>2, <2>3, <2>5, <2>6 DEF IInv
<1>11. CASE MoveCursor
  <2>1. PICK key \in DOMAIN Deltas \cap Keys :
          panels' = [panels EXCEPT ![active] = nos_panel_move_cursor(ap, Deltas[key])]
    BY <1>1, <1>11 DEF MoveCursor, IInv, Listed, ap
  <2>2. Deltas[key] \in Int
    <3>1. INNER_H \in Int
      BY PanelAssumption DEF PanelAssumption
    <3> QED
      BY <3>1, <2>1 DEF Deltas
  <2> DEFINE p == nos_panel_move_cursor(ap, Deltas[key])
  <2>3. p \in Panels /\ p.path = ap.path /\ p.sort = ap.sort /\ p.files = ap.files
    BY <1>1, <2>2, MoveCursorOK
  <2>4. panels' = [panels EXCEPT ![active] = p]
    BY <2>1
  <2> HIDE DEF p
  <2>5. ~ stale => p.files = nos_panel_read_dir(disk, p).files
    <3>1. p \in Read /\ ap \in Read
      BY <1>1, <2>3 DEF Panels
    <3>2. nos_panel_read_dir(disk, p).files = nos_panel_read_dir(disk, ap).files
      BY <1>1, <2>3, <3>1, ReadOK
    <3>3. ~ stale => ap.files = nos_panel_read_dir(disk, ap).files
      BY <1>1 DEF IInv, PanelsShowDisk, ap
    <3> QED
      BY <2>3, <3>2, <3>3
  <2> QED
    BY <1>10, <1>11, <2>3, <2>4, <2>5 DEF MoveCursor
<1>12. CASE EnterDirectory
  <2> DEFINE p == nos_panel_enter(disk, ap)
  <2>1. panels' = [panels EXCEPT ![active] = p]
    BY <1>1, <1>12 DEF EnterDirectory, IInv, Listed, ap
  <2>2. p \in Panels /\ p.sort = ap.sort /\ p.files = nos_panel_read_dir(disk, p).files
    BY <1>1, <1>12, EnterOK DEF EnterDirectory, HasEntry
  <2> HIDE DEF p
  <2> QED
    BY <1>10, <1>12, <2>1, <2>2 DEF EnterDirectory
<1>13. CASE Refresh
  <2>1. /\ panels' \in [Sides -> Panels]
        /\ \A side \in Sides : /\ panels'[side].sort = panels[side].sort
                               /\ panels'[side].files = nos_panel_read_dir(disk, panels'[side]).files
    BY <1>1, <1>13, ReadBothOK DEF Refresh, IInv
  <2>2. disk' = disk
    BY <1>13 DEF Refresh, Files
  <2>3. Tree' /\ Listed'
    BY <1>1, <2>1, <2>2 DEF Tree, Listed
  <2>4. Asked' /\ Others'
    BY <1>13 DEF Refresh, IInv, Asked, Others, Files, Programs
  <2>5. PanelsShowDisk'
    BY <2>1, <2>2 DEF PanelsShowDisk
  <2>6. OneOrder'
    BY <1>13, <2>1 DEF OneOrder, Refresh, IInv, Sides
  <2> QED
    BY <2>3, <2>4, <2>5, <2>6 DEF IInv
<1>14. CASE Tab
  <2>1. Asked' /\ Others'
    BY <1>14 DEF Tab, IInv, Asked, Others, Files, Programs, Other, Sides
  <2> QED
    BY <1>14, <2>1, QuietOK DEF Tab, Files
<1>15. CASE dos_shell \/ (LauncherLeft /\ OtherProgram)
  <2>1. /\ OtherProgram /\ UNCHANGED <<panels, active, cfg, unsaved, choice, job>>
        /\ mode' \in Modes \ {"input", "confirm"}
    BY <1>15 DEF dos_shell, LauncherLeft, Programs, Modes
  <2> QED
    BY <2>1, AfterOtherProgram
<1>16. CASE LauncherLeft /\ UNCHANGED <<Files, stale>>
  <2>1. Asked' /\ Others'
    BY <1>16 DEF LauncherLeft, IInv, Asked, Others, Files, Modes
  <2> QED
    BY <1>16, <2>1, QuietOK DEF LauncherLeft, Files
<1>17. CASE action_view
  <2>1. /\ UNCHANGED <<Files, panels, active, choice, launcher, cfg, stale, unsaved>>
        /\ \/ mode' = "viewer" /\ UNCHANGED job
           \/ mode' = "msg" /\ job' = [NoJob EXCEPT !.cmd = "view"]
    <3>1. UNCHANGED <<Files, panels, active, choice, launcher, cfg, stale, unsaved>>
      BY <1>17 DEF action_view
    <3>2. ASSUME PathExists(disk, nos_panel_cursor_path(ap)) PROVE mode' = "viewer" /\ UNCHANGED job
      BY <1>17, <3>2 DEF action_view
    <3>3. ASSUME ~ PathExists(disk, nos_panel_cursor_path(ap))
          PROVE  mode' = "msg" /\ job' = [NoJob EXCEPT !.cmd = "view"]
      BY <1>17, <3>3 DEF action_view
    <3> QED
      BY <3>1, <3>2, <3>3
  <2>2. Asked'
    BY <2>1, NoJobAsked DEF IInv, Asked
  <2>3. Others'
    BY <2>1 DEF IInv, Others, Files, Modes
  <2> QED
    BY <2>1, <2>2, <2>3, QuietOK DEF Files
<1>18. CASE action_launch
  <2>1. /\ UNCHANGED <<Files, panels, active, choice, viewer, cfg, stale, unsaved>>
        /\ \/ mode' = "launcher" /\ UNCHANGED job
           \/ mode' = "msg" /\ job' = [NoJob EXCEPT !.cmd = "launch"]
    <3>1. UNCHANGED <<Files, panels, active, choice, viewer, cfg, stale, unsaved>>
      BY <1>18 DEF action_launch
    <3>2. PICK menu \in Menus :
            IF lau_load(menu).entries = <<>>
            THEN mode' = "msg" /\ job' = [NoJob EXCEPT !.cmd = "launch"] /\ UNCHANGED launcher
            ELSE mode' = "launcher" /\ launcher' = lau_load(menu) /\ UNCHANGED job
      BY <1>18 DEF action_launch
    <3>3. CASE lau_load(menu).entries = <<>>
      BY <3>1, <3>2, <3>3
    <3>4. CASE lau_load(menu).entries # <<>>
      BY <3>1, <3>2, <3>4
    <3> QED
      BY <3>3, <3>4
  <2>2. Asked'
    BY <2>1, NoJobAsked DEF IInv, Asked
  <2>3. Others'
    BY <2>1 DEF IInv, Others, Files, Modes
  <2> QED
    BY <2>1, <2>2, <2>3, QuietOK DEF Files
<1>19. CASE ViewerScrolls \/ ViewerCloses \/ LauncherMoves \/ SortMoves \/ action_quit
  <2>1. UNCHANGED <<Files, panels, active, job, cfg, stale, unsaved>>
        /\ (mode' = mode \/ mode' \in {"run", "exit"}) /\ choice' \in 1 .. 4
    BY <1>19 DEF ViewerScrolls, ViewerCloses, LauncherMoves, SortMoves, action_quit, IInv, Others, Programs
  <2>2. Asked' /\ Others'
    BY <2>1 DEF IInv, Asked, Others, Files, Modes
  <2> QED
    BY <2>1, <2>2, QuietOK DEF Files
<1>20. CASE action_config
  <2>1. choice' \in 1 .. 4
    <3>1. panels["left"].sort \in Sorts
      BY DEF IInv, Listed, Panels, Read, Sides
    <3>2. \E k \in 1 .. 4 : SortOrder[k] = panels["left"].sort
      <4>1. /\ SortOrder[1] = "name" /\ SortOrder[2] = "ext" /\ SortOrder[3] = "size" /\ SortOrder[4] = "date"
            /\ 1 \in 1 .. 4 /\ 2 \in 1 .. 4 /\ 3 \in 1 .. 4 /\ 4 \in 1 .. 4
        BY DEF SortOrder
      <4> QED
        BY <3>1, <4>1 DEF Sorts
    <3> QED
      BY <1>20, <3>2 DEF action_config
  <2>2. Asked' /\ Others'
    BY <1>20, <2>1 DEF action_config, IInv, Asked, Others, Files, Modes
  <2> QED
    BY <1>20, <2>2, QuietOK DEF action_config, Files
<1>21. CASE UNCHANGED vars
  <2>1. Asked' /\ Others'
    BY <1>21 DEF vars, IInv, Asked, Others
  <2> QED
    BY <1>21, <2>1, QuietOK DEF vars
<1>22. ASSUME LauncherLeft PROVE OtherProgram \/ UNCHANGED <<Files, stale>>
  BY <1>22, Zenon DEF LauncherLeft
<1> QED
  BY <1>2, <1>3, <1>4, <1>5, <1>6, <1>7, <1>8, <1>9, <1>11, <1>12, <1>13, <1>14, <1>15, <1>16,
     <1>17, <1>18, <1>19, <1>20, <1>21, <1>22, StartsOK, SortChosenOK DEF Next

LEMMA Invariant == Spec => []IInv
  BY InitInvariant, NextInvariant, PTL DEF Spec

------------------------------------------------------------------------------
(* The viewer cuts a text into lines.  What has been read after every byte  *)
(* is a function of the number of bytes.                                    *)
Nothing == [lines |-> <<>>, open |-> <<>>]
Scans(at, t, m) == at = [n \in 0 .. m |-> IF n = 0 THEN Nothing ELSE Scan(at[n - 1], t[n])]

LEMMA IndexedSolved ==
    ASSUME NEW t, \E at : Scans(at, t, Len(t))
    PROVE  \E at : Scans(at, t, Len(t)) /\ Indexed(t) = at[Len(t)]
<1> DEFINE sol == CHOOSE at : Scans(at, t, Len(t))
<1>1. Scans(sol, t, Len(t))
  OBVIOUS
<1>2. Indexed(t) = sol[Len(t)]
  BY DEF Indexed, Scans, Nothing
<1> QED
  BY <1>1, <1>2

LEMMA ScanExists ==
    ASSUME NEW t, NEW m \in Nat
    PROVE  \E at : Scans(at, t, m)
<1> DEFINE Bad == {n \in Nat : ~ \E at : Scans(at, t, n)}
<1>1. 0 \notin Bad
  <2> DEFINE at == [n \in 0 .. 0 |-> Nothing]
  <2>1. Scans(at, t, 0)
    BY DEF Scans
  <2> QED
    BY <2>1
<1>2. ASSUME NEW n \in Nat, n + 1 \in Bad
      PROVE  n \in Bad
  <2> SUFFICES ASSUME NEW at, Scans(at, t, n)
               PROVE  FALSE
    BY <1>2
  <2> DEFINE bt == [k \in 0 .. n + 1 |-> IF k = n + 1 THEN Scan(at[n], t[n + 1]) ELSE at[k]]
  <2>1. ASSUME NEW k \in 0 .. n + 1
        PROVE  bt[k] = IF k = 0 THEN Nothing ELSE Scan(bt[k - 1], t[k])
    <3>1. CASE k = n + 1
      <4>1. bt[k] = Scan(at[n], t[n + 1]) /\ bt[n] = at[n] /\ k - 1 = n /\ k # 0
        BY <3>1
      <4> HIDE DEF bt
      <4> QED
        BY <3>1, <4>1
    <3>2. CASE k \in 1 .. n
      <4>1. bt[k] = at[k] /\ bt[k - 1] = at[k - 1] /\ k # 0
        BY <3>2
      <4>2. at[k] = Scan(at[k - 1], t[k])
        BY <3>2 DEF Scans
      <4> HIDE DEF bt
      <4> QED
        BY <4>1, <4>2
    <3>3. CASE k = 0
      <4>1. bt[0] = at[0] /\ at[0] = Nothing
        BY DEF Scans
      <4> HIDE DEF bt
      <4> QED
        BY <3>3, <4>1
    <3> QED
      BY <3>1, <3>2, <3>3
  <2>2. bt = [k \in 0 .. n + 1 |-> bt[k]]
    OBVIOUS
  <2> HIDE DEF bt
  <2>3. Scans(bt, t, n + 1)
    BY <2>1, <2>2 DEF Scans
  <2> QED
    BY <1>2, <2>3
<1>3. Bad \in SUBSET Nat
  OBVIOUS
<1>4. m \notin Bad => \E at : Scans(at, t, m)
  OBVIOUS
<1> HIDE DEF Bad
<1>5. CASE Bad # {}
  <2>1. PICK n \in Bad : \A k \in Bad : n <= k
    BY <1>3, <1>5, Smallest
  <2>2. n \in Nat /\ n # 0
    BY <1>1, <1>3, <2>1
  <2>3. n - 1 \in Nat /\ (n - 1) + 1 = n
    BY <2>2
  <2>4. n - 1 \in Bad
    BY <1>2, <2>1, <2>3
  <2> QED
    BY <2>1, <2>2, <2>4
<1> QED
  BY <1>4, <1>5

(* Where the lines of a text begin and end.                                 *)
Feeds(t) == {i \in DOMAIN t : t[i] = "\n"}
Upto(t, n) == {b \in {0} \cup Feeds(t) : b <= n}
Stop(t, i, j) == IF j \in Feeds(t) /\ j - 1 > i /\ t[j - 1] = "\r" THEN j - 2 ELSE j - 1

LEMMA Counted ==
    ASSUME NEW t \in Seq(STRING)
    PROVE  /\ Feeds(t) \subseteq 1 .. Len(t) /\ Len(t) \in Nat
           /\ \A n \in 0 .. Len(t) : IsFiniteSet(Upto(t, n)) /\ Cardinality(Upto(t, n)) \in Nat \ {0}
           /\ Cardinality(Upto(t, 0)) = 1
           /\ \A n \in 1 .. Len(t) : n \in Feeds(t) =>
                 Cardinality(Upto(t, n)) = Cardinality(Upto(t, n - 1)) + 1
           /\ \A i, n \in 0 .. Len(t) : i <= n =>
                 /\ Cardinality(Upto(t, i)) <= Cardinality(Upto(t, n))
                 /\ (Feeds(t) \cap (i + 1 .. n) = {} => Upto(t, i) = Upto(t, n))
                 /\ (Feeds(t) \cap (i + 1 .. n) # {} =>
                        Cardinality(Upto(t, i)) < Cardinality(Upto(t, n)))
<1>1. Feeds(t) \subseteq 1 .. Len(t) /\ Len(t) \in Nat
  BY LenProperties DEF Feeds
<1>2. ASSUME NEW n \in 0 .. Len(t)
      PROVE  /\ IsFiniteSet(Upto(t, n)) /\ Cardinality(Upto(t, n)) \in Nat \ {0}
             /\ 0 \in Upto(t, n) /\ Upto(t, n) \subseteq 0 .. n
  <2>1. Upto(t, n) \subseteq 0 .. n /\ 0 \in Upto(t, n)
    BY <1>1 DEF Upto
  <2>2. IsFiniteSet(0 .. n)
    BY <1>1, FS_Interval
  <2>3. IsFiniteSet(Upto(t, n))
    BY <2>1, <2>2, FS_Subset
  <2> QED
    BY <2>1, <2>3, FS_CardinalityType, FS_EmptySet
<1>3. Cardinality(Upto(t, 0)) = 1
  <2>1. Upto(t, 0) = {0}
    BY <1>1 DEF Upto
  <2> QED
    BY <2>1, FS_Singleton
<1>4. ASSUME NEW n \in 1 .. Len(t), n \in Feeds(t)
      PROVE  Cardinality(Upto(t, n)) = Cardinality(Upto(t, n - 1)) + 1
  <2>1. n - 1 \in 0 .. Len(t) /\ n \notin Upto(t, n - 1)
    BY <1>1 DEF Upto
  <2>2. Upto(t, n) = Upto(t, n - 1) \cup {n}
    BY <1>1, <1>4 DEF Upto
  <2>3. IsFiniteSet(Upto(t, n - 1))
    BY <1>2, <2>1
  <2> QED
    BY <2>1, <2>2, <2>3, FS_AddElement
<1>5. ASSUME NEW i \in 0 .. Len(t), NEW n \in 0 .. Len(t), i <= n
      PROVE  /\ Cardinality(Upto(t, i)) <= Cardinality(Upto(t, n))
             /\ (Feeds(t) \cap (i + 1 .. n) = {} => Upto(t, i) = Upto(t, n))
             /\ (Feeds(t) \cap (i + 1 .. n) # {} =>
                    Cardinality(Upto(t, i)) < Cardinality(Upto(t, n)))
  <2>1. Upto(t, i) \in SUBSET Upto(t, n)
    BY <1>1, <1>5 DEF Upto
  <2>2. /\ Cardinality(Upto(t, i)) <= Cardinality(Upto(t, n))
        /\ (Cardinality(Upto(t, i)) = Cardinality(Upto(t, n)) => Upto(t, i) = Upto(t, n))
    BY <1>2, <2>1, FS_Subset
  <2>3. ASSUME Feeds(t) \cap (i + 1 .. n) = {} PROVE Upto(t, i) = Upto(t, n)
    BY <1>1, <1>5, <2>1, <2>3 DEF Upto
  <2>4. ASSUME Feeds(t) \cap (i + 1 .. n) # {}
        PROVE  Cardinality(Upto(t, i)) < Cardinality(Upto(t, n))
    <3>1. PICK f \in Feeds(t) : f \in i + 1 .. n
      BY <2>4
    <3>2. f \in Upto(t, n) /\ f \notin Upto(t, i)
      BY <1>1, <3>1 DEF Upto
    <3> QED
      BY <1>2, <2>2, <3>2
  <2> QED
    BY <2>2, <2>3, <2>4
<1> QED
  BY <1>1, <1>2, <1>3, <1>4, <1>5

(* A line loses the carriage return before its line feed.                   *)
LEMMA BareLine ==
    ASSUME NEW t \in Seq(STRING), NEW p \in Nat, NEW n \in Nat, p <= n, n + 1 \in Feeds(t)
    PROVE  Bare(SubSeq(t, p + 1, n)) = SubSeq(t, p + 1, Stop(t, p, n + 1))
<1> DEFINE line == SubSeq(t, p + 1, n)
<1>1. n + 1 \in 1 .. Len(t) /\ Len(t) \in Nat /\ \A i \in 1 .. Len(t) : t[i] \in STRING
  BY LenProperties, ElementOfSeq DEF Feeds
<1>2. /\ line \in Seq(STRING) /\ Len(line) = n - p
      /\ \A i \in 1 .. n - p : line[i] = t[p + i]
  <2>1. p + 1 \in Int /\ n \in Int /\ \A i \in p + 1 .. n : t[i] \in STRING
    BY <1>1
  <2>2. /\ line \in Seq(STRING) /\ Len(line) = IF p + 1 <= n THEN n - (p + 1) + 1 ELSE 0
        /\ \A i \in 1 .. n - (p + 1) + 1 : line[i] = t[p + 1 + i - 1]
    BY <2>1, SubSeqProperties
  <2> HIDE DEF line
  <2> QED
    BY <2>2
<1> HIDE DEF line
<1>3. line # <<>> <=> p < n
  BY <1>2, EmptySeq
<1>4. CASE p < n /\ t[n] = "\r"
  <2>1. Last(line) = t[n]
    <3>1. n - p \in 1 .. n - p /\ p + (n - p) = n
      BY <1>4
    <3> QED
      BY <1>2, <3>1 DEF Last
  <2>2. Bare(line) = SubSeq(line, 1, n - p - 1)
    BY <1>2, <1>3, <1>4, <2>1 DEF Bare, Front
  <2>3. Stop(t, p, n + 1) = n - 1
    BY <1>4 DEF Stop
  <2>4. /\ SubSeq(line, 1, n - p - 1) \in Seq(STRING)
        /\ Len(SubSeq(line, 1, n - p - 1)) = n - p - 1
        /\ \A i \in 1 .. n - p - 1 : SubSeq(line, 1, n - p - 1)[i] = t[p + i]
    <3>1. 1 \in Int /\ n - p - 1 \in Int /\ \A i \in 1 .. n - p - 1 : line[i] \in STRING
      BY <1>2, ElementOfSeq
    <3>2. /\ SubSeq(line, 1, n - p - 1) \in Seq(STRING)
          /\ Len(SubSeq(line, 1, n - p - 1)) = IF 1 <= n - p - 1 THEN n - p - 1 - 1 + 1 ELSE 0
          /\ \A i \in 1 .. n - p - 1 - 1 + 1 : SubSeq(line, 1, n - p - 1)[i] = line[1 + i - 1]
      BY <3>1, SubSeqProperties
    <3>3. \A i \in 1 .. n - p - 1 : SubSeq(line, 1, n - p - 1)[i] = line[i] /\ line[i] = t[p + i]
      BY <1>2, <3>2
    <3> QED
      BY <1>4, <3>2, <3>3
  <2>5. /\ SubSeq(t, p + 1, n - 1) \in Seq(STRING)
        /\ Len(SubSeq(t, p + 1, n - 1)) = n - p - 1
        /\ \A i \in 1 .. n - p - 1 : SubSeq(t, p + 1, n - 1)[i] = t[p + i]
    <3>1. p + 1 \in Int /\ n - 1 \in Int /\ \A i \in p + 1 .. n - 1 : t[i] \in STRING
      BY <1>1
    <3>2. /\ SubSeq(t, p + 1, n - 1) \in Seq(STRING)
          /\ Len(SubSeq(t, p + 1, n - 1)) = IF p + 1 <= n - 1 THEN n - 1 - (p + 1) + 1 ELSE 0
          /\ \A i \in 1 .. n - 1 - (p + 1) + 1 : SubSeq(t, p + 1, n - 1)[i] = t[p + 1 + i - 1]
      BY <3>1, SubSeqProperties
    <3> QED
      BY <1>4, <3>2
  <2>6. SubSeq(line, 1, n - p - 1) = SubSeq(t, p + 1, n - 1)
    BY <2>4, <2>5, SeqEqual
  <2> QED
    BY <2>2, <2>3, <2>6 DEF line
<1>5. CASE ~ (p < n /\ t[n] = "\r")
  <2>1. Stop(t, p, n + 1) = n
    BY <1>5 DEF Stop
  <2>2. Bare(line) = line
    <3>1. CASE p < n
      <4>1. n - p \in 1 .. n - p /\ p + (n - p) = n
        BY <3>1
      <4>2. Last(line) = t[n]
        BY <1>2, <4>1 DEF Last
      <4> QED
        BY <1>5, <3>1, <4>2 DEF Bare
    <3>2. CASE ~ (p < n)
      BY <1>3, <3>2 DEF Bare
    <3> QED
      BY <3>1, <3>2
  <2> QED
    BY <2>1, <2>2 DEF line
<1> QED
  BY <1>4, <1>5


(* After n bytes: the lines that have ended are whole, and the open one     *)
(* holds all that stands behind them.                                       *)
Sofar(t, n, acc) ==
    /\ acc \in [lines : Seq(Seq(STRING)), open : Seq(STRING)]
    /\ Len(acc.lines) <= VWR_MAX_LINES /\ Len(acc.lines) < Cardinality(Upto(t, n))
    /\ Len(acc.lines) = VWR_MAX_LINES => acc.open = <<>>
    /\ Len(acc.lines) < VWR_MAX_LINES =>
          /\ Cardinality(Upto(t, n)) = Len(acc.lines) + 1
          /\ \E p \in Upto(t, n) : /\ Feeds(t) \cap (p + 1 .. n) = {}
                                   /\ acc.open = SubSeq(t, p + 1, n)
    /\ \A i \in {0} \cup Feeds(t), j \in Feeds(t) :
          i < j /\ j <= n /\ Feeds(t) \cap (i + 1 .. j - 1) = {}
          /\ Cardinality(Upto(t, i)) <= Len(acc.lines)
          => acc.lines[Cardinality(Upto(t, i))] = SubSeq(t, i + 1, Stop(t, i, j))

LEMMA BareType ==
    ASSUME NEW line \in Seq(STRING)
    PROVE  Bare(line) \in Seq(STRING)
<1>1. Len(line) \in Nat /\ \A i \in 1 .. Len(line) - 1 : line[i] \in STRING
  BY LenProperties, ElementOfSeq
<1>2. Front(line) \in Seq(STRING)
  <2>1. 1 \in Int /\ Len(line) - 1 \in Int
    BY <1>1
  <2> QED
    BY <1>1, <2>1, SubSeqProperties DEF Front
<1> QED
  BY <1>2 DEF Bare

LEMMA ScanStep ==
    ASSUME NEW t \in Seq(STRING), NEW n \in Nat, n + 1 <= Len(t), NEW acc, Sofar(t, n, acc)
    PROVE  Sofar(t, n + 1, Scan(acc, t[n + 1]))
<1> DEFINE F == Feeds(t)
           V == VWR_MAX_LINES
           c == Len(acc.lines)
           C(i) == Cardinality(Upto(t, i))
           new == Scan(acc, t[n + 1])
<1>1. /\ F \subseteq 1 .. Len(t) /\ Len(t) \in Nat
      /\ \A i \in 0 .. Len(t) : C(i) \in Nat \ {0}
      /\ \A k \in 1 .. Len(t) : k \in F => C(k) = C(k - 1) + 1
      /\ \A i, k \in 0 .. Len(t) : i <= k =>
            /\ C(i) <= C(k)
            /\ (F \cap (i + 1 .. k) = {} => Upto(t, i) = Upto(t, k))
            /\ (F \cap (i + 1 .. k) # {} => C(i) < C(k))
  BY Counted
<1>2. /\ acc.lines \in Seq(Seq(STRING)) /\ acc.open \in Seq(STRING)
      /\ acc = [lines |-> acc.lines, open |-> acc.open]
      /\ c \in Nat /\ c <= V /\ c < C(n) /\ V \in Nat
      /\ (c = V => acc.open = <<>>)
      /\ (c < V => C(n) = c + 1 /\ \E p \in Upto(t, n) : F \cap (p + 1 .. n) = {} /\ acc.open = SubSeq(t, p + 1, n))
      /\ \A i \in {0} \cup F, j \in F :
            i < j /\ j <= n /\ F \cap (i + 1 .. j - 1) = {} /\ C(i) <= c
            => acc.lines[C(i)] = SubSeq(t, i + 1, Stop(t, i, j))
  <2>1. acc.lines \in Seq(Seq(STRING)) /\ acc.open \in Seq(STRING)
        /\ acc = [lines |-> acc.lines, open |-> acc.open]
    BY DEF Sofar
  <2>2. c \in Nat /\ V \in Nat
    BY <2>1, LenProperties, ViewerAssumption DEF ViewerAssumption
  <2> QED
    BY <2>1, <2>2 DEF Sofar
<1>3. n + 1 \in 1 .. Len(t) /\ n \in 0 .. Len(t) /\ n + 1 \in 0 .. Len(t) /\ t[n + 1] \in STRING
      /\ (n + 1 \in F <=> t[n + 1] = "\n")
  BY <1>1, LenProperties, ElementOfSeq DEF Feeds
<1>4. \A i \in {0} \cup F : i \in 0 .. Len(t)
  BY <1>1
<1> HIDE DEF F, V, c, C, new
<1>5. ASSUME NEW i \in {0} \cup F, i < n + 1, F \cap (i + 1 .. n) = {}
      PROVE  C(i) = C(n)
  <2>1. i \in 0 .. Len(t) /\ i <= n
    BY <1>1, <1>4, <1>5
  <2>2. Upto(t, i) = Upto(t, n)
    BY <1>1, <1>3, <1>5, <2>1
  <2> QED
    BY <2>2 DEF C
<1>6. CASE c = V
  <2>1. new = acc
    BY <1>6 DEF new, Scan, c, V
  <2>2. c < C(n + 1)
    <3>1. C(n) <= C(n + 1) /\ C(n) \in Nat /\ C(n + 1) \in Nat
      BY <1>1, <1>3
    <3> QED
      BY <1>2, <3>1
  <2>3. ASSUME NEW i \in {0} \cup F, NEW j \in F, i < j, j <= n + 1, F \cap (i + 1 .. j - 1) = {}, C(i) <= c
        PROVE  acc.lines[C(i)] = SubSeq(t, i + 1, Stop(t, i, j))
    <3>1. CASE j <= n
      BY <1>2, <2>3, <3>1
    <3>2. CASE ~ (j <= n)
      <4>1. j = n + 1 /\ j - 1 = n
        BY <1>1, <2>3, <3>2
      <4>2. C(i) = C(n) /\ C(n) \in Nat
        BY <1>1, <1>3, <1>5, <2>3, <4>1
      <4> QED
        BY <1>2, <2>3, <4>2
    <3> QED
      BY <3>1, <3>2
  <2>4. Sofar(t, n + 1, acc)
    <3>1. ~ (c < V)
      BY <1>2, <1>6
    <3> QED
      BY <1>2, <1>6, <2>2, <2>3, <3>1 DEF Sofar, c, V, C, F
  <2> QED
    BY <2>1, <2>4 DEF new
<1>7. ASSUME c < V
      PROVE  Sofar(t, n + 1, new)
  <2>1. PICK p \in Upto(t, n) : F \cap (p + 1 .. n) = {} /\ acc.open = SubSeq(t, p + 1, n)
    BY <1>2, <1>7
  <2>2. p \in {0} \cup F /\ p \in 0 .. Len(t) /\ p <= n /\ p \in Nat
    BY <1>4 DEF Upto, F
  <2>3. C(p) = C(n) /\ C(n) = c + 1
    <3>1. p < n + 1
      BY <2>2
    <3> QED
      BY <1>2, <1>5, <1>7, <2>1, <2>2, <3>1
  <2>4. CASE t[n + 1] = "\n"
    <3> DEFINE line == Bare(acc.open)
    <3>1. new = [lines |-> Append(acc.lines, line), open |-> <<>>]
      BY <1>7, <2>4 DEF new, Scan, c, V
    <3>2. line = SubSeq(t, p + 1, Stop(t, p, n + 1)) /\ line \in Seq(STRING)
      <4>1. n + 1 \in Feeds(t)
        BY <1>3, <2>4 DEF F
      <4>2. Bare(SubSeq(t, p + 1, n)) = SubSeq(t, p + 1, Stop(t, p, n + 1))
        BY <2>2, <4>1, BareLine
      <4>3. Bare(acc.open) \in Seq(STRING)
        BY <1>2, BareType
      <4> QED
        BY <2>1, <4>2, <4>3
    <3> HIDE DEF line
    <3>3. /\ new.lines \in Seq(Seq(STRING)) /\ Len(new.lines) = c + 1 /\ new.open = <<>>
          /\ \A k \in 1 .. c : new.lines[k] = acc.lines[k]
          /\ new.lines[c + 1] = line
          /\ new \in [lines : Seq(Seq(STRING)), open : Seq(STRING)]
      <4>1. /\ Append(acc.lines, line) \in Seq(Seq(STRING)) /\ Len(Append(acc.lines, line)) = c + 1
            /\ \A k \in 1 .. c : Append(acc.lines, line)[k] = acc.lines[k]
            /\ Append(acc.lines, line)[c + 1] = line
        <5>1. ASSUME NEW S, acc.lines \in Seq(S), line \in S
              PROVE  /\ Append(acc.lines, line) \in Seq(S) /\ Len(Append(acc.lines, line)) = c + 1
                     /\ \A k \in 1 .. c : Append(acc.lines, line)[k] = acc.lines[k]
                     /\ Append(acc.lines, line)[c + 1] = line
          BY <5>1, AppendProperties DEF c
        <5> QED
          BY <1>2, <3>2, <5>1
      <4>2. <<>> \in Seq(STRING)
        BY EmptySeq
      <4> QED
        BY <3>1, <4>1, <4>2
    <3>4. C(n + 1) = c + 2
      <4>1. n + 1 \in F /\ (n + 1) - 1 = n
        BY <1>3, <2>4
      <4>2. C(n + 1) = C(n) + 1
        BY <1>1, <1>3, <4>1
      <4> QED
        BY <1>2, <2>3, <4>2
    <3>5. ASSUME NEW i \in {0} \cup F, NEW j \in F, i < j, j <= n + 1, F \cap (i + 1 .. j - 1) = {},
                 C(i) <= c + 1
          PROVE  new.lines[C(i)] = SubSeq(t, i + 1, Stop(t, i, j))
      <4>1. CASE j <= n
        <5>1. j \in F \cap (i + 1 .. n) /\ i <= n /\ i \in 0 .. Len(t)
          BY <1>1, <1>4, <3>5, <4>1
        <5>2. C(i) < C(n) /\ C(i) \in Nat \ {0}
          BY <1>1, <1>3, <5>1
        <5>3. C(i) <= c /\ C(i) \in 1 .. c
          BY <1>2, <2>3, <5>2
        <5>4. acc.lines[C(i)] = SubSeq(t, i + 1, Stop(t, i, j))
          BY <1>2, <3>5, <4>1, <5>3
        <5> QED
          BY <3>3, <5>3, <5>4
      <4>2. CASE ~ (j <= n)
        <5>1. j = n + 1 /\ j - 1 = n /\ i < n + 1
          BY <1>1, <3>5, <4>2
        <5>2. F \cap (i + 1 .. n) = {}
          BY <3>5, <5>1
        <5>3. C(i) = c + 1
          BY <1>5, <2>3, <5>1, <5>2
        <5>4. i = p
          BY <1>4, <2>1, <2>2, <5>1, <5>2
        <5> QED
          BY <3>2, <3>3, <5>1, <5>3, <5>4
      <4> QED
        BY <4>1, <4>2
    <3>6. \E q \in Upto(t, n + 1) : F \cap (q + 1 .. n + 1) = {} /\ <<>> = SubSeq(t, q + 1, n + 1)
      <4>1. n + 1 \in Upto(t, n + 1)
        BY <1>3, <2>4 DEF Upto, F
      <4>2. (n + 1) + 1 .. n + 1 = {} /\ SubSeq(t, (n + 1) + 1, n + 1) = <<>>
        BY SubSeqEmpty
      <4> QED
        BY <4>1, <4>2
    <3>7. c + 1 \in Nat /\ c + 1 <= V /\ c + 1 < C(n + 1) /\ C(n + 1) = (c + 1) + 1
      BY <1>2, <1>7, <3>4
    <3> HIDE DEF new
    <3> QED
      BY <3>3, <3>5, <3>6, <3>7 DEF Sofar, V, C, F
  <2>5. CASE t[n + 1] # "\n"
    <3>1. new = [lines |-> acc.lines, open |-> Append(acc.open, t[n + 1])]
      <4>1. new = [acc EXCEPT !.open = Append(@, t[n + 1])]
        BY <1>7, <2>5 DEF new, Scan, c, V
      <4> QED
        BY <1>2, <4>1
    <3>2. Append(acc.open, t[n + 1]) = SubSeq(t, p + 1, n + 1) /\ Append(acc.open, t[n + 1]) \in Seq(STRING)
      <4>1. \A i \in p + 1 .. n + 1 : t[i] \in STRING
        BY <1>3, <2>2, LenProperties, ElementOfSeq
      <4>2. /\ SubSeq(t, p + 1, n) \in Seq(STRING) /\ Len(SubSeq(t, p + 1, n)) = n - p
            /\ \A i \in 1 .. n - p : SubSeq(t, p + 1, n)[i] = t[p + i]
        <5>1. p + 1 \in Int /\ n \in Int /\ \A i \in p + 1 .. n : t[i] \in STRING
          BY <2>2, <4>1
        <5>2. /\ SubSeq(t, p + 1, n) \in Seq(STRING)
              /\ Len(SubSeq(t, p + 1, n)) = IF p + 1 <= n THEN n - (p + 1) + 1 ELSE 0
              /\ \A i \in 1 .. n - (p + 1) + 1 : SubSeq(t, p + 1, n)[i] = t[p + 1 + i - 1]
          BY <5>1, SubSeqProperties
        <5> QED
          BY <2>2, <5>2
      <4>3. /\ SubSeq(t, p + 1, n + 1) \in Seq(STRING) /\ Len(SubSeq(t, p + 1, n + 1)) = n + 1 - p
            /\ \A i \in 1 .. n + 1 - p : SubSeq(t, p + 1, n + 1)[i] = t[p + i]
        <5>1. p + 1 \in Int /\ n + 1 \in Int
          BY <2>2
        <5>2. /\ SubSeq(t, p + 1, n + 1) \in Seq(STRING)
              /\ Len(SubSeq(t, p + 1, n + 1)) = IF p + 1 <= n + 1 THEN n + 1 - (p + 1) + 1 ELSE 0
              /\ \A i \in 1 .. n + 1 - (p + 1) + 1 : SubSeq(t, p + 1, n + 1)[i] = t[p + 1 + i - 1]
          BY <4>1, <5>1, SubSeqProperties
        <5> QED
          BY <2>2, <5>2
      <4>4. /\ Append(acc.open, t[n + 1]) \in Seq(STRING)
            /\ Len(Append(acc.open, t[n + 1])) = n - p + 1
            /\ \A i \in 1 .. n - p : Append(acc.open, t[n + 1])[i] = t[p + i]
            /\ Append(acc.open, t[n + 1])[n - p + 1] = t[n + 1]
        BY <1>2, <1>3, <2>1, <4>2, AppendProperties
      <4>5. \A i \in 1 .. n - p + 1 : Append(acc.open, t[n + 1])[i] = t[p + i]
        <5> TAKE i \in 1 .. n - p + 1
        <5>1. CASE i \in 1 .. n - p
          BY <4>4, <5>1
        <5>2. CASE i = n - p + 1
          <6>1. p + i = n + 1
            BY <2>2, <5>2
          <6> QED
            BY <4>4, <5>2, <6>1
        <5>3. i \in 1 .. n - p \/ i = n - p + 1
          BY <2>2
        <5> QED
          BY <5>1, <5>2, <5>3
      <4>6. n - p + 1 = n + 1 - p
        BY <2>2
      <4> QED
        BY <4>3, <4>4, <4>5, <4>6, SeqEqual
    <3>3. n + 1 \notin F
      BY <1>3, <2>5
    <3>4. F \cap (n + 1 .. n + 1) = {} /\ F \cap (p + 1 .. n + 1) = {}
      BY <2>1, <2>2, <3>3
    <3>5. Upto(t, n + 1) = Upto(t, n) /\ C(n + 1) = C(n)
      BY <1>1, <1>3, <3>4 DEF C
    <3>6. ASSUME NEW i \in {0} \cup F, NEW j \in F, i < j, j <= n + 1, F \cap (i + 1 .. j - 1) = {},
                 C(i) <= c
          PROVE  acc.lines[C(i)] = SubSeq(t, i + 1, Stop(t, i, j))
      <4>1. j <= n
        BY <1>1, <3>3, <3>6
      <4> QED
        BY <1>2, <3>6, <4>1
    <3>7. /\ new.lines = acc.lines /\ new.open = SubSeq(t, p + 1, n + 1)
          /\ new \in [lines : Seq(Seq(STRING)), open : Seq(STRING)]
      BY <1>2, <3>1, <3>2
    <3>8. c # V
      BY <1>2, <1>7
    <3> QED
      BY <1>2, <1>7, <2>1, <2>3, <3>4, <3>5, <3>6, <3>7, <3>8 DEF Sofar, V, C, F, c
  <2> QED
    BY <2>4, <2>5
<1>8. c = V \/ c < V
  BY <1>2
<1> QED
  BY <1>6, <1>7, <1>8 DEF new


LEMMA ReadToTheEnd ==
    ASSUME NEW t \in Seq(STRING)
    PROVE  Sofar(t, Len(t), Indexed(t))
<1>1. Len(t) \in Nat
  BY LenProperties
<1>2. PICK at : Scans(at, t, Len(t)) /\ Indexed(t) = at[Len(t)]
  BY <1>1, ScanExists, IndexedSolved
<1> DEFINE Bad == {n \in Nat : n <= Len(t) /\ ~ Sofar(t, n, at[n])}
<1>3. at[0] = Nothing /\ \A n \in 1 .. Len(t) : at[n] = Scan(at[n - 1], t[n])
  BY <1>1, <1>2 DEF Scans
<1>4. 0 \notin Bad
  <2>1. Nothing \in [lines : Seq(Seq(STRING)), open : Seq(STRING)] /\ Nothing.open = <<>>
        /\ Len(Nothing.lines) = 0
    <3>1. <<>> \in Seq(Seq(STRING)) /\ <<>> \in Seq(STRING) /\ Len(<<>>) = 0
      BY EmptySeq
    <3> QED
      BY <3>1 DEF Nothing
  <2>2. /\ Feeds(t) \subseteq 1 .. Len(t) /\ Cardinality(Upto(t, 0)) = 1
        /\ \A i \in 0 .. Len(t) : Cardinality(Upto(t, i)) \in Nat \ {0}
    BY Counted
  <2>3. 0 \in Upto(t, 0) /\ Feeds(t) \cap (0 + 1 .. 0) = {} /\ SubSeq(t, 0 + 1, 0) = <<>>
    <3>1. 0 + 1 .. 0 = {} /\ 0 \in Upto(t, 0)
      BY DEF Upto
    <3>2. SubSeq(t, 0 + 1, 0) = <<>>
      BY SubSeqEmpty
    <3> QED
      BY <3>1, <3>2
  <2>4. \A j \in Feeds(t) : ~ (j <= 0)
    BY <1>1, <2>2
  <2>5. VWR_MAX_LINES \in Nat \ {0}
    BY ViewerAssumption DEF ViewerAssumption
  <2>6. Sofar(t, 0, Nothing)
    BY <2>1, <2>2, <2>3, <2>4, <2>5 DEF Sofar
  <2> QED
    BY <1>3, <2>6
<1>5. ASSUME NEW n \in Nat, n + 1 \in Bad PROVE n \in Bad
  <2>1. n + 1 <= Len(t) /\ n + 1 \in 1 .. Len(t) /\ (n + 1) - 1 = n /\ ~ Sofar(t, n + 1, at[n + 1])
    BY <1>1, <1>5
  <2>2. at[n + 1] = Scan(at[n], t[n + 1])
    BY <1>3, <2>1
  <2>3. ~ Sofar(t, n, at[n])
    BY <2>1, <2>2, ScanStep
  <2> QED
    BY <1>1, <2>1, <2>3
<1>6. Bad \in SUBSET Nat
  OBVIOUS
<1>7. Len(t) \notin Bad => Sofar(t, Len(t), at[Len(t)])
  BY <1>1
<1> HIDE DEF Bad
<1>8. CASE Bad # {}
  <2>1. PICK n \in Bad : \A k \in Bad : n <= k
    BY <1>6, <1>8, Smallest
  <2>2. n \in Nat /\ n # 0
    BY <1>4, <1>6, <2>1
  <2>3. n - 1 \in Nat /\ (n - 1) + 1 = n
    BY <2>2
  <2>4. n - 1 \in Bad
    BY <1>5, <2>1, <2>3
  <2> QED
    BY <2>1, <2>2, <2>4
<1> QED
  BY <1>2, <1>7, <1>8

(* What ViewerShowsAll says of a text and the lines that are shown of it.   *)
Begins(t) == {0} \cup {i \in Feeds(t) : i < Len(t)}
Number(t, i) == Cardinality({b \in Begins(t) : b <= i})
ShowsAll(t, lines) ==
    /\ \/ Len(lines) = Cardinality(Begins(t))
       \/ Len(lines) = VWR_MAX_LINES /\ VWR_MAX_LINES < Cardinality(Begins(t))
    /\ \A i \in Begins(t), j \in Feeds(t) \cup {Len(t) + 1} :
          i < j /\ Feeds(t) \cap (i + 1 .. j - 1) = {} /\ Number(t, i) <= Len(lines)
          => lines[Number(t, i)] = SubSeq(t, i + 1, Stop(t, i, j))

LEMMA LoadShowsAll ==
    ASSUME NEW t \in Seq(STRING)
    PROVE  ShowsAll(t, vwr_load_text(t)) /\ vwr_load_text(t) \in Seq(Seq(STRING))
<1> DEFINE F == Feeds(t)
           V == VWR_MAX_LINES
           L == Len(t)
           all == Indexed(t)
           c == Len(all.lines)
           C(i) == Cardinality(Upto(t, i))
           B == Begins(t)
           lines == vwr_load_text(t)
<1>0. F \subseteq 1 .. L /\ L \in Nat
  BY Counted
<1>1. /\ F \subseteq 1 .. L /\ L \in Nat
      /\ \A i \in 0 .. L : C(i) \in Nat \ {0} /\ IsFiniteSet(Upto(t, i))
      /\ \A k \in 1 .. L : k \in F => C(k) = C(k - 1) + 1
      /\ \A i, k \in 0 .. L : i <= k =>
            /\ C(i) <= C(k)
            /\ (F \cap (i + 1 .. k) = {} => Upto(t, i) = Upto(t, k))
            /\ (F \cap (i + 1 .. k) # {} => C(i) < C(k))
  BY Counted
<1>2. /\ all.lines \in Seq(Seq(STRING)) /\ all.open \in Seq(STRING)
      /\ c \in Nat /\ c <= V /\ c < C(L) /\ V \in Nat \ {0}
      /\ (c = V => all.open = <<>>)
      /\ (c < V => C(L) = c + 1 /\ \E p \in Upto(t, L) : F \cap (p + 1 .. L) = {} /\ all.open = SubSeq(t, p + 1, L))
      /\ \A i \in {0} \cup F, j \in F :
            i < j /\ j <= L /\ F \cap (i + 1 .. j - 1) = {} /\ C(i) <= c
            => all.lines[C(i)] = SubSeq(t, i + 1, Stop(t, i, j))
  <2>1. Sofar(t, L, all)
    BY ReadToTheEnd
  <2> HIDE DEF all, L
  <2>2. all.lines \in Seq(Seq(STRING)) /\ all.open \in Seq(STRING)
    BY <2>1 DEF Sofar
  <2>3. c \in Nat /\ V \in Nat \ {0}
    BY <2>2, LenProperties, ViewerAssumption DEF ViewerAssumption
  <2> QED
    BY <2>1, <2>2, <2>3 DEF Sofar
<1> HIDE DEF all, L, F, V, C
<1>3. lines = IF all.open # <<>> /\ c < V THEN Append(all.lines, all.open)
              ELSE IF all.lines = <<>> THEN << <<>> >> ELSE all.lines
  <2>1. ASSUME all.open # <<>> /\ c < V
        PROVE  Append(all.lines, all.open) # <<>>
    BY <1>2, AppendProperties
  <2> QED
    BY <2>1 DEF vwr_load_text, all, V
<1>4. /\ B = {0} \cup {i \in F : i < L} /\ B \subseteq {0} \cup F
      /\ \A i \in B : i \in 0 .. L /\ {b \in B : b <= i} = Upto(t, i)
      /\ \A i \in B : Number(t, i) = C(i)
  <2>1. B = {0} \cup {i \in F : i < L}
    BY DEF Begins, F, L
  <2> HIDE DEF B
  <2>2. ASSUME NEW i \in B PROVE i \in 0 .. L /\ {b \in B : b <= i} = Upto(t, i)
    <3>1. i \in 0 .. L
      <4>1. i = 0 \/ i \in F
        BY <2>1
      <4>2. 0 \in 0 .. L /\ \A k \in 1 .. L : k \in 0 .. L
        BY <1>0
      <4> QED
        BY <1>0, <4>1, <4>2, Zenon
    <3>2. ASSUME NEW b PROVE b \in B /\ b <= i <=> b \in Upto(t, i)
      BY <1>1, <2>1, <3>1, <3>2 DEF Upto, F
    <3> QED
      BY <3>1, <3>2
  <2>3. \A i \in B : Number(t, i) = C(i)
    BY <2>2 DEF Number, C, B
  <2> QED
    BY <2>1, <2>2, <2>3
<1> HIDE DEF c, B, lines
<1>5. 0 \in 0 .. L /\ L \in 0 .. L
  BY <1>1
<1>6. \A i \in B : i < L + 1 /\ F \cap (i + 1 .. (L + 1) - 1) = {} => C(i) = C(L)
  <2> SUFFICES ASSUME NEW i \in B, i < L + 1, F \cap (i + 1 .. (L + 1) - 1) = {}
               PROVE  C(i) = C(L)
    OBVIOUS
  <2>1. i \in 0 .. L /\ i <= L /\ (L + 1) - 1 = L
    BY <1>1, <1>4
  <2>2. Upto(t, i) = Upto(t, L)
    BY <1>1, <1>5, <2>1
  <2> QED
    BY <2>2 DEF C
<1>7. CASE all.open # <<>> /\ c < V
  <2>1. /\ lines \in Seq(Seq(STRING)) /\ Len(lines) = c + 1
        /\ \A k \in 1 .. c : lines[k] = all.lines[k]
        /\ lines[c + 1] = all.open
    <3>1. lines = Append(all.lines, all.open)
      BY <1>3, <1>7
    <3>2. ASSUME NEW S, all.lines \in Seq(S), all.open \in S
          PROVE  /\ lines \in Seq(S) /\ Len(lines) = c + 1
                 /\ \A k \in 1 .. c : lines[k] = all.lines[k]
                 /\ lines[c + 1] = all.open
      BY <3>1, <3>2, AppendProperties DEF c
    <3> QED
      BY <1>2, <3>2
  <2>2. PICK p \in Upto(t, L) : F \cap (p + 1 .. L) = {} /\ all.open = SubSeq(t, p + 1, L)
    BY <1>2, <1>7
  <2>3. p \in {0} \cup F /\ p \in 0 .. L
    BY <1>1, <2>2 DEF Upto, F
  <2>4. p < L
    <3> SUFFICES ASSUME p = L PROVE FALSE
      BY <1>1, <2>3
    <3>1. SubSeq(t, p + 1, L) = <<>>
      BY <1>1, SubSeqEmpty
    <3> QED
      BY <1>7, <2>2, <3>1
  <2>5. B = Upto(t, L) /\ Cardinality(B) = c + 1
    <3>1. \A b \in F : b < L
      BY <1>1, <2>2, <2>3, <2>4
    <3>2. B = Upto(t, L)
      BY <1>1, <1>4, <3>1 DEF Upto, F
    <3> QED
      BY <1>2, <1>7, <3>2 DEF C
  <2>6. ASSUME NEW i \in B, NEW j \in F \cup {L + 1}, i < j, F \cap (i + 1 .. j - 1) = {}
        PROVE  lines[C(i)] = SubSeq(t, i + 1, Stop(t, i, j))
    <3>1. i \in {0} \cup F /\ i \in 0 .. L
      BY <1>4
    <3>2. CASE j \in F
      <4>1. j \in F \cap (i + 1 .. L) /\ j <= L
        BY <1>1, <2>6, <3>1, <3>2
      <4>2. C(i) < C(L) /\ C(i) \in Nat \ {0}
        BY <1>1, <1>5, <3>1, <4>1
      <4>3. C(i) \in 1 .. c
        BY <1>2, <1>7, <4>2
      <4>4. all.lines[C(i)] = SubSeq(t, i + 1, Stop(t, i, j))
        BY <1>2, <2>6, <3>1, <3>2, <4>1, <4>3
      <4> QED
        BY <2>1, <4>3, <4>4
    <3>3. CASE j = L + 1
      <4>1. C(i) = c + 1
        BY <1>2, <1>6, <1>7, <2>6, <3>3
      <4>2. i = p
        BY <1>1, <2>2, <2>3, <2>6, <3>1, <3>3
      <4>3. Stop(t, i, j) = L
        <5>1. j \notin Feeds(t)
          BY <1>1, <3>3 DEF F
        <5> QED
          BY <1>1, <3>3, <5>1 DEF Stop
      <4> QED
        BY <2>1, <2>2, <4>1, <4>2, <4>3
    <3> QED
      BY <3>2, <3>3
  <2>7. Len(lines) = Cardinality(B)
    BY <2>1, <2>5
  <2> QED
    BY <1>4, <2>1, <2>6, <2>7 DEF ShowsAll, lines, B, F, L
<1>8. CASE all.open = <<>> /\ c < V
  <2>1. PICK p \in Upto(t, L) : F \cap (p + 1 .. L) = {} /\ all.open = SubSeq(t, p + 1, L)
    BY <1>2, <1>8
  <2>2. p \in {0} \cup F /\ p \in 0 .. L /\ p \in Nat
    BY <1>1, <2>1 DEF Upto, F
  <2>3. p = L
    <3>1. ASSUME p < L PROVE FALSE
      <4>1. \A i \in p + 1 .. L : t[i] \in STRING
        BY <2>2, LenProperties, ElementOfSeq DEF L
      <4>2. p + 1 \in Int /\ L \in Int /\ p + 1 <= L
        BY <1>1, <2>2, <3>1
      <4>3. Len(SubSeq(t, p + 1, L)) = L - (p + 1) + 1
        BY <4>1, <4>2, SubSeqProperties
      <4>4. Len(<<>>) = 0
        BY EmptySeq
      <4>5. L - (p + 1) + 1 = 0
        BY <1>8, <2>1, <4>3, <4>4
      <4> QED
        BY <1>1, <2>2, <3>1, <4>5
    <3>2. p \in Nat /\ L \in Nat /\ p <= L
      BY <1>0, <2>2
    <3> QED
      BY <3>1, <3>2
  <2>4. CASE L = 0
    <3>1. F = {} /\ B = {0}
      <4>1. 1 .. L = {}
        BY <2>4
      <4> QED
        BY <1>0, <1>4, <4>1, Zenon
    <3>2. Cardinality(B) = 1
      BY <3>1, FS_Singleton
    <3>3. C(L) = 1 /\ c = 0
      <4>1. Upto(t, L) = {0}
        BY <2>4, <3>1 DEF Upto, F
      <4>2. C(L) = 1
        BY <4>1, FS_Singleton DEF C
      <4> QED
        BY <1>2, <1>8, <4>2
    <3>4. lines = << <<>> >>
      <4>1. all.lines = <<>>
        BY <1>2, <3>3, EmptySeq DEF c
      <4> QED
        BY <1>3, <1>8, <4>1
    <3>5. << <<>> >> \in Seq(Seq(STRING)) /\ Len(<< <<>> >>) = 1 /\ << <<>> >>[1] = <<>>
      <4>1. <<>> \in Seq(STRING)
        BY EmptySeq
      <4> QED
        BY <4>1
    <3>6. ASSUME NEW i \in B, NEW j \in F \cup {L + 1}
          PROVE  lines[Number(t, i)] = SubSeq(t, i + 1, Stop(t, i, j))
      <4>1. i = 0 /\ j = 1 /\ Number(t, i) = 1
        <5>1. i = 0 /\ j = 1
          BY <2>4, <3>1
        <5>2. {b \in B : b <= i} = {0}
          BY <3>1, <5>1
        <5>3. Number(t, i) = 1
          BY <5>2, FS_Singleton DEF Number, B
        <5> QED
          BY <5>1, <5>3
      <4>2. Stop(t, i, j) = 0
        <5>1. j \notin Feeds(t)
          BY <3>1 DEF F
        <5> QED
          BY <4>1, <5>1 DEF Stop
      <4>3. SubSeq(t, 1, 0) = <<>>
        BY SubSeqEmpty
      <4>4. SubSeq(t, i + 1, Stop(t, i, j)) = SubSeq(t, 1, 0)
        BY <4>1, <4>2
      <4> QED
        BY <3>4, <3>5, <4>1, <4>3, <4>4
    <3>7. Len(lines) = Cardinality(B)
      BY <3>2, <3>4, <3>5
    <3> QED
      BY <3>4, <3>5, <3>6, <3>7 DEF ShowsAll, lines, B, F, L
  <2>5. CASE L # 0
    <3>1. L \in F
      BY <2>2, <2>3, <2>5
    <3>2. Cardinality(B) = c
      <4>1. B = Upto(t, L) \ {L} /\ L \in Upto(t, L)
        BY <1>1, <1>4, <2>5, <3>1 DEF Upto, F
      <4>2. Cardinality(B) = C(L) - 1
        BY <1>1, <1>5, <4>1, FS_RemoveElement DEF C
      <4> QED
        BY <1>2, <1>8, <4>2
    <3>3. c # 0
      <4>1. 0 \in B /\ IsFiniteSet(B)
        <5>1. B \in SUBSET Upto(t, L)
          BY <1>1, <1>4 DEF Upto, F
        <5> QED
          BY <1>1, <1>4, <1>5, <5>1, FS_Subset
      <4> QED
        BY <3>2, <4>1, FS_EmptySet
    <3>4. lines = all.lines
      <4>1. all.lines # <<>>
        BY <3>3, EmptySeq DEF c
      <4> QED
        BY <1>3, <1>8, <4>1
    <3>5. ASSUME NEW i \in B, NEW j \in F \cup {L + 1}, i < j, F \cap (i + 1 .. j - 1) = {}, C(i) <= c
          PROVE  lines[C(i)] = SubSeq(t, i + 1, Stop(t, i, j))
      <4>1. j \in F /\ j <= L
        <5>1. i < L /\ i \in 0 .. L
          BY <1>1, <1>4, <2>5
        <5>2. j # L + 1
          BY <1>1, <3>1, <3>5, <5>1
        <5> QED
          BY <1>1, <5>2
      <4> QED
        BY <1>2, <1>4, <3>4, <3>5, <4>1
    <3>6. Len(lines) = Cardinality(B) /\ Len(lines) = c
      BY <3>2, <3>4 DEF c
    <3> QED
      BY <1>2, <1>4, <3>4, <3>5, <3>6 DEF ShowsAll, lines, B, F, L
  <2> QED
    BY <2>4, <2>5
<1>9. CASE c = V
  <2>1. lines = all.lines
    <3>1. all.lines # <<>>
      BY <1>2, <1>9, EmptySeq DEF c
    <3> QED
      BY <1>2, <1>3, <1>9, <3>1
  <2>2. Cardinality(B) >= c /\ Cardinality(B) \in Nat /\ (Cardinality(B) = c => L \in Upto(t, L))
    <3>1. B \in SUBSET Upto(t, L) /\ Upto(t, L) \subseteq B \cup {L}
      BY <1>1, <1>4 DEF Upto, F
    <3>2. IsFiniteSet(B) /\ IsFiniteSet(Upto(t, L)) /\ Cardinality(B) \in Nat
      BY <1>1, <1>5, <3>1, FS_Subset, FS_CardinalityType
    <3>3. CASE L \in Upto(t, L)
      <4>1. Cardinality(Upto(t, L) \ {L}) = C(L) - 1 /\ Upto(t, L) \ {L} \in SUBSET B
        BY <3>1, <3>2, <3>3, FS_RemoveElement DEF C
      <4>2. Cardinality(Upto(t, L) \ {L}) <= Cardinality(B)
        BY <3>2, <4>1, FS_Subset
      <4>3. C(L) \in Nat
        BY <1>1, <1>5
      <4> QED
        BY <1>2, <3>2, <3>3, <4>1, <4>2, <4>3
    <3>4. CASE L \notin Upto(t, L)
      <4>1. B = Upto(t, L)
        BY <3>1, <3>4
      <4>2. C(L) \in Nat /\ Cardinality(B) = C(L)
        BY <1>1, <1>5, <4>1 DEF C
      <4> QED
        BY <1>2, <4>2
    <3> QED
      BY <3>3, <3>4
  <2>3. ASSUME NEW i \in B, NEW j \in F \cup {L + 1}, i < j, F \cap (i + 1 .. j - 1) = {}, C(i) <= c
        PROVE  lines[C(i)] = SubSeq(t, i + 1, Stop(t, i, j))
    <3>1. j # L + 1
      <4> SUFFICES ASSUME j = L + 1 PROVE FALSE
        OBVIOUS
      <4>1. C(i) = C(L) /\ C(L) \in Nat
        BY <1>1, <1>5, <1>6, <2>3
      <4> QED
        BY <1>2, <2>3, <4>1
    <3>2. j \in F /\ j <= L
      BY <1>1, <3>1
    <3> QED
      BY <1>2, <1>4, <2>1, <2>3, <3>2
  <2>4. Len(lines) = c
    BY <2>1 DEF c
  <2>5. Len(lines) = Cardinality(B) \/ (Len(lines) = V /\ V < Cardinality(B))
    BY <1>2, <1>9, <2>2, <2>4
  <2> QED
    BY <1>2, <1>4, <2>1, <2>3, <2>4, <2>5 DEF ShowsAll, lines, B, F, L, V
<1>10. all.open = <<>> \/ all.open # <<>>
  OBVIOUS
<1>11. c = V \/ c < V
  BY <1>2
<1> QED
  BY <1>7, <1>8, <1>9, <1>10, <1>11 DEF lines

------------------------------------------------------------------------------
(* The viewer is on one of its pages.                                       *)
Views == [text : Seq(STRING), lines : Seq(Seq(STRING)), top : Nat, hex : BOOLEAN]
OnPage(v) == v \in Views /\ v.lines = vwr_load_text(v.text) /\ v.top <= MaxTop(v)

LEMMA Rounded ==
    ASSUME NEW a \in Nat, NEW b \in Nat \ {0}
    PROVE  a \div b \in Nat
  OBVIOUS

LEMMA MaxTopType ==
    ASSUME NEW v \in Views
    PROVE  MaxTop(v) \in Nat
<1>1. VWIN_H \in Nat /\ HEX_ROW \in Nat \ {0}
  BY ViewerAssumption DEF ViewerAssumption
<1>2. Len(v.text) \in Nat /\ Len(v.lines) \in Nat
  BY LenProperties DEF Views
<1>3. Len(v.text) + HEX_ROW - 1 \in Nat
  BY <1>1, <1>2
<1>4. (Len(v.text) + HEX_ROW - 1) \div HEX_ROW \in Nat
  BY <1>1, <1>3, Rounded
<1>5. Total(v) \in Nat
  BY <1>2, <1>4 DEF Total
<1> QED
  BY <1>1, <1>5 DEF MaxTop, NotBelow0

LEMMA AtMostType ==
    ASSUME NEW T, NEW s \in Seq(T), NEW n \in Nat
    PROVE  AtMost(n, s) \in Seq(T)
<1>1. Len(s) \in Nat /\ \A i \in 1 .. Len(s) : s[i] \in T
  BY LenProperties, ElementOfSeq
<1> DEFINE m == IF Len(s) < n THEN Len(s) ELSE n
<1>2. 1 \in Int /\ m \in Int /\ \A i \in 1 .. m : s[i] \in T
  BY <1>1
<1>3. SubSeq(s, 1, m) \in Seq(T)
  <2> HIDE DEF m
  <2> QED
    BY <1>2, SubSeqProperties
<1> QED
  BY <1>3 DEF AtMost

LEMMA OpenOnPage ==
    ASSUME NEW text \in Seq(STRING)
    PROVE  OnPage(nos_viewer_open(text))
<1> DEFINE v == nos_viewer_open(text)
           kept == AtMost(VWR_BUF, text)
<1>1. kept \in Seq(STRING)
  BY AtMostType, ViewerAssumption DEF ViewerAssumption
<1>2. vwr_load_text(kept) \in Seq(Seq(STRING))
  BY <1>1, LoadShowsAll
<1>3. v = [text |-> kept, lines |-> vwr_load_text(kept), top |-> 0, hex |-> FALSE]
  BY DEF nos_viewer_open
<1> HIDE DEF kept, v
<1>4. v \in Views /\ v.lines = vwr_load_text(v.text) /\ v.top = 0
  BY <1>1, <1>2, <1>3 DEF Views
<1>5. MaxTop(v) \in Nat
  BY <1>4, MaxTopType
<1> QED
  BY <1>4, <1>5 DEF OnPage, v

LEMMA KeyOnPage ==
    ASSUME NEW v, OnPage(v), NEW key \in {"F4", "Up", "Down", "PgUp", "PgDn", "Home", "End"}
    PROVE  OnPage(ViewerKey(v, key))
<1>1. v \in Views /\ v.lines = vwr_load_text(v.text) /\ v.top <= MaxTop(v) /\ v.top \in Nat
  BY DEF OnPage, Views
<1>2. MaxTop(v) \in Nat /\ VWIN_H \in Nat
  BY <1>1, MaxTopType, ViewerAssumption DEF ViewerAssumption
<1>3. ASSUME NEW top \in Nat, top <= MaxTop(v)
      PROVE  OnPage([v EXCEPT !.top = top])
  <2> DEFINE w == [v EXCEPT !.top = top]
  <2>1. /\ w \in Views /\ w.text = v.text /\ w.lines = v.lines /\ w.hex = v.hex /\ w.top = top
    BY <1>1 DEF Views
  <2> HIDE DEF w
  <2>2. MaxTop(w) = MaxTop(v)
    BY <2>1 DEF MaxTop, Total
  <2>3. OnPage(w)
    BY <1>1, <1>3, <2>1, <2>2 DEF OnPage
  <2> QED
    BY <2>3 DEF w
<1>4. CASE key = "F4"
  <2> DEFINE w == HexMode(v)
  <2>1. /\ w \in Views /\ w.text = v.text /\ w.lines = v.lines /\ w.top = 0
    BY <1>1 DEF Views, HexMode
  <2>2. ViewerKey(v, key) = w
    BY <1>4 DEF ViewerKey
  <2> HIDE DEF w
  <2>3. MaxTop(w) \in Nat
    BY <2>1, MaxTopType
  <2> QED
    BY <1>1, <2>1, <2>2, <2>3 DEF OnPage
<1>5. CASE key # "F4"
  <2>1. \E top \in Nat : top <= MaxTop(v) /\ ViewerKey(v, key) = [v EXCEPT !.top = top]
    <3> DEFINE up == NotBelow0(v.top - 1)
               down == IF v.top < MaxTop(v) THEN v.top + 1 ELSE v.top
               pgup == NotBelow0(v.top - VWIN_H)
               pgdn == IF v.top + VWIN_H > MaxTop(v) THEN MaxTop(v) ELSE v.top + VWIN_H
    <3>1. /\ up \in Nat /\ up <= MaxTop(v) /\ down \in Nat /\ down <= MaxTop(v)
          /\ pgup \in Nat /\ pgup <= MaxTop(v) /\ pgdn \in Nat /\ pgdn <= MaxTop(v)
      BY <1>1, <1>2 DEF NotBelow0
    <3>2. \/ ViewerKey(v, key) = [v EXCEPT !.top = up]
          \/ ViewerKey(v, key) = [v EXCEPT !.top = down]
          \/ ViewerKey(v, key) = [v EXCEPT !.top = pgup]
          \/ ViewerKey(v, key) = [v EXCEPT !.top = pgdn]
          \/ ViewerKey(v, key) = [v EXCEPT !.top = 0]
          \/ ViewerKey(v, key) = [v EXCEPT !.top = MaxTop(v)]
      <4>1. CASE key = "Up"
        BY <4>1 DEF ViewerKey
      <4>2. CASE key = "Down"
        BY <4>2 DEF ViewerKey
      <4>3. CASE key = "PgUp"
        BY <4>3 DEF ViewerKey
      <4>4. CASE key = "PgDn"
        BY <4>4 DEF ViewerKey
      <4>5. CASE key = "Home"
        BY <4>5 DEF ViewerKey
      <4>6. CASE key = "End"
        BY <4>6 DEF ViewerKey
      <4> QED
        BY <1>5, <4>1, <4>2, <4>3, <4>4, <4>5, <4>6
    <3> HIDE DEF up, down, pgup, pgdn
    <3> QED
      BY <1>2, <3>1, <3>2
  <2> QED
    BY <1>3, <2>1
<1> QED
  BY <1>4, <1>5

(* The cursor of the launcher is on an entry that is shown.                 *)
OnEntry(l) ==
    /\ l = [entries |-> l.entries, cursor |-> l.cursor, scroll |-> l.scroll]
    /\ Len(l.entries) \in Nat /\ l.cursor \in 0 .. Len(l.entries) - 1
    /\ 0 <= l.scroll /\ l.scroll <= l.cursor /\ l.cursor < l.scroll + LAU_VROWS /\ l.scroll \in Int

LEMMA LoadOnEntry ==
    ASSUME NEW menu \in Seq(STRING), lau_load(menu).entries # <<>>
    PROVE  OnEntry(lau_load(menu))
<1> DEFINE S == {i \in DOMAIN menu : menu[i] \notin {"blank", "comment", "no bar"}}
           f == Picked(menu, S)
           n == Cardinality(S)
           T == {f[k] : k \in 1 .. n}
           l == lau_load(menu)
<1>1. n \in Nat
  <2>1. Len(menu) \in Nat /\ DOMAIN menu = 1 .. Len(menu)
    BY LenProperties
  <2>2. IsFiniteSet(DOMAIN menu)
    BY <2>1, FS_Interval
  <2>3. IsFiniteSet(S)
    BY <2>2, FS_Subset
  <2> QED
    BY <2>3, FS_CardinalityType
<1>2. f \in Seq(T)
  <2>1. f = [k \in 1 .. n |-> f[k]]
    BY DEF Picked
  <2> HIDE DEF f, n
  <2> QED
    BY <1>1, <2>1
<1>3. l = [entries |-> AtMost(LAU_MAX, f), cursor |-> 0, scroll |-> 0]
  BY DEF lau_load
<1>4. {LAU_MAX, LAU_VROWS} \subseteq Nat \ {0}
  BY ViewerAssumption DEF ViewerAssumption
<1> HIDE DEF f, T
<1>5. AtMost(LAU_MAX, f) \in Seq(T)
  BY <1>2, <1>4, AtMostType
<1>6. Len(AtMost(LAU_MAX, f)) \in Nat \ {0}
  BY <1>3, <1>5, EmptySeq
<1> HIDE DEF l
<1> QED
  BY <1>3, <1>4, <1>6 DEF OnEntry, l

LEMMA KeyOnEntry ==
    ASSUME NEW l, OnEntry(l), NEW key \in {"Up", "Down", "Home", "End"}
    PROVE  OnEntry(LauncherKey(l, key))
<1>1. LAU_VROWS \in Nat \ {0}
  BY ViewerAssumption DEF ViewerAssumption
<1>2. /\ l = [entries |-> l.entries, cursor |-> l.cursor, scroll |-> l.scroll]
      /\ Len(l.entries) \in Nat /\ l.cursor \in 0 .. Len(l.entries) - 1
      /\ 0 <= l.scroll /\ l.scroll <= l.cursor /\ l.cursor < l.scroll + LAU_VROWS /\ l.scroll \in Int
  BY DEF OnEntry
<1>3. ASSUME NEW c, NEW s, c \in 0 .. Len(l.entries) - 1, s \in Int, 0 <= s, s <= c, c < s + LAU_VROWS
      PROVE  OnEntry([entries |-> l.entries, cursor |-> c, scroll |-> s])
  <2> DEFINE w == [entries |-> l.entries, cursor |-> c, scroll |-> s]
  <2>1. w = [entries |-> w.entries, cursor |-> w.cursor, scroll |-> w.scroll]
        /\ w.entries = l.entries /\ w.cursor = c /\ w.scroll = s
    OBVIOUS
  <2>2. Len(l.entries) \in Nat
    BY <1>2
  <2> HIDE DEF w
  <2>3. OnEntry(w)
    BY <1>3, <2>1, <2>2 DEF OnEntry
  <2> QED
    BY <2>3 DEF w
<1>4. CASE key = "Up"
  <2>1. CASE l.cursor > 0
    <3> DEFINE c == l.cursor - 1
               s == IF c < l.scroll THEN c ELSE l.scroll
    <3>1. LauncherKey(l, key) = [entries |-> l.entries, cursor |-> c, scroll |-> s]
      BY <1>2, <1>4, <2>1 DEF LauncherKey
    <3>2. c \in 0 .. Len(l.entries) - 1 /\ s \in Int /\ 0 <= s /\ s <= c /\ c < s + LAU_VROWS
      BY <1>1, <1>2, <2>1
    <3> HIDE DEF c, s
    <3> QED
      BY <1>3, <3>1, <3>2
  <2>2. CASE ~ (l.cursor > 0)
    <3>1. LauncherKey(l, key) = l
      BY <1>4, <2>2 DEF LauncherKey
    <3> QED
      BY <3>1
  <2> QED
    BY <2>1, <2>2
<1>5. CASE key = "Down"
  <2>1. CASE l.cursor < Len(l.entries) - 1
    <3> DEFINE c == l.cursor + 1
               s == IF c >= l.scroll + LAU_VROWS THEN l.cursor - LAU_VROWS + 2 ELSE l.scroll
    <3>1. LauncherKey(l, key) = [entries |-> l.entries, cursor |-> c, scroll |-> s]
      BY <1>2, <1>5, <2>1 DEF LauncherKey
    <3>2. c \in 0 .. Len(l.entries) - 1 /\ s \in Int /\ 0 <= s /\ s <= c /\ c < s + LAU_VROWS
      BY <1>1, <1>2, <2>1
    <3> HIDE DEF c, s
    <3> QED
      BY <1>3, <3>1, <3>2
  <2>2. CASE ~ (l.cursor < Len(l.entries) - 1)
    <3>1. LauncherKey(l, key) = l
      BY <1>5, <2>2 DEF LauncherKey
    <3> QED
      BY <3>1
  <2> QED
    BY <2>1, <2>2
<1>6. CASE key = "Home"
  <2>1. LauncherKey(l, key) = [entries |-> l.entries, cursor |-> 0, scroll |-> 0]
    BY <1>2, <1>6 DEF LauncherKey
  <2>2. 0 \in 0 .. Len(l.entries) - 1 /\ 0 \in Int /\ 0 <= 0 /\ 0 < 0 + LAU_VROWS
    BY <1>1, <1>2
  <2> QED
    BY <1>3, <2>1, <2>2
<1>7. CASE key = "End"
  <2> DEFINE c == Len(l.entries) - 1
             s == NotBelow0(Len(l.entries) - LAU_VROWS)
  <2>1. LauncherKey(l, key) = [entries |-> l.entries, cursor |-> c, scroll |-> s]
    BY <1>2, <1>7 DEF LauncherKey, LauncherEnd
  <2>2. c \in 0 .. Len(l.entries) - 1 /\ s \in Int /\ 0 <= s /\ s <= c /\ c < s + LAU_VROWS
    BY <1>1, <1>2 DEF NotBelow0
  <2> HIDE DEF c, s
  <2> QED
    BY <1>3, <2>1, <2>2
<1> QED
  BY <1>4, <1>5, <1>6, <1>7

(* A key, a text or a menu of any length leaves what is acted on in sight.  *)
Shown == (mode = "viewer" => OnPage(viewer)) /\ (mode = "launcher" => OnEntry(launcher))

LEMMA InitShown == Init => Shown
  BY DEF Init, Shown

LEMMA NextShown == IInv /\ Shown /\ [Next]_vars => Shown'
<1> SUFFICES ASSUME IInv, Shown, [Next]_vars
             PROVE  Shown'
  OBVIOUS
<1>1. ASSUME mode' \notin {"viewer", "launcher"}
      PROVE  Shown'
  BY <1>1 DEF Shown
<1>2. ASSUME mode' = mode, viewer' = viewer, launcher' = launcher
      PROVE  Shown'
  BY <1>2 DEF Shown
<1>3. CASE action_view
  <2> DEFINE path == nos_panel_cursor_path(ap)
  <2>1. CASE ~ PathExists(disk, path)
    <3>1. mode' = "msg"
      BY <1>3, <2>1 DEF action_view
    <3> QED
      BY <1>1, <3>1
  <2>2. CASE PathExists(disk, path)
    <3>1. /\ mode' = "viewer" /\ \E text \in Text[disk[path].size] : viewer' = nos_viewer_open(text)
      BY <1>3, <2>2 DEF action_view
    <3>2. path \in DOMAIN disk /\ disk[path].size \in DOMAIN Text
      <4>1. path \in DOMAIN disk
        BY <2>2 DEF PathExists
      <4> QED
        BY <4>1 DEF IInv, Tree, DiskOK, At
    <3>3. PICK text \in Text[disk[path].size] : viewer' = nos_viewer_open(text)
      BY <3>1
    <3>4. text \in Seq(STRING)
      BY <3>2, <3>3, ShellAssumption DEF ShellAssumption
    <3>5. OnPage(viewer')
      BY <3>3, <3>4, OpenOnPage
    <3> QED
      BY <3>1, <3>5 DEF Shown
  <2> QED
    BY <2>1, <2>2
<1>4. CASE ViewerScrolls
  <2>1. PICK key \in {"F4", "Up", "Down", "PgUp", "PgDn", "Home", "End"} : viewer' = ViewerKey(viewer, key)
    BY <1>4 DEF ViewerScrolls
  <2>2. mode = "viewer" /\ mode' = mode
    BY <1>4 DEF ViewerScrolls
  <2>3. OnPage(viewer')
    BY <2>1, <2>2, KeyOnPage DEF Shown
  <2> QED
    BY <2>2, <2>3 DEF Shown
<1>5. CASE action_launch
  <2>1. PICK menu \in Menus :
          IF lau_load(menu).entries = <<>>
          THEN mode' = "msg" /\ job' = [NoJob EXCEPT !.cmd = "launch"] /\ UNCHANGED launcher
          ELSE mode' = "launcher" /\ launcher' = lau_load(menu) /\ UNCHANGED job
    BY <1>5 DEF action_launch
  <2>2. CASE lau_load(menu).entries = <<>>
    <3>1. mode' = "msg"
      BY <2>1, <2>2
    <3> QED
      BY <1>1, <3>1
  <2>3. CASE lau_load(menu).entries # <<>>
    <3>1. mode' = "launcher" /\ launcher' = lau_load(menu)
      BY <2>1, <2>3
    <3>2. menu \in Seq(STRING)
      BY <2>1, ShellAssumption DEF ShellAssumption
    <3>3. OnEntry(launcher')
      BY <2>3, <3>1, <3>2, LoadOnEntry
    <3> QED
      BY <3>1, <3>3 DEF Shown
  <2> QED
    BY <2>2, <2>3
<1>6. CASE LauncherMoves
  <2>1. PICK key \in {"Up", "Down", "Home", "End"} : launcher' = LauncherKey(launcher, key)
    BY <1>6 DEF LauncherMoves
  <2>2. mode = "launcher" /\ mode' = mode
    BY <1>6 DEF LauncherMoves
  <2>3. OnEntry(launcher')
    BY <2>1, <2>2, KeyOnEntry DEF Shown
  <2> QED
    BY <2>2, <2>3 DEF Shown
<1>7. CASE UNCHANGED vars
  BY <1>2, <1>7 DEF vars
<1>8. CASE MoveCursor \/ EnterDirectory \/ Tab \/ Refresh \/ SortMoves \/ EntersDestination \/ dos_shell
  <2>1. mode' = mode /\ viewer' = viewer /\ launcher' = launcher
    BY <1>8 DEF MoveCursor, EnterDirectory, Tab, Refresh, SortMoves, EntersDestination, dos_shell, Programs
  <2> QED
    BY <1>2, <2>1
<1>9. CASE \/ action_copy \/ action_move \/ action_mkdir \/ action_delete \/ Cancels \/ MsgDismissed
           \/ ViewerCloses \/ LauncherLeft \/ action_config \/ SortChosen \/ action_quit \/ Starts
           \/ Copy \/ Move \/ Mkdir \/ Delete
  <2>1. ASSUME action_copy \/ action_move \/ action_mkdir \/ action_delete
        PROVE  mode' \notin {"viewer", "launcher"}
    BY <2>1 DEF action_copy, action_move, action_mkdir, action_delete, Ask
  <2>2. ASSUME Copy \/ Move \/ Mkdir \/ Delete \/ MsgDismissed
        PROVE  mode' \notin {"viewer", "launcher"}
    <3>1. Ends \/ Fails => mode' \notin {"viewer", "launcher"}
      BY DEF Ends, Fails
    <3>2. Copy => Ends \/ Fails
      BY DEF Copy
    <3>3. Move => Ends \/ Fails
      BY DEF Move
    <3>4. Mkdir => Ends \/ Fails
      BY DEF Mkdir
    <3>5. Delete => Ends \/ Fails
      BY DEF Delete
    <3>6. MsgDismissed => mode' = "run"
      BY DEF MsgDismissed, Ends
    <3> QED
      BY <2>2, <3>1, <3>2, <3>3, <3>4, <3>5, <3>6
  <2>3. ASSUME Cancels \/ ViewerCloses \/ LauncherLeft \/ action_config \/ SortChosen \/ action_quit \/ Starts
        PROVE  mode' \notin {"viewer", "launcher"}
    BY <2>3 DEF Cancels, ViewerCloses, LauncherLeft, action_config, SortChosen, action_quit, Starts
  <2> QED
    BY <1>1, <1>9, <2>1, <2>2, <2>3
<1> QED
  BY <1>3, <1>4, <1>5, <1>6, <1>7, <1>8, <1>9 DEF Next

LEMMA InSight == Spec => []Shown
  BY Invariant, InitShown, NextShown, PTL DEF Spec

------------------------------------------------------------------------------
(* The disk is a tree of directories, and the cursor of a panel is on its   *)
(* list, whatever is copied, moved or removed below which directory         *)
(* (shell.c 286-430, panel.c 393-411).                                      *)
THEOREM ShellTypeOK == Spec => []TypeOK
<1>1. IInv => TypeOK
  <2> SUFFICES ASSUME IInv PROVE TypeOK
    OBVIOUS
  <2>1. \A p \in DOMAIN disk : p \in Path /\ Creatable(p) /\ disk[p].is_dir \in BOOLEAN
    BY DEF IInv, Tree, DiskOK, At, Creatable
  <2>2. ASSUME NEW side \in Sides
        PROVE  /\ panels[side].path \in Path
               /\ panels[side].cursor \in {0} \cup -1 .. Len(panels[side].files) - 1
               /\ panels[side].scroll \in -1 .. Len(panels[side].files)
               /\ panels[side].sort \in Sorts
    BY DEF IInv, Listed, Panels, Read
  <2> QED
    BY <2>1, <2>2 DEF TypeOK, IInv, Others
<1> QED
  BY Invariant, <1>1, PTL

(* What the next key acts on is on the screen, for any height of the        *)
(* panels, any lists, texts and menus: the entry of either panel (panel.c   *)
(* 214-268, 393-411), the program that Enter would start (launcher.c        *)
(* 256-299), the page of the viewer in both modes (viewer.c 206-265).       *)
THEOREM ShellCursorVisible == Spec => []CursorVisible
<1> DEFINE Visible == \A side \in Sides : OnScreen(panels[side])
           Scrolled ==
               /\ mode = "viewer" => viewer.top \in 0 .. MaxTop(viewer)
               /\ mode = "launcher" =>
                     /\ launcher.cursor \in 0 .. Len(launcher.entries) - 1
                     /\ 0 <= launcher.scroll /\ launcher.scroll <= launcher.cursor
                     /\ launcher.cursor < launcher.scroll + LAU_VROWS
<1>1. TypeOK /\ Visible /\ Scrolled => CursorVisible
  BY DEF PanelCursorVisible, CursorVisible
<1>2. IInv => Visible
  BY DEF IInv, Listed, Panels
<1>3. Shown => Scrolled
  <2> SUFFICES ASSUME Shown PROVE Scrolled
    OBVIOUS
  <2>1. ASSUME mode = "viewer" PROVE viewer.top \in 0 .. MaxTop(viewer)
    <3>1. viewer \in Views /\ viewer.top \in Nat /\ viewer.top <= MaxTop(viewer)
      BY <2>1 DEF Shown, OnPage, Views
    <3>2. MaxTop(viewer) \in Nat
      BY <3>1, MaxTopType
    <3> QED
      BY <3>1, <3>2
  <2>2. ASSUME mode = "launcher"
        PROVE  /\ launcher.cursor \in 0 .. Len(launcher.entries) - 1
               /\ 0 <= launcher.scroll /\ launcher.scroll <= launcher.cursor
               /\ launcher.cursor < launcher.scroll + LAU_VROWS
    BY <2>2 DEF Shown, OnEntry
  <2> QED
    BY <2>1, <2>2
<1> HIDE DEF Visible, Scrolled
<1> QED
  BY Invariant, InSight, ShellTypeOK, <1>1, <1>2, <1>3, PTL

(* The viewer shows every line of what it has read, cut exactly where the   *)
(* line feeds are, up to the number of lines it has room for, for any text  *)
(* (viewer.c 51-80).                                                        *)
THEOREM ShellViewerShowsAll == Spec => []ViewerShowsAll
<1>1. Shown => ViewerShowsAll
  <2> SUFFICES ASSUME Shown, mode = "viewer"
               PROVE  ShowsAll(viewer.text, viewer.lines)
    BY DEF ViewerShowsAll, ShowsAll, Begins, Feeds, Number, Stop
  <2>1. viewer.text \in Seq(STRING) /\ viewer.lines = vwr_load_text(viewer.text)
    BY DEF Shown, OnPage, Views
  <2> QED
    BY <2>1, LoadShowsAll
<1> QED
  BY InSight, <1>1, PTL

(* After every command both panels show what is on the disk, each in its    *)
(* order, unless another program ran since they were read.                  *)
THEOREM ShellPanelsShowDisk == Spec => []PanelsShowDisk
<1>1. IInv => PanelsShowDisk
  BY DEF IInv
<1> QED
  BY Invariant, <1>1, PTL

(* Both panels are in one order, that of SHELL.CFG if it could be written   *)
(* (shell.c 437-447, 546-555).                                              *)
THEOREM ShellOneOrder == Spec => []OneOrder
<1>1. IInv => OneOrder
  BY DEF IInv
<1> QED
  BY Invariant, <1>1, PTL

(* An answer to a dialog is a command, a destination or Esc.                *)
LEMMA Answered ==
    ASSUME IInv, [Next]_vars, mode \in {"input", "confirm"}
    PROVE  \/ Copy \/ Move \/ Mkdir \/ Delete
           \/ /\ disk' = disk
              /\ ~ (mode = "input" /\ job.cmd = "move" /\ job.dst # <<>>) \/ UNCHANGED vars
<1>1. CASE EntersDestination
  BY <1>1 DEF EntersDestination, Files
<1>2. CASE Cancels
  BY <1>2 DEF Cancels, Files
<1>3. CASE UNCHANGED vars
  BY <1>3 DEF vars
<1>4. CASE Next /\ ~ EntersDestination /\ ~ Cancels
  BY <1>4 DEF Next, action_copy, action_move, action_mkdir, action_delete, MsgDismissed, MoveCursor,
     EnterDirectory, Tab, Refresh, action_view, ViewerScrolls, ViewerCloses, dos_shell, action_launch,
     LauncherMoves, LauncherLeft, action_config, SortMoves, SortChosen, action_quit, Starts
<1> QED
  BY <1>1, <1>2, <1>3, <1>4

(* A command changes nothing on the disk but what its dialog named          *)
(* (shell.c 286-430).                                                       *)
THEOREM ShellOnlyNamedChanges == Spec => OnlyNamedChanges
<1> DEFINE Step == mode \in {"input", "confirm"} => \A p \in DOMAIN disk \cup DOMAIN disk' : Same(p) \/ Named(p)
<1>1. IInv /\ [Next]_vars => [Step]_vars
  <2> SUFFICES ASSUME IInv, [Next]_vars, mode \in {"input", "confirm"}
               PROVE  \A p \in DOMAIN disk \cup DOMAIN disk' : Same(p) \/ Named(p)
    OBVIOUS
  <2>1. CASE Copy \/ Move \/ Mkdir \/ Delete
    BY <2>1, CommandOK
  <2>2. CASE disk' = disk
    BY <2>2 DEF Same
  <2> QED
    BY <2>1, <2>2, Answered
<1> QED
  BY Invariant, <1>1, PTL DEF Spec, OnlyNamedChanges

(* What F6 moves is at its destination or still at its source, whatever DOS *)
(* refuses, unless the two are one file or the copy was cut short           *)
(* (shell.c 358-369).                                                       *)
THEOREM ShellMoveKeepsContents == Spec => MoveKeepsContents
<1> DEFINE Step == mode = "input" /\ job.cmd = "move" /\ job.src \in DOMAIN disk
                    /\ job.dst \notin {<<>>, job.src} /\ ~ short' => Kept
<1>1. IInv /\ [Next]_vars => [Step]_vars
  <2> SUFFICES ASSUME IInv, [Next]_vars, mode = "input", job.cmd = "move", job.src \in DOMAIN disk,
                      job.dst \notin {<<>>, job.src}, ~ short'
               PROVE  Kept
    OBVIOUS
  <2>1. CASE Copy \/ Move \/ Mkdir \/ Delete
    BY <2>1, CommandOK
  <2>2. CASE UNCHANGED vars
    BY <2>2 DEF vars, Kept
  <2> QED
    BY <2>1, <2>2, Answered
<1> QED
  BY Invariant, <1>1, PTL DEF Spec, MoveKeepsContents
==============================================================================
