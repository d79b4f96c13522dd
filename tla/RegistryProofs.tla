--------------------------- MODULE RegistryProofs ---------------------------
(***************************************************************************)
(* The safety properties of Registry, for any package ids, versions and    *)
(* table size.                                                             *)
(***************************************************************************)
EXTENDS Registry, SequenceTheorems, FiniteSetTheorems, TLAPS

------------------------------------------------------------------------------
(* The table: what the operators of RegistryTable return.                   *)

(* reg_load of a whole table returns it.                                    *)
LEMMA LoadTable == ASSUME NEW f \in Table PROVE reg_load(f) = f
<1>1. f \in Seq(Entry) /\ Len(f) \in Nat /\ Len(f) <= MaxEntries
  BY LenProperties DEF Table
<1>2. (IF Len(f) < MaxEntries THEN Len(f) ELSE MaxEntries) = Len(f)
  BY <1>1, RegistryAssumption DEF RegistryAssumption
<1>3. f # Absent
  BY <1>1, RegistryAssumption DEF RegistryAssumption
<1> QED
  BY <1>1, <1>2, <1>3, SubSeqFull DEF reg_load

LEMMA EmptyTable == <<>> \in Table /\ Unique(<<>>)
  BY RegistryAssumption, EmptySeq DEF RegistryAssumption, Table, Unique

LEMMA LoadKeeps ==
    ASSUME NEW f, f = Absent \/ (f \in Table /\ Unique(f))
    PROVE  reg_load(f) \in Table /\ Unique(reg_load(f))
  BY EmptyTable, LoadTable DEF reg_load

(* In a table without duplicates Position is the one index of the id.       *)
LEMMA PositionIsIndex ==
    ASSUME NEW reg \in Table, Unique(reg), NEW id, Has(reg, id)
    PROVE  /\ Position(reg, id) \in 1 .. Len(reg)
           /\ reg[Position(reg, id)].id = id
           /\ \A i \in 1 .. Len(reg) : reg[i].id = id => i = Position(reg, id)
<1>1. reg \in Seq(Entry) /\ DOMAIN reg = 1 .. Len(reg) /\ Len(reg) \in Nat
  BY LenProperties DEF Table
<1>2. PICK i \in 1 .. Len(reg) : reg[i].id = id
  BY <1>1 DEF Has
<1>3. \A j \in 1 .. (i - 1) : reg[j].id # id
  BY <1>1, <1>2 DEF Unique
<1>4. /\ Position(reg, id) \in DOMAIN reg
      /\ reg[Position(reg, id)].id = id
  BY <1>1, <1>2, <1>3 DEF Position
<1> QED
  BY <1>1, <1>4 DEF Unique

(* nos_registry_add, where there is an entry to replace or a free one,      *)
(* leaves a table without duplicates.                                       *)
LEMMA AddedKeeps ==
    ASSUME NEW reg \in Table, Unique(reg), NEW e \in Entry,
           Has(reg, e.id) \/ Len(reg) < MaxEntries
    PROVE  Added(reg, e) \in Table /\ Unique(Added(reg, e))
<1>1. reg \in Seq(Entry) /\ DOMAIN reg = 1 .. Len(reg) /\ Len(reg) \in Nat
  BY LenProperties DEF Table
<1>2. CASE Has(reg, e.id)
  <2> DEFINE p == Position(reg, e.id)
             new == [reg EXCEPT ![p] = e]
  <2>1. p \in 1 .. Len(reg) /\ \A i \in 1 .. Len(reg) : reg[i].id = e.id => i = p
    BY <1>2, PositionIsIndex
  <2>2. /\ new \in Seq(Entry) /\ Len(new) = Len(reg)
        /\ \A j \in 1 .. Len(reg) : new[j] = IF j = p THEN e ELSE reg[j]
    BY <1>1, <2>1, ExceptSeq
  <2>3. DOMAIN new = 1 .. Len(reg)
    BY <1>1
  <2>4. Unique(new)
    <3> SUFFICES ASSUME NEW i \in 1 .. Len(reg), NEW j \in 1 .. Len(reg), new[i].id = new[j].id
                 PROVE  i = j
      BY <2>3 DEF Unique
    <3> QED
      BY <1>1, <2>1, <2>2 DEF Unique
  <2>5. Added(reg, e) = new
    BY <1>2 DEF Added
  <2> QED
    BY <2>2, <2>4, <2>5 DEF Table
<1>3. CASE ~ Has(reg, e.id)
  <2> DEFINE new == Append(reg, e)
  <2>1. /\ new \in Seq(Entry) /\ Len(new) = Len(reg) + 1
        /\ \A i \in 1 .. Len(reg) : new[i] = reg[i]
        /\ new[Len(reg) + 1] = e
    BY <1>1, AppendProperties
  <2>2. DOMAIN new = 1 .. (Len(reg) + 1)
    BY <2>1, LenProperties
  <2>3. \A i \in 1 .. Len(reg) : reg[i].id # e.id
    BY <1>1, <1>3 DEF Has
  <2>4. Unique(new)
    <3> SUFFICES ASSUME NEW i \in 1 .. (Len(reg) + 1), NEW j \in 1 .. (Len(reg) + 1),
                        new[i].id = new[j].id
                 PROVE  i = j
      BY <2>2 DEF Unique
    <3> QED
      BY <1>1, <2>1, <2>3 DEF Unique
  <2>5. Len(new) <= MaxEntries
    BY <1>1, <1>3, <2>1, RegistryAssumption DEF RegistryAssumption
  <2>6. Added(reg, e) = new
    BY <1>3 DEF Added
  <2> QED
    BY <2>1, <2>4, <2>5, <2>6 DEF Table
<1> QED
  BY <1>2, <1>3

(* nos_registry_remove shifts the later entries down by one.                *)
LEMMA WithoutShifts ==
    ASSUME NEW reg \in Table, Unique(reg), NEW id, Has(reg, id)
    PROVE  /\ Without(reg, id) \in Seq(Entry)
           /\ Len(Without(reg, id)) = Len(reg) - 1
           /\ \A i \in 1 .. Len(reg) - 1 :
                Without(reg, id)[i] = IF i < Position(reg, id) THEN reg[i] ELSE reg[i + 1]
<1> DEFINE p == Position(reg, id)
           front == SubSeq(reg, 1, p - 1)
           back == SubSeq(reg, p + 1, Len(reg))
           new == front \o back
<1>1. reg \in Seq(Entry) /\ DOMAIN reg = 1 .. Len(reg) /\ Len(reg) \in Nat
  BY LenProperties DEF Table
<1>2. p \in 1 .. Len(reg)
  BY PositionIsIndex
<1>3. \A i \in 1 .. Len(reg) : reg[i] \in Entry
  BY <1>1, ElementOfSeq
<1>4. /\ front \in Seq(Entry) /\ Len(front) = p - 1
      /\ \A i \in 1 .. p - 1 : front[i] = reg[i]
  <2>1. \A i \in 1 .. (p - 1) : reg[i] \in Entry
    BY <1>1, <1>2, <1>3
  <2>2. /\ front \in Seq(Entry) 
        /\ Len(front) = IF 1 <= p - 1 THEN p - 1 - 1 + 1 ELSE 0
        /\ \A i \in 1 .. p - 1 - 1 + 1 : front[i] = reg[1 + i - 1]
    BY <1>1, <1>2, <2>1, SubSeqProperties
  <2> QED
    BY <1>1, <1>2, <2>2
<1>5. /\ back \in Seq(Entry) /\ Len(back) = Len(reg) - p
      /\ \A i \in 1 .. Len(reg) - p : back[i] = reg[p + i]
  <2>1. \A i \in (p + 1) .. Len(reg) : reg[i] \in Entry
    BY <1>1, <1>2, <1>3
  <2>2. /\ back \in Seq(Entry) 
        /\ Len(back) = IF p + 1 <= Len(reg) THEN Len(reg) - (p + 1) + 1 ELSE 0
        /\ \A i \in 1 .. Len(reg) - (p + 1) + 1 : back[i] = reg[p + 1 + i - 1]
    BY <1>1, <1>2, <2>1, SubSeqProperties
  <2> QED
    BY <1>1, <1>2, <2>2
<1>6. /\ new \in Seq(Entry) /\ Len(new) = Len(reg) - 1
      /\ \A i \in 1 .. Len(reg) - 1 : new[i] = IF i < p THEN reg[i] ELSE reg[i + 1]
  <2>1. /\ new \in Seq(Entry) /\ Len(new) = Len(front) + Len(back)
        /\ \A i \in 1 .. Len(front) + Len(back) :
              new[i] = IF i <= Len(front) THEN front[i] ELSE back[i - Len(front)]
    BY <1>4, <1>5, ConcatProperties
  <2>2. Len(new) = Len(reg) - 1
    BY <1>1, <1>2, <1>4, <1>5, <2>1
  <2> HIDE DEF new, front, back, p
  <2>3. \A i \in 1 .. Len(reg) - 1 : new[i] = IF i <= p - 1 THEN front[i] ELSE back[i - (p - 1)]
    <3>1. Len(front) + Len(back) = Len(reg) - 1 /\ Len(front) = p - 1
      BY <1>1, <1>2, <1>4, <1>5
    <3> QED
      BY <2>1, <3>1
  <2>4. ASSUME NEW i \in 1 .. Len(reg) - 1, i < p PROVE new[i] = reg[i]
    <3>1. i \in 1 .. p - 1 /\ i <= p - 1
      BY <1>1, <1>2, <2>4
    <3> QED
      BY <1>4, <2>3, <3>1
  <2>5. ASSUME NEW i \in 1 .. Len(reg) - 1, ~ (i < p) PROVE new[i] = reg[i + 1]
    <3>1. ~ (i <= p - 1) /\ i - (p - 1) \in 1 .. Len(reg) - p /\ p + (i - (p - 1)) = i + 1
      BY <1>1, <1>2, <2>5
    <3> QED
      BY <1>5, <2>3, <3>1
  <2> QED
    BY <2>1, <2>2, <2>4, <2>5
<1> QED
  BY <1>6 DEF Without, RemoveAt

(* ... and keeps them.                                                      *)
LEMMA WithoutKeeps ==
    ASSUME NEW reg \in Table, Unique(reg), NEW id, Has(reg, id)
    PROVE  Without(reg, id) \in Table /\ Unique(Without(reg, id))
<1> DEFINE p == Position(reg, id)
           new == Without(reg, id)
<1>1. reg \in Seq(Entry) /\ DOMAIN reg = 1 .. Len(reg) /\ Len(reg) \in Nat
  BY LenProperties DEF Table
<1>2. p \in 1 .. Len(reg)
  BY PositionIsIndex
<1>6. /\ new \in Seq(Entry) /\ Len(new) = Len(reg) - 1
      /\ \A i \in 1 .. Len(reg) - 1 : new[i] = IF i < p THEN reg[i] ELSE reg[i + 1]
  BY WithoutShifts
<1> HIDE DEF new
<1>7. DOMAIN new = 1 .. (Len(reg) - 1)
  BY <1>6, LenProperties
<1>8. Unique(new)
  <2> SUFFICES ASSUME NEW i \in 1 .. (Len(reg) - 1), NEW j \in 1 .. (Len(reg) - 1),
                      new[i].id = new[j].id
               PROVE  i = j
    BY <1>7 DEF Unique
  <2> DEFINE old(k) == IF k < p THEN k ELSE k + 1
  <2>1. old(i) \in DOMAIN reg /\ old(j) \in DOMAIN reg
    BY <1>1, <1>2
  <2>2. new[i] = reg[old(i)] /\ new[j] = reg[old(j)]
    BY <1>6
  <2>3. old(i) = old(j)
    BY <2>1, <2>2 DEF Unique
  <2> QED
    BY <1>2, <2>3
<1>9. Len(new) <= MaxEntries
  BY <1>1, <1>6, RegistryAssumption DEF RegistryAssumption, Table
<1> QED
  BY <1>6, <1>8, <1>9 DEF Table, new

(* What a write cut short leaves is a table too.                            *)
LEMMA CutKeeps ==
    ASSUME NEW reg \in Table, Unique(reg), NEW part \in Db!CutShort(reg)
    PROVE  part \in Table /\ Unique(part)
<1>1. reg \in Seq(Entry) /\ DOMAIN reg = 1 .. Len(reg) /\ Len(reg) \in Nat
  BY LenProperties DEF Table
<1>2. PICK n \in 0 .. (Len(reg) - 1) : part = SubSeq(reg, 1, n)
  BY DEF Db!CutShort
<1>3. \A i \in 1 .. n : reg[i] \in Entry
  BY <1>1, <1>2, ElementOfSeq
<1>4. /\ part \in Seq(Entry)
      /\ Len(part) = IF 1 <= n THEN n - 1 + 1 ELSE 0
      /\ \A i \in 1 .. n - 1 + 1 : part[i] = reg[1 + i - 1]
  BY <1>2, <1>3, SubSeqProperties
<1>5. Len(part) = n /\ \A i \in 1 .. n : part[i] = reg[i]
  BY <1>2, <1>4
<1>6. DOMAIN part = 1 .. n
  BY <1>4, <1>5, LenProperties
<1> QED
  BY <1>1, <1>2, <1>4, <1>5, <1>6, RegistryAssumption DEF RegistryAssumption, Table, Unique

------------------------------------------------------------------------------
(* The calls: an inductive invariant that needs nothing of the faults.      *)

(* Until its rename a call leaves INSTALLED.DB alone, or has removed it with *)
(* the new table in INSTALLED.TMP.                                          *)
Untouched ==
    /\ pc \in {"write", "remove"} => reg_load(db) = before
    /\ pc \in {"remove", "rename"} => dbTmp \in Written
    /\ pc = "rename" => db = Absent \/ reg_load(db) = before

(* What a call that answered OK has renamed.                                *)
Renamed == pc = "idle" /\ rc = "ok" => db \in Written

RInv == TypeOK /\ UniqueIds /\ Untouched /\ Renamed /\ FailureLosesNothing

LEMMA RegistryInit == Init => RInv
<1>1. reg_load(Absent) = <<>>
  BY DEF reg_load
<1> QED
  BY <1>1, EmptyTable DEF Init, RInv, TypeOK, UniqueIds, Untouched, Renamed, Written, FailureLosesNothing

LEMMA ModifyKeeps ==
    ASSUME RInv, NEW c \in Calls, NEW reg \in Table, Unique(reg), Modify(c, reg), pc = "idle"
    PROVE  RInv'
<1>1. reg_load(db) \in Table /\ Unique(reg_load(db))
  BY LoadKeeps DEF RInv, TypeOK, UniqueIds
<1> QED
  BY <1>1 DEF Modify, RInv, TypeOK, UniqueIds, Untouched, Renamed, Written, FailureLosesNothing

LEMMA ReturnKeeps ==
    ASSUME RInv, NEW code \in {"full", "notfound"}, ReturnAtOnce(code), pc = "idle"
    PROVE  RInv'
<1>1. reg_load(db) \in Table /\ Unique(reg_load(db))
  BY LoadKeeps DEF RInv, TypeOK, UniqueIds
<1> QED
  BY <1>1 DEF ReturnAtOnce, RInv, TypeOK, UniqueIds, Untouched, Renamed, Written, FailureLosesNothing

LEMMA RegistryStep == RInv /\ [Next]_vars => RInv'
<1> SUFFICES ASSUME RInv, [Next]_vars PROVE RInv'
  OBVIOUS
<1>1. reg_load(db) \in Table /\ Unique(reg_load(db))
  BY LoadKeeps DEF RInv, TypeOK, UniqueIds
<1>2. g_reg \in Table /\ Unique(g_reg)
  BY DEF RInv, TypeOK, UniqueIds
<1>3. ASSUME NEW e \in Entry, nos_registry_add(e) PROVE RInv'
  <2>1. CASE /\ Has(reg_load(db), e.id) \/ Len(reg_load(db)) < MaxEntries
             /\ Modify(e, Added(reg_load(db), e))
    <3>1. e \in Calls
      BY DEF Entry, Calls
    <3> QED
      BY <1>1, <1>3, <2>1, <3>1, AddedKeeps, ModifyKeeps DEF nos_registry_add
  <2>2. CASE ReturnAtOnce("full")
    BY <1>3, <2>2, ReturnKeeps DEF nos_registry_add
  <2> QED
    BY <1>3, <2>1, <2>2 DEF nos_registry_add
<1>4. ASSUME NEW id \in Ids, nos_registry_remove(id) PROVE RInv'
  <2>1. CASE /\ Has(reg_load(db), id)
             /\ Modify([id |-> id, ver |-> Absent], Without(reg_load(db), id))
    <3>1. [id |-> id, ver |-> Absent] \in Calls
      BY DEF Calls
    <3> QED
      BY <1>1, <1>4, <2>1, <3>1, WithoutKeeps, ModifyKeeps DEF nos_registry_remove
  <2>2. CASE ReturnAtOnce("notfound")
    BY <1>4, <2>2, ReturnKeeps DEF nos_registry_remove
  <2> QED
    BY <1>4, <2>1, <2>2 DEF nos_registry_remove
<1>5. CASE SaveWrite
  <2>1. CASE Db!WriteTmp(g_reg) /\ pc' = "remove" /\ UNCHANGED <<rc, faults>>
    BY <1>2, <1>5, <2>1 DEF SaveWrite, Db!WriteTmp, RInv, TypeOK, UniqueIds, Untouched, Renamed, Written, FailureLosesNothing
  <2>2. CASE Db!WriteTmpShort(g_reg) /\ pc' = "remove" /\ ShortWrite /\ UNCHANGED rc
    <3>1. dbTmp' \in Table /\ Unique(dbTmp')
      BY <1>2, <2>2, CutKeeps DEF Db!WriteTmpShort
    <3> QED
      BY <1>5, <2>2, <3>1 DEF SaveWrite, ShortWrite, Db!WriteTmpShort, RInv, TypeOK, UniqueIds, Untouched, Renamed, Written, FailureLosesNothing
  <2>3. CASE pc' = "idle" /\ rc' = "write" /\ FileError /\ UNCHANGED <<db, dbTmp>>
    BY <1>5, <2>3 DEF SaveWrite, FileError, RInv, TypeOK, UniqueIds, Untouched, Renamed, Written, FailureLosesNothing
  <2> QED
    BY <1>5, <2>1, <2>2, <2>3 DEF SaveWrite
<1>6. CASE SaveRemove
  BY <1>6 DEF SaveRemove, FileError, Db!RemoveOld, RInv, TypeOK, UniqueIds, Untouched, Renamed, Written, FailureLosesNothing
<1>7. CASE SaveRename
  BY <1>7 DEF SaveRename, FileError, Db!RenameTmp, RInv, TypeOK, UniqueIds, Untouched, Renamed, Written, FailureLosesNothing
<1>8. CASE PowerLoss
  <2>1. CASE UNCHANGED <<db, dbTmp>>
    BY <1>8, <2>1 DEF PowerLoss, RInv, TypeOK, UniqueIds, Untouched, Renamed, Written, FailureLosesNothing
  <2>2. CASE Db!WriteTmpShort(g_reg)
    <3>1. dbTmp' \in Table /\ Unique(dbTmp')
      BY <1>2, <2>2, CutKeeps DEF Db!WriteTmpShort
    <3> QED
      BY <1>8, <2>2, <3>1 DEF PowerLoss, Db!WriteTmpShort, RInv, TypeOK, UniqueIds, Untouched, Renamed, Written, FailureLosesNothing
  <2> QED
    BY <1>8, <2>1, <2>2 DEF PowerLoss
<1>9. CASE UNCHANGED vars
  BY <1>9 DEF vars, RInv, TypeOK, UniqueIds, Untouched, Renamed, Written, FailureLosesNothing
<1> QED
  BY <1>3, <1>4, <1>5, <1>6, <1>7, <1>8, <1>9 DEF Next, Step

LEMMA RegistryInvariant == Spec => []RInv
  BY RegistryInit, RegistryStep, PTL DEF Spec

(* Type correctness of registry.c, whatever fails.                          *)
THEOREM RegistryTypeOK == Spec => []TypeOK
<1>1. RInv => TypeOK
  BY DEF RInv
<1> QED
  BY RegistryInvariant, <1>1, PTL

(* registry.c lists no package twice, in memory or in either file, whatever *)
(* fails.                                                                   *)
THEOREM RegistryUniqueIds == Spec => []UniqueIds
<1>1. RInv => UniqueIds
  BY DEF RInv
<1> QED
  BY RegistryInvariant, <1>1, PTL

(* A registry call that reports an error has left the database as it was,   *)
(* or has lost it with what was written of its table in INSTALLED.TMP.      *)
THEOREM RegistryFailureLosesNothing == Spec => []FailureLosesNothing
<1>1. RInv => FailureLosesNothing
  BY DEF RInv
<1> QED
  BY RegistryInvariant, <1>1, PTL

------------------------------------------------------------------------------
(* The same calls while no write comes up short unnoticed: the power may    *)
(* still fail between any two of them, and any call of DOS may fail.        *)

(* INSTALLED.TMP is complete before INSTALLED.DB is removed.                *)
Flushed == pc \in {"remove", "rename"} => dbTmp = g_reg

Sound ==
    "short" \notin faults =>
        /\ Flushed
        /\ db \in {Absent, before, g_reg}
        /\ reg_load(db) \in {before, g_reg} \/ dbTmp = g_reg
        /\ pc = "idle" /\ rc = "ok" => db = g_reg

SInv == RInv /\ Sound

LEMMA SafeInit == Init => SInv
<1>1. reg_load(Absent) = <<>>
  BY DEF reg_load
<1> QED
  BY <1>1, RegistryInit DEF Init, SInv, Sound, Flushed

(* A call begins: what it reads is what both histories say of the database. *)
LEMMA BeginKeeps ==
    ASSUME SInv, pc = "idle", UNCHANGED <<db, dbTmp, faults>>, before' = reg_load(db),
           rc' # "ok", pc' \in {"idle", "write"}
    PROVE  Sound'
<1>1. db = Absent \/ reg_load(db) = db
  BY LoadTable DEF SInv, RInv, TypeOK
<1> QED
  BY <1>1 DEF Sound, Flushed

LEMMA SafeStep == SInv /\ [Next]_vars => SInv'
<1> SUFFICES ASSUME SInv, [Next]_vars, "short" \notin faults' PROVE Sound'
  BY RegistryStep DEF SInv, Sound
<1>1. /\ reg_load(Absent) = <<>>
      /\ reg_load(g_reg) = g_reg
  BY LoadTable DEF reg_load, SInv, RInv, TypeOK
<1>2. ASSUME NEW e \in Entry, nos_registry_add(e) PROVE Sound'
  BY <1>2, BeginKeeps DEF nos_registry_add, Modify, ReturnAtOnce
<1>3. ASSUME NEW id \in Ids, nos_registry_remove(id) PROVE Sound'
  BY <1>3, BeginKeeps DEF nos_registry_remove, Modify, ReturnAtOnce
<1>4. CASE SaveWrite
  BY <1>4 DEF SaveWrite, FileError, ShortWrite, Db!WriteTmp, SInv, RInv, Untouched, Sound, Flushed
<1>5. CASE SaveRemove
  BY <1>1, <1>5 DEF SaveRemove, FileError, Db!RemoveOld, SInv, RInv, Untouched, Sound, Flushed
<1>6. CASE SaveRename
  BY <1>1, <1>6 DEF SaveRename, FileError, Db!RenameTmp, SInv, RInv, Untouched, Sound, Flushed
<1>7. CASE PowerLoss
  BY <1>7 DEF PowerLoss, Db!WriteTmpShort, SInv, RInv, Untouched, Sound, Flushed
<1>8. CASE UNCHANGED vars
  BY <1>8 DEF vars, SInv, Sound, Flushed
<1> QED
  BY <1>2, <1>3, <1>4, <1>5, <1>6, <1>7, <1>8 DEF Next, Step

LEMMA SafeInvariant == Spec => []SInv
  BY SafeInit, SafeStep, PTL DEF Spec

(* While no write comes up short, INSTALLED.DB is never partial, and a whole *)
(* table is always in one of the two files, wherever the power fails and    *)
(* whichever of the calls of DOS.                                           *)
THEOREM RegistrySurvivesFailures == Spec => [](NoPartialDb /\ OneCopySurvives)
<1>1. SInv => NoPartialDb /\ OneCopySurvives
  BY DEF SInv, Sound, NoPartialDb, OneCopySurvives
<1> QED
  BY SafeInvariant, <1>1, PTL

(* OK from a registry call means that the table of the call is in place, or *)
(* what a short write left of it.                                           *)
THEOREM RegistryOkMeansSaved == Spec => []OkMeansSaved
<1>1. SInv => OkMeansSaved
  BY DEF SInv, RInv, Renamed, Sound, OkMeansSaved
<1> QED
  BY SafeInvariant, <1>1, PTL

------------------------------------------------------------------------------
(* The refinement: what a table says of each package, and what the changes  *)
(* of a table are on that map.                                              *)

Map(reg) == [id \in Ids |-> IF Has(reg, id) THEN reg[Position(reg, id)].ver ELSE Absent]

LEMMA MapOfEntry ==
    ASSUME NEW reg \in Table, Unique(reg), NEW i \in 1 .. Len(reg)
    PROVE  reg[i].id \in Ids /\ Map(reg)[reg[i].id] = reg[i].ver
<1>1. reg[i] \in Entry /\ DOMAIN reg = 1 .. Len(reg)
  BY ElementOfSeq, LenProperties DEF Table
<1>2. Has(reg, reg[i].id)
  BY <1>1 DEF Has
<1>3. i = Position(reg, reg[i].id)
  BY <1>2, PositionIsIndex
<1> QED
  BY <1>1, <1>2, <1>3 DEF Map, Entry

(* Two entries of a map: listed with a version, or not listed.              *)
LEMMA MapAt ==
    ASSUME NEW reg \in Table, Unique(reg), NEW id \in Ids
    PROVE  /\ Map(reg)[id] \in Versions \cup {Absent}
           /\ Map(reg)[id] # Absent <=> Has(reg, id)
<1>1. CASE Has(reg, id)
  <2>1. Position(reg, id) \in 1 .. Len(reg)
    BY <1>1, PositionIsIndex
  <2>2. reg[Position(reg, id)] \in Entry
    BY <2>1, ElementOfSeq DEF Table
  <2> QED
    BY <1>1, <2>2, RegistryAssumption DEF RegistryAssumption, Map, Entry
<1>2. CASE ~ Has(reg, id)
  BY <1>2 DEF Map
<1> QED
  BY <1>1, <1>2

LEMMA MapEmpty == Map(<<>>) = [id \in Ids |-> Absent]
<1>1. \A id : ~ Has(<<>>, id)
  BY DEF Has
<1> QED
  BY <1>1 DEF Map

(* A map is known from the entries of its table.                            *)
LEMMA MapIs ==
    ASSUME NEW reg \in Table, Unique(reg), NEW map, map = [id \in Ids |-> map[id]],
           \A i \in 1 .. Len(reg) : map[reg[i].id] = reg[i].ver,
           \A id \in Ids : map[id] # Absent => Has(reg, id)
    PROVE  Map(reg) = map
<1> SUFFICES ASSUME NEW id \in Ids PROVE Map(reg)[id] = map[id]
  BY DEF Map
<1>1. CASE Has(reg, id)
  <2>1. PICK i \in 1 .. Len(reg) : reg[i].id = id
    BY <1>1, LenProperties DEF Has, Table
  <2> QED
    BY <2>1, MapOfEntry
<1>2. CASE ~ Has(reg, id)
  BY <1>2 DEF Map
<1> QED
  BY <1>1, <1>2

LEMMA MapAdded ==
    ASSUME NEW reg \in Table, Unique(reg), NEW e \in Entry,
           Has(reg, e.id) \/ Len(reg) < MaxEntries
    PROVE  Map(Added(reg, e)) = [Map(reg) EXCEPT ![e.id] = e.ver]
<1> DEFINE new == Added(reg, e)
           map == [Map(reg) EXCEPT ![e.id] = e.ver]
<1>1. new \in Table /\ Unique(new)
  BY AddedKeeps
<1>2. reg \in Seq(Entry) /\ DOMAIN reg = 1 .. Len(reg) /\ Len(reg) \in Nat /\ e.id \in Ids
  BY LenProperties DEF Table, Entry
<1>3. CASE Has(reg, e.id)
  <2> DEFINE p == Position(reg, e.id)
  <2>1. /\ p \in 1 .. Len(reg) /\ reg[p].id = e.id
        /\ \A i \in 1 .. Len(reg) : reg[i].id = e.id => i = p
    BY <1>3, PositionIsIndex
  <2>2. new = [reg EXCEPT ![p] = e]
    BY <1>3 DEF Added
  <2>3. /\ Len(new) = Len(reg)
        /\ \A j \in 1 .. Len(reg) : new[j] = IF j = p THEN e ELSE reg[j]
    BY <1>2, <2>1, <2>2, ExceptSeq
  <2> HIDE DEF new, p
  <2>4. \A i \in 1 .. Len(new) : map[new[i].id] = new[i].ver
    <3> SUFFICES ASSUME NEW i \in 1 .. Len(reg) PROVE map[new[i].id] = new[i].ver
      BY <2>3
    <3>1. reg[i].id \in Ids /\ Map(reg)[reg[i].id] = reg[i].ver
      BY MapOfEntry
    <3>2. CASE i = p
      BY <1>2, <2>3, <3>2 DEF Map
    <3>3. CASE i # p
      BY <1>2, <2>1, <2>3, <3>1, <3>3 DEF Map
    <3> QED
      BY <3>2, <3>3
  <2>5. ASSUME NEW id \in Ids, map[id] # Absent PROVE Has(new, id)
    <3>1. Has(reg, id)
      BY <1>2, <1>3, <2>5, MapAt DEF Map
    <3>2. PICK i \in 1 .. Len(reg) : reg[i].id = id
      BY <1>2, <3>1 DEF Has
    <3>3. new[i].id = id
      BY <2>1, <2>3, <3>2
    <3>4. DOMAIN new = 1 .. Len(reg)
      BY <1>1, <2>3, LenProperties DEF Table
    <3> QED
      BY <3>2, <3>3, <3>4 DEF Has
  <2>6. map = [id \in Ids |-> map[id]]
    BY DEF Map
  <2> QED
    BY <1>1, <2>4, <2>5, <2>6, MapIs DEF new
<1>4. CASE ~ Has(reg, e.id)
  <2>1. new = Append(reg, e)
    BY <1>4 DEF Added
  <2>2. /\ Len(new) = Len(reg) + 1
        /\ \A i \in 1 .. Len(reg) : new[i] = reg[i]
        /\ new[Len(reg) + 1] = e
    BY <1>2, <2>1, AppendProperties
  <2>3. \A i \in 1 .. Len(reg) : reg[i].id # e.id
    BY <1>2, <1>4 DEF Has
  <2> HIDE DEF new
  <2>4. \A i \in 1 .. Len(new) : map[new[i].id] = new[i].ver
    <3> SUFFICES ASSUME NEW i \in 1 .. (Len(reg) + 1) PROVE map[new[i].id] = new[i].ver
      BY <2>2
    <3>1. CASE i = Len(reg) + 1
      BY <1>2, <2>2, <3>1 DEF Map
    <3>2. CASE i # Len(reg) + 1
      <4>1. i \in 1 .. Len(reg)
        BY <1>2, <3>2
      <4>2. reg[i].id \in Ids /\ Map(reg)[reg[i].id] = reg[i].ver /\ new[i] = reg[i] /\ reg[i].id # e.id
        BY <2>2, <2>3, <4>1, MapOfEntry
      <4> QED
        BY <4>2 DEF Map
    <3> QED
      BY <3>1, <3>2
  <2>5. ASSUME NEW id \in Ids, map[id] # Absent PROVE Has(new, id)
    <3>1. DOMAIN new = 1 .. (Len(reg) + 1)
      BY <1>1, <2>2, LenProperties DEF Table
    <3>2. CASE id = e.id
      BY <1>2, <2>2, <3>1, <3>2 DEF Has
    <3>3. CASE id # e.id
      <4>1. Has(reg, id)
        BY <2>5, <3>3, MapAt DEF Map
      <4>2. PICK i \in 1 .. Len(reg) : reg[i].id = id
        BY <1>2, <4>1 DEF Has
      <4> QED
        BY <1>2, <2>2, <3>1, <4>2 DEF Has
    <3> QED
      BY <3>2, <3>3
  <2>6. map = [id \in Ids |-> map[id]]
    BY DEF Map
  <2> QED
    BY <1>1, <2>4, <2>5, <2>6, MapIs DEF new
<1> QED
  BY <1>3, <1>4

LEMMA MapWithout ==
    ASSUME NEW reg \in Table, Unique(reg), NEW id \in Ids, Has(reg, id)
    PROVE  Map(Without(reg, id)) = [Map(reg) EXCEPT ![id] = Absent]
<1> DEFINE new == Without(reg, id)
           p == Position(reg, id)
           map == [Map(reg) EXCEPT ![id] = Absent]
<1>1. reg \in Seq(Entry) /\ DOMAIN reg = 1 .. Len(reg) /\ Len(reg) \in Nat
  BY LenProperties DEF Table
<1>2. /\ p \in 1 .. Len(reg) /\ reg[p].id = id
      /\ \A i \in 1 .. Len(reg) : reg[i].id = id => i = p
  BY PositionIsIndex
<1>3. new \in Table /\ Unique(new)
  BY WithoutKeeps
<1>4. /\ Len(new) = Len(reg) - 1
      /\ \A i \in 1 .. Len(reg) - 1 : new[i] = IF i < p THEN reg[i] ELSE reg[i + 1]
  BY WithoutShifts
<1> HIDE DEF new, p
<1>5. \A i \in 1 .. Len(new) : map[new[i].id] = new[i].ver
  <2> SUFFICES ASSUME NEW i \in 1 .. Len(reg) - 1 PROVE map[new[i].id] = new[i].ver
    BY <1>4
  <2>1. PICK j \in 1 .. Len(reg) : j # p /\ new[i] = reg[j]
    <3>1. CASE i < p
      BY <1>1, <1>4, <3>1
    <3>2. CASE ~ (i < p)
      BY <1>1, <1>2, <1>4, <3>2
    <3> QED
      BY <3>1, <3>2
  <2>2. reg[j].id \in Ids /\ Map(reg)[reg[j].id] = reg[j].ver
    BY MapOfEntry
  <2> QED
    BY <1>2, <2>1, <2>2 DEF Map
<1>6. ASSUME NEW k \in Ids, map[k] # Absent PROVE Has(new, k)
  <2>1. k # id /\ Has(reg, k)
    BY <1>6, MapAt DEF Map
  <2>2. PICK j \in 1 .. Len(reg) : reg[j].id = k
    BY <1>1, <2>1 DEF Has
  <2>3. PICK i \in 1 .. Len(reg) - 1 : new[i] = reg[j]
    <3>1. CASE j < p
      BY <1>1, <1>2, <1>4, <3>1
    <3>2. CASE j > p
      <4>1. j - 1 \in 1 .. Len(reg) - 1 /\ ~ (j - 1 < p) /\ (j - 1) + 1 = j
        BY <1>1, <1>2, <3>2
      <4> QED
        BY <1>4, <4>1
    <3> QED
      BY <1>1, <1>2, <2>1, <2>2, <3>1, <3>2
  <2>4. DOMAIN new = 1 .. (Len(reg) - 1)
    BY <1>3, <1>4, LenProperties DEF Table
  <2> QED
    BY <2>2, <2>3, <2>4 DEF Has
<1>7. map = [k \in Ids |-> map[k]]
  BY DEF Map
<1> QED
  BY <1>3, <1>5, <1>6, <1>7, MapIs DEF new

(* A table cut short lists some of the packages, with their versions.       *)
LEMMA MapCut ==
    ASSUME NEW reg \in Table, Unique(reg), NEW part \in Db!CutShort(reg)
    PROVE  Map(part) \in Promise!Remnants(Map(reg))
<1>1. reg \in Seq(Entry) /\ DOMAIN reg = 1 .. Len(reg) /\ Len(reg) \in Nat
  BY LenProperties DEF Table
<1>2. PICK n \in 0 .. (Len(reg) - 1) : part = SubSeq(reg, 1, n)
  BY DEF Db!CutShort
<1>3. \A i \in 1 .. n : reg[i] \in Entry
  BY <1>1, <1>2, ElementOfSeq
<1>4. /\ Len(part) = IF 1 <= n THEN n - 1 + 1 ELSE 0
      /\ \A i \in 1 .. n - 1 + 1 : part[i] = reg[1 + i - 1]
  BY <1>2, <1>3, SubSeqProperties
<1>5. Len(part) = n /\ \A i \in 1 .. n : part[i] = reg[i]
  BY <1>2, <1>4
<1>6. part \in Table /\ Unique(part)
  BY CutKeeps
<1> DEFINE kept == {id \in Ids : Has(part, id)}
           map == [id \in Ids |-> IF id \in kept THEN Map(reg)[id] ELSE Absent]
<1>7. \A i \in 1 .. Len(part) : map[part[i].id] = part[i].ver
  <2> SUFFICES ASSUME NEW i \in 1 .. n PROVE map[part[i].id] = part[i].ver
    BY <1>5
  <2>1. reg[i].id \in Ids /\ Map(reg)[reg[i].id] = reg[i].ver
    BY <1>1, <1>2, MapOfEntry
  <2>2. Has(part, part[i].id)
    BY <1>5, <1>6, LenProperties DEF Has, Table
  <2> QED
    BY <1>5, <2>1, <2>2
<1>8. Map(part) = map
  <2>1. \A id \in Ids : map[id] # Absent => Has(part, id)
    OBVIOUS
  <2>2. map = [id \in Ids |-> map[id]]
    OBVIOUS
  <2> HIDE DEF map
  <2> QED
    BY <1>6, <1>7, <2>1, <2>2, MapIs
<1> QED
  BY <1>8 DEF Promise!Remnants

(* All of a map, and nothing of it, are among its remnants.                 *)
LEMMA AllOrNothing ==
    ASSUME NEW reg
    PROVE  Map(reg) \in Promise!Remnants(Map(reg)) /\ Map(<<>>) \in Promise!Remnants(Map(reg))
<1> DEFINE kept(s) == [id \in Ids |-> IF id \in s THEN Map(reg)[id] ELSE Absent]
<1>1. Map(reg) = kept(Ids)
  BY DEF Map
<1>2. Map(<<>>) = kept({})
  BY MapEmpty
<1>3. ASSUME NEW s \in SUBSET Ids PROVE kept(s) \in Promise!Remnants(Map(reg))
  BY DEF Promise!Remnants
<1>4. Ids \in SUBSET Ids /\ {} \in SUBSET Ids
  OBVIOUS
<1> QED
  <2> HIDE DEF kept
  <2> QED
    BY <1>1, <1>2, <1>3, <1>4

(* A table has as many entries as its map has packages.                     *)
LEMMA SizeOfMap ==
    ASSUME NEW reg \in Table, Unique(reg)
    PROVE  Cardinality({id \in Ids : Map(reg)[id] # Absent}) = Len(reg)
<1> DEFINE S == {id \in Ids : Map(reg)[id] # Absent}
           f == [i \in 1 .. Len(reg) |-> reg[i].id]
<1>1. reg \in Seq(Entry) /\ DOMAIN reg = 1 .. Len(reg) /\ Len(reg) \in Nat
  BY LenProperties DEF Table
<1>2. \A i \in 1 .. Len(reg) : reg[i].id \in S
  BY <1>1, MapOfEntry, MapAt DEF Has
<1>3. \A id \in S : \E i \in 1 .. Len(reg) : f[i] = id
  BY <1>1, MapAt DEF Has
<1>4. f \in Bijection(1 .. Len(reg), S)
  <2>1. f \in [1 .. Len(reg) -> S]
    BY <1>2
  <2>2. IsInjective(f)
    BY <1>1 DEF Unique, IsInjective
  <2> HIDE DEF f, S
  <2> QED
    BY <1>3, <2>1, <2>2 DEF Bijection, Injection, Surjection
<1> HIDE DEF f, S
<1>5. ExistsBijection(1 .. Len(reg), S)
  BY <1>4 DEF ExistsBijection
<1> QED
  BY <1>1, <1>5, FS_CountingElements DEF S

------------------------------------------------------------------------------
(* The refinement: an invariant of the running call, and each DOS call as a *)
(* step of InstalledSet or a stutter.                                       *)

(* g_reg is the change the call asks for; INSTALLED.TMP, once written, is   *)
(* that table or what a fault left of it.                                   *)
Answer ==
    /\ pc # "idle" => Map(g_reg) = [Map(before) EXCEPT ![call.id] = call.ver]
    /\ pc \in {"remove", "rename"} =>
          /\ dbTmp # Absent
          /\ Map(dbTmp) \in Promise!Remnants(Map(g_reg))
          /\ faults = {} => dbTmp = g_reg

PInv == RInv /\ Answer

LEMMA AnswerStep == PInv /\ [Next]_vars => PInv'
<1> SUFFICES ASSUME PInv, [Next]_vars PROVE Answer'
  BY RegistryStep DEF PInv
<1>1. /\ reg_load(db) \in Table /\ Unique(reg_load(db))
      /\ g_reg \in Table /\ Unique(g_reg)
  BY LoadKeeps DEF PInv, RInv, TypeOK, UniqueIds
<1>2. ASSUME NEW e \in Entry, nos_registry_add(e) PROVE Answer'
  <2>1. Has(reg_load(db), e.id) \/ Len(reg_load(db)) < MaxEntries =>
          Map(Added(reg_load(db), e)) = [Map(reg_load(db)) EXCEPT ![e.id] = e.ver]
    BY <1>1, MapAdded
  <2> QED
    BY <1>2, <2>1 DEF nos_registry_add, Modify, ReturnAtOnce, Answer
<1>3. ASSUME NEW id \in Ids, nos_registry_remove(id) PROVE Answer'
  <2>1. Has(reg_load(db), id) =>
          Map(Without(reg_load(db), id)) = [Map(reg_load(db)) EXCEPT ![id] = Absent]
    BY <1>1, MapWithout
  <2> QED
    BY <1>3, <2>1 DEF nos_registry_remove, Modify, ReturnAtOnce, Answer
<1>4. CASE SaveWrite
  <2>1. Map(g_reg) \in Promise!Remnants(Map(g_reg))
    BY AllOrNothing
  <2>2. \A part \in Db!CutShort(g_reg) :
          part # Absent /\ Map(part) \in Promise!Remnants(Map(g_reg))
    BY <1>1, MapCut, CutKeeps, RegistryAssumption DEF RegistryAssumption, Table
  <2>3. g_reg # Absent
    BY <1>1, RegistryAssumption DEF RegistryAssumption, Table
  <2> QED
    BY <1>4, <2>1, <2>2, <2>3
    DEF SaveWrite, FileError, ShortWrite, Db!WriteTmp, Db!WriteTmpShort, PInv, Answer
<1>5. CASE SaveRemove
  BY <1>5 DEF SaveRemove, FileError, Db!RemoveOld, PInv, Answer
<1>6. CASE SaveRename
  BY <1>6 DEF SaveRename, Answer
<1>7. CASE PowerLoss
  BY <1>7 DEF PowerLoss, Answer
<1>8. CASE UNCHANGED vars
  BY <1>8 DEF vars, PInv, Answer
<1> QED
  BY <1>2, <1>3, <1>4, <1>5, <1>6, <1>7, <1>8 DEF Next, Step

(* Before the removal of INSTALLED.DB a program would read the old table,   *)
(* after it the new one.                                                    *)
LEMMA ViewIs ==
    ASSUME PInv
    PROVE  /\ pc = "idle" => View = reg_load(db)
           /\ pc \in {"write", "remove"} => View = before
           /\ pc = "rename" => View = IF db = Absent THEN dbTmp ELSE before
<1>1. dbTmp # Absent => reg_load(dbTmp) = dbTmp
  BY LoadTable DEF PInv, RInv, TypeOK
<1> QED
  BY <1>1 DEF PInv, RInv, Untouched, Answer, View

LEMMA RefinesInit == Init => Promise!Init
<1>1. reg_load(Absent) = <<>>
  BY DEF reg_load
<1>2. ASSUME Init PROVE View = <<>>
  BY <1>1, <1>2 DEF Init, View
<1> QED
  BY <1>2, MapEmpty DEF Init, Promise!Init, Map, Calls, Promise!Calls

(* A call is let in, or refused, as InstalledSet says.                      *)
LEMMA RefinesAllowed ==
    ASSUME PInv, pc = "idle", NEW c \in Calls
    PROVE  Promise!Allowed(c) <=>
              \/ Has(reg_load(db), c.id)
              \/ c.ver # Absent /\ Len(reg_load(db)) < MaxEntries
<1>1. reg_load(db) \in Table /\ Unique(reg_load(db)) /\ View = reg_load(db)
  BY LoadKeeps, ViewIs DEF PInv, RInv, TypeOK, UniqueIds
<1>2. Promise!Registered = {id \in Ids : Map(View)[id] # Absent}
  BY DEF Promise!Registered, Map
<1>3. c.id \in Ids
  BY DEF Calls
<1>4. c.id \in Promise!Registered <=> Has(reg_load(db), c.id)
  BY <1>1, <1>2, <1>3, MapAt
<1>5. Cardinality(Promise!Registered) = Len(reg_load(db))
  BY <1>1, <1>2, SizeOfMap
<1>6. \A S : Promise!Cardinality(S) = Cardinality(S)
  BY DEF Promise!Cardinality, Promise!IsFiniteSet, Cardinality, IsFiniteSet
<1> QED
  BY <1>4, <1>5, <1>6 DEF Promise!Allowed

LEMMA RefinesBegin ==
    ASSUME PInv,
           \/ \E e \in Entry : nos_registry_add(e)
           \/ \E id \in Ids : nos_registry_remove(id)
    PROVE  \E c \in Calls : Promise!Ask(c) \/ Promise!Refuse(c)
<1>1. pc = "idle"
  BY DEF nos_registry_add, nos_registry_remove
<1>2. View' = View
  BY <1>1 DEF nos_registry_add, nos_registry_remove, Modify, ReturnAtOnce, View
<1>3. ASSUME NEW e \in Entry, nos_registry_add(e) PROVE Promise!Ask(e) \/ Promise!Refuse(e)
  <2>1. e \in Calls /\ e.ver # Absent
    BY RegistryAssumption DEF RegistryAssumption, Entry, Calls
  <2>2. Promise!Allowed(e) <=> Has(reg_load(db), e.id) \/ Len(reg_load(db)) < MaxEntries
    BY <1>1, <2>1, RefinesAllowed
  <2>3. CASE Promise!Allowed(e)
    <3>1. Modify(e, Added(reg_load(db), e))
      <4>1. Len(reg_load(db)) < MaxEntries => ~ (Len(reg_load(db)) >= MaxEntries)
        <5>1. reg_load(db) \in Table
          BY LoadKeeps DEF PInv, RInv, TypeOK, UniqueIds
        <5> QED
          BY <5>1, LenProperties, RegistryAssumption DEF RegistryAssumption, Table
      <4> QED
        BY <1>3, <2>2, <2>3, <4>1 DEF nos_registry_add
    <3> QED
      BY <1>1, <1>2, <2>3, <3>1 DEF Modify, Promise!Ask
  <2>4. CASE ~ Promise!Allowed(e)
    <3>1. ReturnAtOnce("full")
      BY <1>3, <2>2, <2>4 DEF nos_registry_add
    <3> QED
      BY <1>1, <1>2, <2>1, <2>4, <3>1 DEF ReturnAtOnce, Promise!Refuse
  <2> QED
    BY <2>3, <2>4
<1>4. ASSUME NEW id \in Ids, nos_registry_remove(id)
      PROVE  \E c \in Calls : Promise!Ask(c) \/ Promise!Refuse(c)
  <2> DEFINE c == [id |-> id, ver |-> Absent]
  <2>1. c \in Calls /\ c.ver = Absent /\ c.id = id
    BY DEF Calls
  <2> HIDE DEF c
  <2>2. Promise!Allowed(c) <=> Has(reg_load(db), id)
    BY <1>1, <2>1, RefinesAllowed
  <2>3. CASE Promise!Allowed(c)
    <3>1. Modify(c, Without(reg_load(db), id))
      BY <1>4, <2>2, <2>3 DEF nos_registry_remove, c
    <3>2. Promise!Ask(c)
      BY <1>1, <1>2, <2>3, <3>1 DEF Modify, Promise!Ask
    <3> QED
      BY <2>1, <3>2
  <2>4. CASE ~ Promise!Allowed(c)
    <3>1. ReturnAtOnce("notfound")
      BY <1>4, <2>2, <2>4 DEF nos_registry_remove
    <3>2. Promise!Refuse(c)
      BY <1>1, <1>2, <2>1, <2>4, <3>1 DEF ReturnAtOnce, Promise!Refuse
    <3> QED
      BY <2>1, <3>2
  <2> QED
    BY <2>3, <2>4
<1>5. \A e \in Entry : e \in Calls
  BY DEF Entry, Calls
<1> QED
  BY <1>3, <1>4, <1>5

(* A step of a fault: the map stays, and so does the phase or it goes back. *)
LEMMA RefinesFault ==
    ASSUME pc # "idle", faults' # {}, UNCHANGED call, rc' \in {rc, "none", "write"},
           \/ Map(View)' \in Promise!Remnants(Map(View))
           \/ Map(View)' \in Promise!Remnants([Map(View) EXCEPT ![call.id] = call.ver])
    PROVE  Promise!Fault
  BY DEF Promise!Fault, Promise!Changed, Map

LEMMA RefinesWrite == ASSUME PInv, SaveWrite PROVE Promise!Fault \/ UNCHANGED Promise!vars
<1>1. View' = View
  BY DEF SaveWrite, Db!WriteTmp, Db!WriteTmpShort, View
<1>2. CASE UNCHANGED <<rc, faults>> /\ pc' = "remove"
  BY <1>1, <1>2 DEF SaveWrite, Promise!vars
<1>3. CASE FileError \/ ShortWrite
  <2>1. Map(View)' \in Promise!Remnants(Map(View))
    BY <1>1, AllOrNothing DEF Map
  <2> QED
    BY <1>3, <2>1, RefinesFault DEF SaveWrite, FileError, ShortWrite
<1> QED
  BY <1>2, <1>3 DEF SaveWrite

LEMMA RefinesRemove == ASSUME PInv, SaveRemove PROVE Promise!Change \/ Promise!Fault
<1> DEFINE Asked == [Map(before) EXCEPT ![call.id] = call.ver]
<1>1. pc = "remove" /\ View = before
  BY ViewIs DEF SaveRemove
<1>2. PInv'
  BY AnswerStep DEF Next, Step
<1>3. View' = IF db' = Absent THEN dbTmp ELSE before
  <2>1. (pc = "rename" => View = IF db = Absent THEN dbTmp ELSE before)'
    <3>1. (dbTmp # Absent => reg_load(dbTmp) = dbTmp)'
      <4>1. dbTmp' # Absent => dbTmp' \in Table
        BY <1>2 DEF PInv, RInv, TypeOK
      <4> QED
        BY <4>1, LoadTable DEF reg_load
    <3> QED
      BY <1>2, <3>1 DEF PInv, RInv, Untouched, Answer, View
  <2> QED
    BY <2>1 DEF SaveRemove, Db!RemoveOld, FileError
<1>4. Map(g_reg) = Asked /\ Map(dbTmp) \in Promise!Remnants(Asked)
  BY <1>1 DEF PInv, Answer
<1>5. CASE faults' = {}
  <2>1. dbTmp = g_reg /\ db' = Absent /\ faults = {}
    BY <1>1, <1>5 DEF SaveRemove, Db!RemoveOld, FileError, PInv, Answer
  <2>2. Map(View') = [Map(View) EXCEPT ![call.id] = call.ver]
    BY <1>1, <1>3, <1>4, <2>1
  <2> QED
    BY <1>1, <1>5, <2>1, <2>2 DEF SaveRemove, Promise!Change, Promise!Changed, Map
<1>6. CASE faults' # {}
  <2>1. \/ Map(View') \in Promise!Remnants(Map(View))
        \/ Map(View') \in Promise!Remnants([Map(View) EXCEPT ![call.id] = call.ver])
    BY <1>1, <1>3, <1>4, AllOrNothing
  <2>2. Map(View)' = Map(View')
    BY DEF Map
  <2> QED
    BY <1>1, <1>6, <2>1, <2>2, RefinesFault DEF SaveRemove
<1> QED
  BY <1>5, <1>6

LEMMA RefinesRename == ASSUME PInv, SaveRename PROVE Promise!Return \/ Promise!Fault
<1>1. pc = "rename"
  BY DEF SaveRename
<1>2. CASE Db!RenameTmp /\ rc' = "ok"
  <2>1. View' = View
    BY <1>1, <1>2 DEF SaveRename, Db!RenameTmp, View
  <2> QED
    BY <1>1, <1>2, <2>1 DEF SaveRename, Db!RenameTmp, Promise!Return
<1>3. CASE rc' = "write" /\ FileError /\ UNCHANGED <<db, dbTmp>>
  <2>1. View' = View \/ View' = <<>>
    BY <1>1, <1>3 DEF SaveRename, View, reg_load
  <2>2. Map(View)' \in Promise!Remnants(Map(View))
    BY <2>1, AllOrNothing DEF Map
  <2> QED
    BY <1>1, <1>3, <2>2, RefinesFault DEF SaveRename, FileError
<1> QED
  BY <1>2, <1>3 DEF SaveRename

LEMMA RefinesPowerLoss == ASSUME PInv, PowerLoss PROVE Promise!Fault
<1>1. View' = View \/ View' = <<>>
  BY DEF PowerLoss, Db!WriteTmpShort, View, reg_load
<1>2. Map(View)' \in Promise!Remnants(Map(View))
  BY <1>1, AllOrNothing DEF Map
<1> QED
  BY <1>2, RefinesFault DEF PowerLoss

(* registry.c does what registry.h promises: its calls and the three DOS    *)
(* calls of reg_save are, for any ids, versions, table size and faults, one *)
(* indivisible update of the set of installed packages.                     *)
THEOREM RegistryImplementsInstalledSet == Spec => ImplementsInstalledSet
<1>1. Init => PInv
  BY RegistryInit DEF PInv, Answer, Init
<1>2. PInv /\ [Next]_vars => [Promise!Next]_Promise!vars
  <2> SUFFICES ASSUME PInv, [Next]_vars PROVE [Promise!Next]_Promise!vars
    OBVIOUS
  <2>1. CASE (\E e \in Entry : nos_registry_add(e)) \/ (\E id \in Ids : nos_registry_remove(id))
    <3>1. PICK c \in Calls : Promise!Ask(c) \/ Promise!Refuse(c)
      BY <2>1, RefinesBegin
    <3>2. c \in Promise!Calls
      BY <3>1 DEF Calls, Promise!Calls
    <3> QED
      BY <3>1, <3>2 DEF Promise!Next
  <2>2. CASE Step
    BY <2>2, RefinesWrite, RefinesRemove, RefinesRename DEF Step, Promise!Next
  <2>3. CASE PowerLoss
    BY <2>3, RefinesPowerLoss DEF Promise!Next
  <2>4. CASE UNCHANGED vars
    BY <2>4 DEF vars, View, Promise!vars
  <2> QED
    BY <2>1, <2>2, <2>3, <2>4 DEF Next
<1> QED
  BY <1>1, <1>2, RefinesInit, AnswerStep, PTL DEF Spec, ImplementsInstalledSet, Promise!Spec
==============================================================================
