--------------------------- MODULE AutoexecProofs ---------------------------
(***************************************************************************)
(* The copy loop of remove_autoexec_block keeps the lines outside the      *)
(* blocks of a package, for a file of any length and any content: also one *)
(* that lost an end marker, or holds blocks inside blocks.                 *)
(***************************************************************************)
EXTENDS AutoexecRewrite, SequenceTheorems, FiniteSetTheorems, TLAPS

(* Before line n a block of p is open.                                      *)
Open(f, p, n) ==
    \E s \in 1 .. (n - 1) :
        /\ f[s] = StartMark(p)
        /\ \A j \in (s + 1) .. (n - 1) : f[j] # EndMark(p)

(* What the loop has done before it reads line pos.                         *)
Copied ==
    /\ orig = auto
    /\ auto \in Seq(Line)
    /\ pos <= Len(auto) + 1
    /\ kept \in Seq(1 .. (pos - 1))
    /\ skipping <=> Open(auto, id, pos)
    /\ \A i \in 1 .. (pos - 1) : (\E k \in DOMAIN kept : kept[k] = i) <=> ~ InBlock(auto, id, i)
    /\ \A j, k \in DOMAIN kept : j < k => kept[j] < kept[k]

LInv == TypeOK /\ (pc = "copy" => Copied)

------------------------------------------------------------------------------
(* Lines and blocks.                                                        *)

LEMMA MarksDiffer == ASSUME NEW p PROVE StartMark(p) # EndMark(p)
  BY DEF StartMark, EndMark

(* A line is in a block when it starts one or one is open before it.        *)
LEMMA InBlockSplit ==
    ASSUME NEW f, NEW p, NEW n \in Nat \ {0}
    PROVE  InBlock(f, p, n) <=> f[n] = StartMark(p) \/ Open(f, p, n)
<1>1. ASSUME InBlock(f, p, n) PROVE f[n] = StartMark(p) \/ Open(f, p, n)
  <2>1. PICK s \in 1 .. n : /\ f[s] = StartMark(p)
                            /\ \A j \in (s + 1) .. (n - 1) : f[j] # EndMark(p)
    BY <1>1 DEF InBlock
  <2>2. CASE s = n
    BY <2>1, <2>2
  <2>3. CASE s # n
    <3>1. s \in 1 .. (n - 1)
      BY <2>3
    <3> QED
      BY <2>1, <3>1 DEF Open
  <2> QED
    BY <2>2, <2>3
<1>2. ASSUME f[n] = StartMark(p) PROVE InBlock(f, p, n)
  <2>1. n \in 1 .. n /\ (n + 1) .. (n - 1) = {}
    OBVIOUS
  <2> QED
    BY <1>2, <2>1 DEF InBlock
<1>3. ASSUME Open(f, p, n) PROVE InBlock(f, p, n)
  <2>1. PICK s \in 1 .. (n - 1) : /\ f[s] = StartMark(p)
                                  /\ \A j \in (s + 1) .. (n - 1) : f[j] # EndMark(p)
    BY <1>3 DEF Open
  <2>2. s \in 1 .. n
    OBVIOUS
  <2> QED
    BY <2>1, <2>2 DEF InBlock
<1> QED
  BY <1>1, <1>2, <1>3

(* How one line opens, keeps open or closes a block.                        *)
LEMMA OpenStep ==
    ASSUME NEW f, NEW p, NEW n \in Nat \ {0}
    PROVE  Open(f, p, n + 1) <=>
             f[n] = StartMark(p) \/ (Open(f, p, n) /\ f[n] # EndMark(p))
<1>1. ASSUME Open(f, p, n + 1) PROVE f[n] = StartMark(p) \/ (Open(f, p, n) /\ f[n] # EndMark(p))
  <2>1. PICK s \in 1 .. n : /\ f[s] = StartMark(p)
                            /\ \A j \in (s + 1) .. n : f[j] # EndMark(p)
    BY <1>1 DEF Open
  <2>2. CASE s = n
    BY <2>1, <2>2
  <2>3. CASE s # n
    <3>1. s \in 1 .. (n - 1) /\ n \in (s + 1) .. n /\ \A j \in (s + 1) .. (n - 1) : j \in (s + 1) .. n
      BY <2>3
    <3> QED
      BY <2>1, <3>1 DEF Open
  <2> QED
    BY <2>2, <2>3
<1>2. ASSUME f[n] = StartMark(p) PROVE Open(f, p, n + 1)
  <2>1. n \in 1 .. ((n + 1) - 1) /\ (n + 1) .. ((n + 1) - 1) = {}
    OBVIOUS
  <2> QED
    BY <1>2, <2>1 DEF Open
<1>3. ASSUME Open(f, p, n), f[n] # EndMark(p) PROVE Open(f, p, n + 1)
  <2>1. PICK s \in 1 .. (n - 1) : /\ f[s] = StartMark(p)
                                  /\ \A j \in (s + 1) .. (n - 1) : f[j] # EndMark(p)
    BY <1>3 DEF Open
  <2>2. /\ s \in 1 .. ((n + 1) - 1)
        /\ \A j \in (s + 1) .. ((n + 1) - 1) : j \in (s + 1) .. (n - 1) \/ j = n
    OBVIOUS
  <2> QED
    BY <1>3, <2>1, <2>2 DEF Open
<1> QED
  BY <1>1, <1>2, <1>3

LEMMA BlockType == ASSUME NEW p \in Ids PROVE Block(p) \in Seq(Line)
<1>1. EmptyLine \in Line /\ StartMark(p) \in Line /\ SetLine(p) \in Line /\ EndMark(p) \in Line
  BY DEF EmptyLine, StartMark, SetLine, EndMark, Line
<1> QED
  BY <1>1 DEF Block

LEMMA CutType ==
    ASSUME NEW text \in Seq(Line), NEW part \in File!CutShort(text)
    PROVE  part \in Seq(Line)
<1>1. PICK n \in 0 .. (Len(text) - 1) : part = SubSeq(text, 1, n)
  BY DEF File!CutShort
<1>2. \A i \in 1 .. n : text[i] \in Line
  BY <1>1, ElementOfSeq, LenProperties
<1> QED
  BY <1>1, <1>2, SubSeqProperties

LEMMA LinesType ==
    ASSUME NEW f \in Seq(Line), NEW ks \in Seq(DOMAIN f)
    PROVE  Lines(f, ks) \in Seq(Line)
<1>1. DOMAIN ks = 1 .. Len(ks) /\ Len(ks) \in Nat
  BY LenProperties
<1>2. \A k \in 1 .. Len(ks) : f[ks[k]] \in Line
  BY <1>1, ElementOfSeq, LenProperties
<1> QED
  BY <1>1, <1>2 DEF Lines

------------------------------------------------------------------------------
LEMMA LoopInit == Init => LInv
<1> SUFFICES ASSUME Init PROVE LInv
  OBVIOUS
<1>1. auto \in Seq(Line)
  <2>1. CASE auto = <<>>
    BY <2>1
  <2>2. CASE auto \in {<<UserLine(u)>> : u \in Own}
    <3>1. PICK u \in Own : auto = <<UserLine(u)>>
      BY <2>2
    <3>2. UserLine(u) \in Line
      BY DEF UserLine, Line
    <3> QED
      BY <3>1, <3>2
  <2> QED
    BY <2>1, <2>2 DEF Init
<1>2. /\ autoTmp = Absent /\ pc = "idle" /\ id \in Ids /\ pos = 1 /\ skipping = FALSE
      /\ kept = <<>> /\ orig = <<>> /\ torn = 0
  BY DEF Init
<1>3. orig \in Seq(Line) /\ kept \in Seq(DOMAIN orig)
  <2>1. <<>> \in Seq(Line) /\ <<>> \in Seq(DOMAIN orig)
    BY EmptySeq
  <2> QED
    BY <1>2, <2>1, Zenon
<1>4. skipping \in BOOLEAN
  BY <1>2, Zenon
<1>5. torn \in 0 .. MaxTorn
  BY <1>2, AutoexecAssumption DEF AutoexecAssumption
<1>6. pos \in Nat \ {0} /\ pc \in {"idle", "copy", "remove", "rename"} /\ pc # "copy"
  BY <1>2
<1> QED
  BY <1>1, <1>2, <1>3, <1>4, <1>5, <1>6, Zenon DEF LInv, TypeOK

(* One line of the loop.                                                    *)
LEMMA LoopStep ==
    ASSUME LInv, ReadLine
    PROVE  LInv'
<1>1. /\ Copied /\ TypeOK /\ pc = "copy" /\ pc' = "copy"
      /\ pos \in 1 .. Len(auto) /\ Len(auto) \in Nat /\ pos' = pos + 1
      /\ auto' = auto /\ autoTmp' = autoTmp /\ id' = id /\ orig' = orig /\ torn' = torn
  BY LenProperties DEF ReadLine, LInv, TypeOK, Copied
<1>2. DOMAIN kept = 1 .. Len(kept) /\ Len(kept) \in Nat
  BY <1>1, LenProperties DEF Copied
<1>3. /\ InBlock(auto, id, pos) <=> auto[pos] = StartMark(id) \/ Open(auto, id, pos)
      /\ Open(auto, id, pos + 1) <=>
            auto[pos] = StartMark(id) \/ (Open(auto, id, pos) /\ auto[pos] # EndMark(id))
  <2>1. pos \in Nat \ {0}
    BY <1>1
  <2>2. InBlock(auto, id, pos) <=> auto[pos] = StartMark(id) \/ Open(auto, id, pos)
    BY <2>1, InBlockSplit
  <2>3. Open(auto, id, pos + 1) <=>
            auto[pos] = StartMark(id) \/ (Open(auto, id, pos) /\ auto[pos] # EndMark(id))
    BY <2>1, OpenStep
  <2> QED
    BY <2>2, <2>3
<1>4. CASE skipping \/ auto[pos] = StartMark(id)
  <2>1. kept' = kept /\ InBlock(auto, id, pos)
    BY <1>1, <1>3, <1>4 DEF ReadLine, CopyOrSkip, Copied
  <2>2. skipping' \in BOOLEAN /\ (skipping' <=> Open(auto, id, pos + 1))
    BY <1>1, <1>3, <1>4, MarksDiffer DEF ReadLine, CopyOrSkip, Copied
  <2>3. kept \in Seq(1 .. pos) /\ kept \in Seq(1 .. (pos - 1))
    <3>1. 1 .. (pos - 1) \subseteq 1 .. pos
      BY <1>1
    <3> QED
      BY <1>1, <3>1, SeqMonotonic DEF Copied
  <2>4. \A k \in DOMAIN kept : kept[k] # pos
    BY <1>1, <1>2, <2>3, ElementOfSeq
  <2>5. \A i \in 1 .. pos : (\E k \in DOMAIN kept : kept[k] = i) <=> ~ InBlock(auto, id, i)
    <3> SUFFICES ASSUME NEW i \in 1 .. pos
                 PROVE  (\E k \in DOMAIN kept : kept[k] = i) <=> ~ InBlock(auto, id, i)
      OBVIOUS
    <3>1. CASE i = pos
      BY <2>1, <2>4, <3>1
    <3>2. CASE i # pos
      <4>1. i \in 1 .. (pos - 1)
        BY <1>1, <3>2
      <4> QED
        BY <1>1, <4>1 DEF Copied
    <3> QED
      BY <3>1, <3>2
  <2>6. pos' - 1 = pos /\ pos' <= Len(auto) + 1 /\ pos' \in Nat \ {0}
    BY <1>1
  <2> QED
    BY <1>1, <2>1, <2>2, <2>3, <2>5, <2>6 DEF LInv, TypeOK, Copied
<1>5. CASE ~ skipping /\ auto[pos] # StartMark(id)
  <2>1. kept' = Append(kept, pos) /\ skipping' = skipping /\ ~ InBlock(auto, id, pos)
    BY <1>1, <1>3, <1>5 DEF ReadLine, CopyOrSkip, Copied
  <2>2. skipping <=> Open(auto, id, pos + 1)
    BY <1>1, <1>3, <1>5 DEF Copied
  <2>3. kept \in Seq(1 .. pos) /\ \A k \in 1 .. Len(kept) : kept[k] \in 1 .. (pos - 1)
    <3>1. 1 .. (pos - 1) \subseteq 1 .. pos
      BY <1>1
    <3> QED
      BY <1>1, <3>1, SeqMonotonic, ElementOfSeq DEF Copied
  <2>4. /\ kept' \in Seq(1 .. pos)
        /\ Len(kept') = Len(kept) + 1
        /\ \A k \in 1 .. Len(kept) : kept'[k] = kept[k]
        /\ kept'[Len(kept) + 1] = pos
    <3>1. pos \in 1 .. pos
      BY <1>1
    <3> QED
      BY <2>1, <2>3, <3>1, AppendProperties
  <2>5. DOMAIN kept' = 1 .. (Len(kept) + 1)
    BY <2>4, LenProperties
  <2>6. \A i \in 1 .. pos : (\E k \in DOMAIN kept' : kept'[k] = i) <=> ~ InBlock(auto, id, i)
    <3> SUFFICES ASSUME NEW i \in 1 .. pos
                 PROVE  (\E k \in DOMAIN kept' : kept'[k] = i) <=> ~ InBlock(auto, id, i)
      OBVIOUS
    <3>1. CASE i = pos
      <4>1. Len(kept) + 1 \in DOMAIN kept'
        BY <1>2, <2>5
      <4> QED
        BY <2>1, <2>4, <3>1, <4>1
    <3>2. CASE i # pos
      <4>1. i \in 1 .. (pos - 1)
        BY <1>1, <3>2
      <4>2. (\E k \in DOMAIN kept' : kept'[k] = i) <=> (\E k \in DOMAIN kept : kept[k] = i)
        BY <1>2, <2>4, <2>5, <3>2
      <4> QED
        BY <1>1, <4>1, <4>2 DEF Copied
    <3> QED
      BY <3>1, <3>2
  <2>7. \A j, k \in DOMAIN kept' : j < k => kept'[j] < kept'[k]
    <3> SUFFICES ASSUME NEW j \in 1 .. (Len(kept) + 1), NEW k \in 1 .. (Len(kept) + 1), j < k
                 PROVE  kept'[j] < kept'[k]
      BY <2>5
    <3>1. j \in 1 .. Len(kept) /\ kept'[j] = kept[j]
      BY <1>2, <2>4
    <3>2. CASE k = Len(kept) + 1
      BY <1>1, <2>3, <2>4, <3>1, <3>2
    <3>3. CASE k \in 1 .. Len(kept)
      BY <1>1, <1>2, <2>4, <3>1, <3>3 DEF Copied
    <3> QED
      BY <1>2, <3>2, <3>3
  <2>8. pos' - 1 = pos /\ pos' <= Len(auto) + 1 /\ pos' \in Nat \ {0}
    BY <1>1
  <2>9. kept' \in Seq(DOMAIN orig)
    <3>1. DOMAIN orig = 1 .. Len(auto)
      BY <1>1, LenProperties DEF Copied
    <3>2. 1 .. pos \subseteq 1 .. Len(auto)
      BY <1>1
    <3> QED
      BY <2>4, <3>1, <3>2, SeqMonotonic
  <2> QED
    BY <1>1, <2>1, <2>2, <2>4, <2>6, <2>7, <2>8, <2>9 DEF LInv, TypeOK, Copied
<1> QED
  BY <1>4, <1>5

(* The removal is over, by its last step or for want of power.              *)
LEMMA ReturnKeeps ==
    ASSUME LInv, LocalsGone, UNCHANGED <<id, orig, torn>>, pc' = "idle",
           auto' = Absent \/ auto' \in Seq(Line),
           autoTmp' = Absent \/ autoTmp' \in Seq(Line)
    PROVE  LInv'
<1>1. orig' \in Seq(Line) /\ id' \in Ids /\ torn' \in 0 .. MaxTorn
  BY DEF LInv, TypeOK
<1>2. kept' \in Seq(DOMAIN orig')
  <2>1. <<>> \in Seq(DOMAIN orig')
    BY EmptySeq
  <2> QED
    BY <2>1, Zenon DEF LocalsGone
<1>3. skipping' \in BOOLEAN
  BY Zenon DEF LocalsGone
<1>4. pos' \in Nat \ {0} /\ pc' \in {"idle", "copy", "remove", "rename"} /\ pc' # "copy"
  BY DEF LocalsGone
<1> QED
  BY <1>1, <1>2, <1>3, <1>4, Zenon DEF LInv, TypeOK

LEMMA ShortKeeps == ASSUME torn \in 0 .. MaxTorn, Short PROVE torn' \in 0 .. MaxTorn
  BY AutoexecAssumption DEF AutoexecAssumption, Short

LEMMA LoopNext == LInv /\ [Next]_vars => LInv'
<1> SUFFICES ASSUME LInv, [Next]_vars PROVE LInv'
  OBVIOUS
<1>1. Text(auto) \in Seq(Line)
  BY DEF LInv, TypeOK, Text
<1>2. ASSUME NEW p \in Ids, nos_update_autoexec(p) PROVE LInv'
  <2>1. auto' \in Seq(Line)
    <3>1. CASE Grown(Block(p)) /\ UNCHANGED torn
      BY <1>1, <3>1, BlockType, ConcatProperties DEF Grown
    <3>2. CASE \E part \in File!CutShort(Block(p)) : Grown(part)
      BY <1>1, <3>2, BlockType, CutType, ConcatProperties DEF Grown
    <3> QED
      BY <1>2, <3>1, <3>2 DEF nos_update_autoexec
  <2> QED
    BY <1>2, <2>1, ShortKeeps DEF nos_update_autoexec, LInv, TypeOK
<1>3. ASSUME NEW u \in Own, UserEdit(u) PROVE LInv'
  <2>1. UserLine(u) \in Line
    BY DEF UserLine, Line
  <2>2. auto' \in Seq(Line)
    BY <1>1, <1>3, <2>1, ConcatProperties DEF UserEdit, Grown
  <2> QED
    BY <1>3, <2>2 DEF UserEdit, LInv, TypeOK
<1>4. ASSUME NEW p \in Ids, BeginRemove(p) PROVE LInv'
  <2>1. /\ auto' \in Seq(Line) /\ orig' = auto' /\ pos' = 1 /\ kept' = <<>> /\ skipping' = FALSE
        /\ Len(auto') \in Nat
    BY <1>4, LenProperties DEF BeginRemove, LInv, TypeOK
  <2>2. ~ Open(auto', id', pos')
    BY <2>1 DEF Open
  <2>3. 1 .. (pos' - 1) = {} /\ pos' <= Len(auto') + 1 /\ <<>> \in Seq(1 .. (pos' - 1))
    BY <2>1
  <2>4. Copied'
    BY <2>1, <2>2, <2>3 DEF Copied
  <2>5. autoTmp' = <<>> /\ id' \in Ids /\ pc' = "copy"
    BY <1>4 DEF BeginRemove
  <2>6. autoTmp' \in Seq(Line) /\ orig' \in Seq(Line) /\ kept' \in Seq(DOMAIN orig')
    <3>1. <<>> \in Seq(Line) /\ <<>> \in Seq(DOMAIN orig')
      BY EmptySeq
    <3> QED
      BY <2>1, <2>5, <3>1, Zenon
  <2>7. skipping' \in BOOLEAN /\ torn' \in 0 .. MaxTorn
    <3>1. torn' \in 0 .. MaxTorn
      BY <1>4 DEF BeginRemove, LInv, TypeOK
    <3> QED
      BY <2>1, <3>1, Zenon
  <2>8. pos' \in Nat \ {0} /\ pc' \in {"idle", "copy", "remove", "rename"}
    BY <2>1, <2>5
  <2>9. TypeOK'
    BY <2>1, <2>5, <2>6, <2>7, <2>8, Zenon DEF TypeOK
  <2> QED
    BY <2>4, <2>9 DEF LInv
<1>5. CASE ReadLine
  BY <1>5, LoopStep
<1>6. CASE CloseCopy
  <2>1. Lines(auto, kept) \in Seq(Line)
    BY <1>6, LinesType DEF CloseCopy, LInv, TypeOK, Copied
  <2>2. autoTmp' \in Seq(Line) /\ auto' = auto
    BY <1>6, <2>1, CutType DEF CloseCopy, File!WriteTmp, File!WriteTmpShort
  <2> QED
    BY <1>6, <2>2, ShortKeeps DEF CloseCopy, LInv, TypeOK
<1>7. CASE RemoveAuto
  BY <1>7 DEF RemoveAuto, File!RemoveOld, LInv, TypeOK
<1>8. CASE RenameAuto
  <2>1. /\ auto' = Absent \/ auto' \in Seq(Line)
        /\ autoTmp' = Absent \/ autoTmp' \in Seq(Line)
    BY <1>8 DEF RenameAuto, File!RenameTmp, LInv, TypeOK
  <2> QED
    BY <1>8, <2>1, ReturnKeeps DEF RenameAuto
<1>9. CASE PowerLoss
  <2>1. CASE UNCHANGED <<auto, autoTmp>>
    <3>1. (auto' = Absent \/ auto' \in Seq(Line)) /\ (autoTmp' = Absent \/ autoTmp' \in Seq(Line))
      BY <2>1 DEF LInv, TypeOK
    <3> QED
      BY <1>9, <3>1, ReturnKeeps DEF PowerLoss
  <2>2. CASE pc = "copy" /\ File!WriteTmpShort(Lines(auto, kept))
    <3>1. Lines(auto, kept) \in Seq(Line)
      BY <2>2, LinesType DEF LInv, TypeOK, Copied
    <3>2. auto' \in Seq(Line) /\ autoTmp' \in Seq(Line)
      BY <2>2, <3>1, CutType DEF File!WriteTmpShort, LInv, Copied
    <3> QED
      BY <1>9, <3>2, ReturnKeeps DEF PowerLoss
  <2> QED
    BY <1>9, <2>1, <2>2 DEF PowerLoss
<1>10. CASE UNCHANGED vars
  BY <1>10 DEF vars, LInv, TypeOK, Copied
<1> QED
  BY <1>2, <1>3, <1>4, <1>5, <1>6, <1>7, <1>8, <1>9, <1>10 DEF Next, Step

LEMMA LoopInvariant == Spec => []LInv
  BY LoopInit, LoopNext, PTL DEF Spec

(* Type correctness of the append and the rewrite of AUTOEXEC.BAT.          *)
THEOREM AutoexecTypeOK == Spec => []TypeOK
<1>1. LInv => TypeOK
  BY DEF LInv
<1> QED
  BY LoopInvariant, <1>1, PTL

(* The loop of remove_autoexec_block with its one flag copies, in order,    *)
(* exactly the lines outside the blocks of the package.                     *)
THEOREM AutoexecCopiesOutsideBlocks == Spec => []CopiesOutsideBlocks
<1>1. LInv => CopiesOutsideBlocks
  <2> SUFFICES ASSUME LInv, pc = "copy", pos > Len(auto)
               PROVE  /\ \A i \in DOMAIN auto :
                            (\E k \in DOMAIN kept : kept[k] = i) <=> ~ InBlock(auto, id, i)
                      /\ \A j, k \in DOMAIN kept : j < k => kept[j] < kept[k]
    BY DEF CopiesOutsideBlocks
  <2>1. Copied /\ pos \in Nat /\ Len(auto) \in Nat /\ DOMAIN auto = 1 .. Len(auto)
    BY LenProperties DEF LInv, TypeOK, Copied
  <2>2. DOMAIN auto = 1 .. (pos - 1)
    BY <2>1 DEF Copied
  <2> QED
    BY <2>1, <2>2 DEF Copied
<1> QED
  BY LoopInvariant, <1>1, PTL

------------------------------------------------------------------------------
(* An ordered list of the numbers in a set picks their lines.               *)
LEMMA LinesArePicked ==
    ASSUME NEW f, NEW S \in SUBSET Nat, NEW ks \in Seq(S),
           \A i \in S : \E k \in 1 .. Len(ks) : ks[k] = i,
           \A j, k \in 1 .. Len(ks) : j < k => ks[j] < ks[k]
    PROVE  Lines(f, ks) = Picked(f, S)
<1> DEFINE n == Len(ks)
           Before(i) == {j \in S : j < i}
           at(k) == CHOOSE i \in S : Cardinality(Before(i)) = k - 1
<1>1. n \in Nat /\ DOMAIN ks = 1 .. n /\ \A k \in 1 .. n : ks[k] \in S
  BY LenProperties, ElementOfSeq
<1> HIDE DEF n
<1>2. ASSUME NEW j \in 1 .. n, NEW k \in 1 .. n, ks[j] = ks[k] PROVE j = k
  <2>1. ks[j] \in Nat /\ ks[k] \in Nat
    BY <1>1
  <2>2. (j < k => ks[j] < ks[k]) /\ (k < j => ks[k] < ks[j])
    BY DEF n
  <2> QED
    BY <1>1, <1>2, <2>1, <2>2
<1>3. ASSUME NEW m \in 0 .. n
      PROVE  /\ IsFiniteSet({ks[l] : l \in 1 .. m}) /\ Cardinality({ks[l] : l \in 1 .. m}) = m
  <2> DEFINE part == {ks[l] : l \in 1 .. m}
             g == [l \in 1 .. m |-> ks[l]]
  <2>1. m \in Nat /\ \A l \in 1 .. m : l \in 1 .. n
    BY <1>1, <1>3
  <2>2. g \in Surjection(1 .. m, part)
    BY DEF Surjection
  <2>3. g \in Injection(1 .. m, part)
    BY <1>2, <2>1 DEF Injection, IsInjective
  <2>4. IsFiniteSet(1 .. m) /\ Cardinality(1 .. m) = m
    <3>1. 1 \in Int /\ m \in Int
      BY <2>1
    <3>2. IsFiniteSet(1 .. m) /\ Cardinality(1 .. m) = IF 1 > m THEN 0 ELSE m - 1 + 1
      BY <3>1, FS_Interval
    <3> QED
      BY <2>1, <3>2
  <2> HIDE DEF part, g
  <2>5. IsFiniteSet(part) /\ Cardinality(part) = Cardinality(1 .. m)
    BY <2>2, <2>3, <2>4, FS_Surjection
  <2> QED
    BY <2>4, <2>5 DEF part
<1>4. Cardinality(S) = n /\ IsFiniteSet(S)
  <2>1. S = {ks[l] : l \in 1 .. n}
    BY <1>1 DEF n
  <2>2. n \in 0 .. n
    BY <1>1
  <2> QED
    BY <1>3, <2>1, <2>2
<1>5. ASSUME NEW k \in 1 .. n PROVE Cardinality(Before(ks[k])) = k - 1
  <2>1. k - 1 \in 0 .. n
    BY <1>1, <1>5
  <2>2. Before(ks[k]) = {ks[l] : l \in 1 .. (k - 1)}
    <3>1. ASSUME NEW l \in 1 .. (k - 1) PROVE ks[l] \in Before(ks[k])
      BY <1>1, <1>5, <3>1 DEF n
    <3>2. ASSUME NEW i \in Before(ks[k]) PROVE \E l \in 1 .. (k - 1) : i = ks[l]
      <4>1. PICK l \in 1 .. n : ks[l] = i
        BY <3>2 DEF n
      <4>2. ks[l] \in Nat /\ ks[k] \in Nat /\ ks[l] < ks[k]
        BY <1>1, <1>5, <3>2, <4>1
      <4>3. ~ (k < l) /\ k # l
        BY <1>5, <4>1, <4>2 DEF n
      <4>4. l \in 1 .. (k - 1)
        BY <1>1, <1>5, <4>1, <4>3
      <4> QED
        BY <4>1, <4>4
    <3> QED
      BY <3>1, <3>2
  <2> QED
    BY <1>3, <2>1, <2>2
<1>6. ASSUME NEW k \in 1 .. n PROVE at(k) = ks[k]
  <2>1. at(k) \in S /\ Cardinality(Before(at(k))) = k - 1
    BY <1>1, <1>5, <1>6
  <2> HIDE DEF at, Before
  <2>2. PICK l \in 1 .. n : at(k) = ks[l]
    BY <2>1 DEF n
  <2>3. l - 1 = k - 1
    BY <1>5, <2>1, <2>2
  <2> QED
    BY <1>1, <1>6, <2>2, <2>3
<1>7. Picked(f, S) = [k \in 1 .. n |-> f[at(k)]]
  BY <1>4 DEF Picked
<1> HIDE DEF at
<1> QED
  BY <1>1, <1>6, <1>7 DEF Lines

------------------------------------------------------------------------------
(* A file nobody cut short: the lines of a block stand together.            *)
Whole(f) ==
    \A i \in 1 .. Len(f) :
        /\ f[i].kind = "start" =>
              i + 2 <= Len(f) /\ f[i + 1] = SetLine(f[i].of) /\ f[i + 2] = EndMark(f[i].of)
        /\ f[i].kind = "set" => i > 1 /\ f[i - 1] = StartMark(f[i].of)
        /\ f[i].kind = "end" => i > 2 /\ f[i - 2] = StartMark(f[i].of)

Others(f, p) == {i \in DOMAIN f : f[i].kind \in {"user", "empty"} \/ f[i].of # p}

LEMMA KindsOfLines ==
    ASSUME NEW l \in Line
    PROVE  /\ l.kind \in {"user", "empty", "start", "set", "end"}
           /\ l.kind = "start" => l = StartMark(l.of)
           /\ l.kind = "set" => l = SetLine(l.of)
           /\ l.kind = "end" => l = EndMark(l.of)
  BY DEF Line, StartMark, SetLine, EndMark

LEMMA KindsOfMarks ==
    ASSUME NEW p
    PROVE  /\ EmptyLine.kind = "empty" /\ UserLine(p).kind = "user"
           /\ StartMark(p).kind = "start" /\ StartMark(p).of = p
           /\ SetLine(p).kind = "set" /\ SetLine(p).of = p
           /\ EndMark(p).kind = "end" /\ EndMark(p).of = p
  BY DEF EmptyLine, UserLine, StartMark, SetLine, EndMark

(* In such a file the lines inside a block of p are the lines of p.         *)
LEMMA OwnLines ==
    ASSUME NEW f \in Seq(Line), Whole(f), NEW p
    PROVE  Others(f, p) = {i \in DOMAIN f : ~ InBlock(f, p, i)}
<1>1. DOMAIN f = 1 .. Len(f) /\ Len(f) \in Nat /\ \A i \in 1 .. Len(f) : f[i] \in Line
  BY LenProperties, ElementOfSeq
<1>2. ASSUME NEW i \in 1 .. Len(f), InBlock(f, p, i) PROVE f[i].kind \in {"start", "set", "end"} /\ f[i].of = p
  <2>1. PICK s \in 1 .. i : f[s] = StartMark(p) /\ \A j \in (s + 1) .. (i - 1) : f[j] # EndMark(p)
    BY <1>2 DEF InBlock
  <2>2. s \in 1 .. Len(f) /\ f[s].kind = "start" /\ f[s].of = p
    BY <1>1, <2>1, KindsOfMarks
  <2>3. s + 2 <= Len(f) /\ f[s + 1] = SetLine(p) /\ f[s + 2] = EndMark(p)
    BY <2>2 DEF Whole
  <2>4. ~ (s + 2 <= i - 1)
    <3>1. s + 2 <= i - 1 => s + 2 \in (s + 1) .. (i - 1)
      BY <1>1
    <3> QED
      BY <2>1, <2>3, <3>1
  <2>5. i = s \/ i = s + 1 \/ i = s + 2
    BY <1>1, <2>4
  <2> QED
    BY <2>2, <2>3, <2>5, KindsOfMarks
<1>3. ASSUME NEW i \in 1 .. Len(f), f[i].kind \in {"start", "set", "end"}, f[i].of = p PROVE InBlock(f, p, i)
  <2>1. f[i] \in Line
    BY <1>1
  <2>2. CASE f[i].kind = "start"
    <3>1. f[i] = StartMark(p) /\ i \in 1 .. i /\ (i + 1) .. (i - 1) = {}
      BY <1>3, <2>1, <2>2, KindsOfLines
    <3> QED
      BY <3>1 DEF InBlock
  <2>3. CASE f[i].kind = "set"
    <3>1. i > 1 /\ f[i - 1] = StartMark(p)
      BY <1>3, <2>3 DEF Whole
    <3>2. i - 1 \in 1 .. i /\ ((i - 1) + 1) .. (i - 1) = {}
      BY <1>1, <3>1
    <3> QED
      BY <3>1, <3>2 DEF InBlock
  <2>4. CASE f[i].kind = "end"
    <3>1. i > 2 /\ f[i - 2] = StartMark(p)
      BY <1>3, <2>4 DEF Whole
    <3>2. i - 2 \in 1 .. Len(f) /\ f[i - 2].kind = "start" /\ f[i - 2].of = p
      BY <1>1, <3>1, KindsOfMarks
    <3>3. f[(i - 2) + 1] = SetLine(p)
      BY <3>2 DEF Whole
    <3>4. i - 2 \in 1 .. i /\ \A j \in ((i - 2) + 1) .. (i - 1) : j = (i - 2) + 1
      BY <1>1, <3>1
    <3>5. SetLine(p) # EndMark(p)
      BY KindsOfMarks
    <3> QED
      BY <3>1, <3>3, <3>4, <3>5 DEF InBlock
  <2> QED
    BY <1>3, <2>2, <2>3, <2>4
<1>4. \A i \in 1 .. Len(f) : f[i].kind \in {"user", "empty", "start", "set", "end"}
  BY <1>1, KindsOfLines
<1>5. ASSUME NEW i \in 1 .. Len(f) PROVE (f[i].kind \in {"user", "empty"} \/ f[i].of # p) <=> ~ InBlock(f, p, i)
  BY <1>2, <1>3, <1>4
<1> QED
  BY <1>1, <1>5 DEF Others

LEMMA WholeTogether ==
    ASSUME NEW f \in Seq(Line), Whole(f), NEW g \in Seq(Line), Whole(g)
    PROVE  Whole(f \o g)
<1> DEFINE new == f \o g
           n == Len(f)
           m == Len(g)
<1>1. n \in Nat /\ m \in Nat
  BY LenProperties
<1>2. /\ Len(new) = n + m
      /\ \A i \in 1 .. n + m : new[i] = IF i <= n THEN f[i] ELSE g[i - n]
  BY ConcatProperties
<1> HIDE DEF new
<1>3. \A i \in 1 .. n : i \in 1 .. n + m /\ new[i] = f[i]
  BY <1>1, <1>2
<1>4. \A i \in 1 .. m : n + i \in 1 .. n + m /\ new[n + i] = g[i]
  <2> TAKE i \in 1 .. m
  <2>1. n + i \in 1 .. n + m /\ ~ (n + i <= n) /\ (n + i) - n = i
    BY <1>1
  <2> QED
    BY <1>2, <2>1
<1>5. ASSUME NEW h, NEW d \in Nat, NEW k \in Nat, Whole(h), Len(h) = k, d + k <= n + m,
             \A i \in 1 .. k : new[d + i] = h[i],
             NEW i \in 1 .. k
      PROVE  /\ h[i].kind = "start" =>
                   (d + i) + 2 <= n + m /\ new[(d + i) + 1] = SetLine(h[i].of) /\ new[(d + i) + 2] = EndMark(h[i].of)
             /\ h[i].kind = "set" => d + i > 1 /\ new[(d + i) - 1] = StartMark(h[i].of)
             /\ h[i].kind = "end" => d + i > 2 /\ new[(d + i) - 2] = StartMark(h[i].of)
  <2>1. ASSUME h[i].kind = "start"
        PROVE  (d + i) + 2 <= n + m /\ new[(d + i) + 1] = SetLine(h[i].of) /\ new[(d + i) + 2] = EndMark(h[i].of)
    <3>1. i + 2 <= k /\ h[i + 1] = SetLine(h[i].of) /\ h[i + 2] = EndMark(h[i].of)
      BY <1>5, <2>1 DEF Whole
    <3>2. i + 1 \in 1 .. k /\ i + 2 \in 1 .. k /\ d + (i + 1) = (d + i) + 1 /\ d + (i + 2) = (d + i) + 2
          /\ (d + i) + 2 <= n + m
      BY <1>1, <1>5, <3>1
    <3> QED
      BY <1>5, <3>1, <3>2
  <2>2. ASSUME h[i].kind = "set" PROVE d + i > 1 /\ new[(d + i) - 1] = StartMark(h[i].of)
    <3>1. i > 1 /\ h[i - 1] = StartMark(h[i].of)
      BY <1>5, <2>2 DEF Whole
    <3>2. i - 1 \in 1 .. k /\ d + (i - 1) = (d + i) - 1 /\ d + i > 1
      BY <1>5, <3>1
    <3> QED
      BY <1>5, <3>1, <3>2
  <2>3. ASSUME h[i].kind = "end" PROVE d + i > 2 /\ new[(d + i) - 2] = StartMark(h[i].of)
    <3>1. i > 2 /\ h[i - 2] = StartMark(h[i].of)
      BY <1>5, <2>3 DEF Whole
    <3>2. i - 2 \in 1 .. k /\ d + (i - 2) = (d + i) - 2 /\ d + i > 2
      BY <1>5, <3>1
    <3> QED
      BY <1>5, <3>1, <3>2
  <2> QED
    BY <2>1, <2>2, <2>3
<1>6. ASSUME NEW j \in 1 .. n + m
      PROVE  /\ new[j].kind = "start" =>
                   j + 2 <= n + m /\ new[j + 1] = SetLine(new[j].of) /\ new[j + 2] = EndMark(new[j].of)
             /\ new[j].kind = "set" => j > 1 /\ new[j - 1] = StartMark(new[j].of)
             /\ new[j].kind = "end" => j > 2 /\ new[j - 2] = StartMark(new[j].of)
  <2>1. CASE j <= n
    <3>1. j \in 1 .. n /\ 0 + j = j /\ 0 + n <= n + m /\ 0 \in Nat
      BY <1>1, <2>1
    <3>2. \A i \in 1 .. n : new[0 + i] = f[i]
      BY <1>1, <1>3
    <3>3. /\ f[j].kind = "start" =>
                   (0 + j) + 2 <= n + m /\ new[(0 + j) + 1] = SetLine(f[j].of) /\ new[(0 + j) + 2] = EndMark(f[j].of)
          /\ f[j].kind = "set" => 0 + j > 1 /\ new[(0 + j) - 1] = StartMark(f[j].of)
          /\ f[j].kind = "end" => 0 + j > 2 /\ new[(0 + j) - 2] = StartMark(f[j].of)
      BY <1>1, <1>5, <3>1, <3>2
    <3> QED
      BY <1>3, <3>1, <3>3
  <2>2. CASE ~ (j <= n)
    <3>1. j - n \in 1 .. m /\ n + (j - n) = j /\ n + m <= n + m
      BY <1>1, <2>2
    <3>2. \A i \in 1 .. m : new[n + i] = g[i]
      BY <1>4
    <3> DEFINE i == j - n
    <3>3. i \in 1 .. m /\ n + i = j
      BY <3>1
    <3> HIDE DEF i
    <3>4. /\ g[i].kind = "start" =>
                   (n + i) + 2 <= n + m /\ new[(n + i) + 1] = SetLine(g[i].of) /\ new[(n + i) + 2] = EndMark(g[i].of)
          /\ g[i].kind = "set" => n + i > 1 /\ new[(n + i) - 1] = StartMark(g[i].of)
          /\ g[i].kind = "end" => n + i > 2 /\ new[(n + i) - 2] = StartMark(g[i].of)
      BY <1>1, <1>5, <3>1, <3>2, <3>3
    <3>5. new[j] = g[i]
      BY <3>2, <3>3
    <3> QED
      BY <3>3, <3>4, <3>5
  <2> QED
    BY <2>1, <2>2
<1> QED
  BY <1>2, <1>6 DEF Whole, new

LEMMA BlockIsWhole == ASSUME NEW p \in Ids PROVE Whole(Block(p))
<1>1. /\ Len(Block(p)) = 4
      /\ Block(p)[1] = EmptyLine /\ Block(p)[2] = StartMark(p)
      /\ Block(p)[3] = SetLine(p) /\ Block(p)[4] = EndMark(p)
  BY DEF Block
<1>2. \A i \in 1 .. 4 : i = 1 \/ i = 2 \/ i = 3 \/ i = 4
  OBVIOUS
<1> QED
  BY <1>1, <1>2, KindsOfMarks DEF Whole

LEMMA UserLineIsWhole == ASSUME NEW u PROVE Whole(<<UserLine(u)>>)
<1>1. Len(<<UserLine(u)>>) = 1 /\ <<UserLine(u)>>[1] = UserLine(u) /\ \A i \in 1 .. 1 : i = 1
  OBVIOUS
<1> QED
  BY <1>1, KindsOfMarks DEF Whole

(* The blocks of the other packages stay whole when the lines of p are      *)
(* taken out.                                                               *)
LEMMA WholeWithout ==
    ASSUME NEW f \in Seq(Line), Whole(f), NEW p, NEW ks \in Seq(1 .. Len(f)),
           \A i \in 1 .. Len(f) : (\E k \in 1 .. Len(ks) : ks[k] = i) <=> i \in Others(f, p),
           \A j, k \in 1 .. Len(ks) : j < k => ks[j] < ks[k]
    PROVE  Whole(Lines(f, ks))
<1> DEFINE n == Len(ks)
           m == Lines(f, ks)
           S == Others(f, p)
<1>1. /\ n \in Nat /\ DOMAIN ks = 1 .. n /\ Len(f) \in Nat /\ DOMAIN f = 1 .. Len(f)
      /\ \A k \in 1 .. n : ks[k] \in 1 .. Len(f) /\ ks[k] \in Nat
      /\ \A i \in 1 .. Len(f) : f[i] \in Line
  BY LenProperties, ElementOfSeq
<1>2. Len(m) = n /\ \A k \in 1 .. n : m[k] = f[ks[k]]
  BY <1>1 DEF Lines
<1>3. \A k \in 1 .. n : ks[k] \in S
  BY <1>1
<1>4. \A i \in S : i \in 1 .. Len(f) /\ \E k \in 1 .. n : ks[k] = i
  BY <1>1 DEF Others
<1>5. \A j, k \in 1 .. n : j < k => ks[j] < ks[k]
  OBVIOUS
<1>6. \A i \in 1 .. Len(f) : i \in S <=> f[i].kind \in {"user", "empty"} \/ f[i].of # p
  BY <1>1 DEF Others
<1> HIDE DEF n, m, S
<1>7. ASSUME NEW k \in 1 .. n, ks[k] + 1 \in S PROVE k + 1 \in 1 .. n /\ ks[k + 1] = ks[k] + 1
  <2>1. PICK l \in 1 .. n : ks[l] = ks[k] + 1
    BY <1>4, <1>7
  <2>2. ks[l] \in Nat /\ ks[k] \in Nat
    BY <1>1
  <2>3. ~ (l < k) /\ l # k
    BY <1>5, <2>1, <2>2
  <2>4. ~ (k + 1 < l)
    <3>1. SUFFICES ASSUME k + 1 < l PROVE FALSE
      OBVIOUS
    <3>2. k + 1 \in 1 .. n /\ k < k + 1
      BY <1>1, <3>1
    <3>3. ks[k] < ks[k + 1] /\ ks[k + 1] < ks[l] /\ ks[k + 1] \in Nat
      BY <1>1, <1>5, <3>1, <3>2
    <3> QED
      BY <2>1, <2>2, <3>3
  <2>5. l = k + 1
    BY <1>1, <2>3, <2>4
  <2> QED
    BY <2>1, <2>5
<1>8. ASSUME NEW k \in 1 .. n, ks[k] - 1 \in S PROVE k > 1 /\ ks[k - 1] = ks[k] - 1
  <2>1. PICK l \in 1 .. n : ks[l] = ks[k] - 1
    BY <1>4, <1>8
  <2>2. ks[k] \in Nat /\ ks[l] + 1 = ks[k]
    BY <1>1, <2>1
  <2>3. l + 1 \in 1 .. n /\ ks[l + 1] = ks[k]
    BY <1>3, <1>7, <2>2
  <2>4. ~ (l + 1 < k) /\ ~ (k < l + 1)
    BY <1>5, <2>2, <2>3
  <2>5. k = l + 1
    BY <1>1, <2>4
  <2> QED
    BY <1>1, <2>1, <2>5
<1>9. ASSUME NEW k \in 1 .. n
      PROVE  /\ m[k].kind = "start" =>
                   k + 2 <= n /\ m[k + 1] = SetLine(m[k].of) /\ m[k + 2] = EndMark(m[k].of)
             /\ m[k].kind = "set" => k > 1 /\ m[k - 1] = StartMark(m[k].of)
             /\ m[k].kind = "end" => k > 2 /\ m[k - 2] = StartMark(m[k].of)
  <2> DEFINE i == ks[k]
             q == f[i].of
  <2>1. i \in 1 .. Len(f) /\ i \in S /\ m[k] = f[i] /\ i \in Nat /\ f[i] \in Line
    BY <1>1, <1>2, <1>3, <1>9
  <2>2. f[i].kind \in {"start", "set", "end"} => q # p
    BY <1>6, <2>1
  <2> HIDE DEF i
  <2>3. ASSUME NEW j \in 1 .. Len(f), f[j].of = q, q # p PROVE j \in S
    BY <1>6, <2>3
  <2>4. ASSUME f[i].kind = "start" PROVE k + 2 <= n /\ m[k + 1] = SetLine(q) /\ m[k + 2] = EndMark(q)
    <3>1. i + 2 <= Len(f) /\ f[i + 1] = SetLine(q) /\ f[i + 2] = EndMark(q)
      BY <2>1, <2>4 DEF Whole
    <3>2. i + 1 \in 1 .. Len(f) /\ i + 2 \in 1 .. Len(f) /\ (i + 1) + 1 = i + 2
      BY <1>1, <2>1, <3>1
    <3>3. i + 1 \in S /\ i + 2 \in S
      <4>1. f[i + 1].of = q /\ f[i + 2].of = q /\ q # p
        BY <2>2, <2>4, <3>1, KindsOfMarks
      <4> HIDE DEF q
      <4> QED
        BY <2>3, <3>2, <4>1
    <3>4. k + 1 \in 1 .. n /\ ks[k + 1] = i + 1
      BY <1>7, <3>3 DEF i
    <3>5. (k + 1) + 1 \in 1 .. n /\ ks[(k + 1) + 1] = (i + 1) + 1
      BY <1>7, <3>2, <3>3, <3>4
    <3>6. k + 2 \in 1 .. n /\ ks[k + 2] = i + 2
      BY <1>1, <3>2, <3>5
    <3> QED
      BY <1>1, <1>2, <3>1, <3>4, <3>6
  <2>5. ASSUME f[i].kind = "set" PROVE k > 1 /\ m[k - 1] = StartMark(q)
    <3>1. i > 1 /\ f[i - 1] = StartMark(q)
      BY <2>1, <2>5 DEF Whole
    <3>2. i - 1 \in 1 .. Len(f)
      BY <1>1, <2>1, <3>1
    <3>3. i - 1 \in S
      BY <2>2, <2>3, <2>5, <3>1, <3>2, KindsOfMarks
    <3>4. k > 1 /\ ks[k - 1] = i - 1
      BY <1>8, <3>3 DEF i
    <3>5. k - 1 \in 1 .. n
      BY <1>1, <3>4
    <3> QED
      BY <1>2, <3>1, <3>4, <3>5
  <2>6. ASSUME f[i].kind = "end" PROVE k > 2 /\ m[k - 2] = StartMark(q)
    <3>1. i > 2 /\ f[i - 2] = StartMark(q)
      BY <2>1, <2>6 DEF Whole
    <3>2. i - 2 \in 1 .. Len(f) /\ i - 1 \in 1 .. Len(f) /\ (i - 2) + 1 = i - 1 /\ (i - 1) - 1 = i - 2
      BY <1>1, <2>1, <3>1
    <3>3. f[i - 2].kind = "start" /\ f[i - 2].of = q
      BY <3>1, KindsOfMarks
    <3>4. f[(i - 2) + 1] = SetLine(f[i - 2].of)
      BY <3>2, <3>3 DEF Whole
    <3>5. f[i - 1].of = q
      BY <3>2, <3>3, <3>4, KindsOfMarks
    <3>6. i - 1 \in S /\ i - 2 \in S
      BY <2>2, <2>3, <2>6, <3>2, <3>3, <3>5
    <3>7. k > 1 /\ ks[k - 1] = i - 1
      BY <1>8, <3>6 DEF i
    <3>8. k - 1 \in 1 .. n /\ ks[k - 1] - 1 \in S
      BY <1>1, <3>2, <3>6, <3>7
    <3>9. k - 1 > 1 /\ ks[(k - 1) - 1] = (i - 1) - 1
      BY <1>8, <3>7, <3>8
    <3>10. k > 2 /\ k - 2 \in 1 .. n /\ ks[k - 2] = i - 2
      BY <1>1, <3>2, <3>7, <3>9
    <3> QED
      BY <1>2, <3>1, <3>10
  <2> QED
    BY <2>1, <2>4, <2>5, <2>6
<1> QED
  BY <1>2, <1>9 DEF Whole, m

------------------------------------------------------------------------------
(* While no write came up short: AUTOEXEC.BAT is whole, and without it the  *)
(* copy is what the removal was to keep.                                    *)
Safe ==
    /\ auto # Absent => Whole(auto)
    /\ pc = "remove" => auto = orig /\ auto # Absent
    /\ pc \in {"remove", "rename"} \/ auto = Absent =>
          autoTmp = StripBlocks(orig, id) /\ autoTmp # Absent /\ Whole(autoTmp)

SafeInv == LInv /\ (torn = 0 => Safe)

LEMMA SafeInit == Init => SafeInv
<1> SUFFICES ASSUME Init PROVE SafeInv
  OBVIOUS
<1>1. LInv
  BY LoopInit
<1>2. auto \in Seq(Line) /\ auto # Absent
  <2>1. auto \in Seq(Line)
    <3>1. CASE auto = <<>>
      BY <3>1
    <3>2. CASE auto # <<>>
      <4>1. PICK u \in Own : auto = <<UserLine(u)>>
        BY <3>2 DEF Init
      <4>2. UserLine(u) \in Line
        BY DEF UserLine, Line
      <4> QED
        BY <4>1, <4>2
    <3> QED
      BY <3>1, <3>2
  <2> QED
    BY <2>1, AutoexecAssumption DEF AutoexecAssumption
<1>3. Whole(auto)
  <2>1. CASE auto = <<>>
    <3>1. 1 .. Len(auto) = {}
      BY <2>1
    <3> QED
      BY <3>1 DEF Whole
  <2>2. CASE auto # <<>>
    <3>1. PICK u \in Own : auto = <<UserLine(u)>>
      BY <2>2 DEF Init
    <3> QED
      BY <3>1, UserLineIsWhole
  <2> QED
    BY <2>1, <2>2
<1>4. pc = "idle"
  BY DEF Init
<1> QED
  BY <1>1, <1>2, <1>3, <1>4 DEF SafeInv, Safe

(* At the end of the loop the copy is the file without the blocks.          *)
LEMMA CopyIsStripped ==
    ASSUME LInv, pc = "copy", pos > Len(auto)
    PROVE  /\ Lines(auto, kept) = StripBlocks(orig, id) /\ Lines(auto, kept) \in Seq(Line) /\ auto = orig
           /\ Whole(auto) => Whole(Lines(auto, kept))
<1> DEFINE S == {i \in DOMAIN auto : ~ InBlock(auto, id, i)}
<1>1. /\ Copied /\ auto \in Seq(Line) /\ auto = orig /\ Len(auto) \in Nat /\ pos = Len(auto) + 1
      /\ DOMAIN auto = 1 .. Len(auto) /\ pos - 1 = Len(auto)
  BY LenProperties DEF LInv, TypeOK, Copied
<1>2. /\ kept \in Seq(1 .. Len(auto)) /\ DOMAIN kept = 1 .. Len(kept)
      /\ \A i \in 1 .. Len(auto) : (\E k \in 1 .. Len(kept) : kept[k] = i) <=> ~ InBlock(auto, id, i)
      /\ \A j, k \in 1 .. Len(kept) : j < k => kept[j] < kept[k]
  BY <1>1, LenProperties DEF Copied
<1>3. \A i \in 1 .. Len(auto) : i \in S <=> ~ InBlock(auto, id, i)
  BY <1>1
<1>4. S \in SUBSET Nat /\ \A i \in S : i \in 1 .. Len(auto)
  BY <1>1
<1> HIDE DEF S
<1>5. kept \in Seq(S)
  <2>1. \A k \in 1 .. Len(kept) : kept[k] \in S
    BY <1>2, <1>3, ElementOfSeq
  <2> QED
    BY <1>2, <2>1, SeqDef
<1>6. \A i \in S : \E k \in 1 .. Len(kept) : kept[k] = i
  BY <1>2, <1>3, <1>4
<1>7. Lines(auto, kept) = Picked(auto, S)
  BY <1>2, <1>4, <1>5, <1>6, LinesArePicked
<1>8. Lines(auto, kept) \in Seq(Line)
  BY <1>1, <1>2, LinesType
<1>9. ASSUME Whole(auto) PROVE Whole(Lines(auto, kept))
  <2>1. Others(auto, id) = S
    BY <1>1, <1>9, OwnLines DEF S
  <2>2. \A i \in 1 .. Len(auto) : (\E k \in 1 .. Len(kept) : kept[k] = i) <=> i \in Others(auto, id)
    BY <1>2, <1>3, <2>1
  <2> QED
    BY <1>1, <1>2, <1>9, <2>2, WholeWithout
<1> QED
  BY <1>1, <1>7, <1>8, <1>9 DEF S, StripBlocks

LEMMA SafeNext == SafeInv /\ [Next]_vars => SafeInv'
<1> SUFFICES ASSUME SafeInv, [Next]_vars PROVE SafeInv'
  OBVIOUS
<1>1. LInv /\ LInv' /\ torn \in 0 .. MaxTorn
  BY LoopNext DEF SafeInv, LInv, TypeOK
<1>2. SUFFICES ASSUME torn' = 0 PROVE Safe'
  BY <1>1 DEF SafeInv
<1>3. ~ Short
  BY <1>1, <1>2 DEF Short
<1>4. \A text \in Seq(Line) : text # Absent
  BY AutoexecAssumption DEF AutoexecAssumption
<1>5. Text(auto) \in Seq(Line)
  BY <1>1 DEF LInv, TypeOK, Text
<1>6. ASSUME torn = 0 PROVE Whole(Text(auto))
  <2>1. CASE auto = Absent
    <3>1. Text(auto) = <<>> /\ 1 .. Len(<<>>) = {}
      BY <2>1 DEF Text
    <3> QED
      BY <3>1 DEF Whole
  <2>2. CASE auto # Absent
    BY <1>6, <2>2 DEF Text, SafeInv, Safe
  <2> QED
    BY <2>1, <2>2
<1>7. ASSUME NEW added \in Seq(Line), Whole(added), Grown(added), pc = "idle", pc' = pc, torn' = torn PROVE Safe'
  <2>1. auto' \in Seq(Line) /\ Whole(auto')
    BY <1>2, <1>5, <1>6, <1>7, WholeTogether, ConcatProperties DEF Grown
  <2>2. auto' # Absent /\ pc' = "idle"
    BY <1>4, <1>7, <2>1
  <2> QED
    BY <2>1, <2>2 DEF Safe
<1>8. ASSUME NEW p \in Ids, nos_update_autoexec(p) PROVE Safe'
  <2>1. Grown(Block(p)) /\ torn' = torn /\ pc = "idle" /\ pc' = pc
    BY <1>3, <1>8 DEF nos_update_autoexec
  <2> QED
    BY <1>7, <2>1, BlockType, BlockIsWhole
<1>9. ASSUME NEW u \in Own, UserEdit(u) PROVE Safe'
  <2>1. <<UserLine(u)>> \in Seq(Line)
    <3>1. UserLine(u) \in Line
      BY DEF UserLine, Line
    <3> QED
      BY <3>1
  <2> QED
    BY <1>7, <1>9, <2>1, UserLineIsWhole DEF UserEdit
<1>10. ASSUME NEW p \in Ids, BeginRemove(p) PROVE Safe'
  <2>1. auto # Absent /\ auto' = auto /\ torn' = torn /\ pc' = "copy"
    BY <1>10 DEF BeginRemove
  <2> QED
    BY <1>2, <2>1 DEF SafeInv, Safe
<1>11. CASE ReadLine
  BY <1>2, <1>11 DEF ReadLine, SafeInv, Safe
<1>12. CASE CloseCopy
  <2>1. /\ pc = "copy" /\ pos > Len(auto) /\ autoTmp' = Lines(auto, kept) /\ auto' = auto /\ torn' = torn
        /\ pc' = "remove" /\ id' = id /\ orig' = orig
    BY <1>3, <1>12 DEF CloseCopy, File!WriteTmp
  <2>2. /\ Lines(auto, kept) = StripBlocks(orig, id) /\ Lines(auto, kept) \in Seq(Line) /\ auto = orig
        /\ Whole(auto) => Whole(Lines(auto, kept))
    BY <1>1, <2>1, CopyIsStripped
  <2>3. auto # Absent /\ Lines(auto, kept) # Absent
    BY <1>1, <1>4, <2>1, <2>2 DEF LInv, Copied
  <2>4. Whole(auto)
    BY <1>2, <2>1, <2>3 DEF SafeInv, Safe
  <2> QED
    BY <2>1, <2>2, <2>3, <2>4 DEF Safe
<1>13. CASE RemoveAuto
  BY <1>2, <1>13 DEF RemoveAuto, File!RemoveOld, SafeInv, Safe
<1>14. CASE RenameAuto
  BY <1>2, <1>14 DEF RenameAuto, File!RenameTmp, SafeInv, Safe
<1>15. CASE PowerLoss
  <2>1. pc' = "idle" /\ auto' = auto /\ id' = id /\ orig' = orig /\ torn' = torn
    BY <1>15 DEF PowerLoss, File!WriteTmpShort
  <2>2. CASE pc = "copy"
    <3>1. auto # Absent
      BY <1>1, <1>4, <2>2 DEF LInv, Copied
    <3> QED
      BY <1>2, <2>1, <3>1 DEF SafeInv, Safe
  <2>3. CASE pc # "copy"
    <3>1. autoTmp' = autoTmp
      BY <1>15, <2>3 DEF PowerLoss
    <3> QED
      BY <1>2, <2>1, <3>1 DEF SafeInv, Safe
  <2> QED
    BY <2>2, <2>3
<1>16. CASE UNCHANGED vars
  BY <1>2, <1>16 DEF vars, SafeInv, Safe
<1> QED
  BY <1>8, <1>9, <1>10, <1>11, <1>12, <1>13, <1>14, <1>15, <1>16 DEF Next, Step

LEMMA SafeInvariant == Spec => []SafeInv
  BY SafeInit, SafeNext, PTL DEF Spec

(* While no write came up short, removing a package takes its own lines and *)
(* nothing else, whatever other blocks and lines are around them.           *)
THEOREM AutoexecRemovesOwnLinesOnly == Spec => []RemovesOwnLinesOnly
<1>1. SafeInv => RemovesOwnLinesOnly
  <2> SUFFICES ASSUME SafeInv, pc = "remove", torn = 0
               PROVE  autoTmp = Picked(auto, Others(auto, id))
    BY DEF RemovesOwnLinesOnly, Others
  <2>1. autoTmp = StripBlocks(auto, id) /\ Whole(auto) /\ auto \in Seq(Line)
    BY DEF SafeInv, Safe, LInv, TypeOK
  <2> QED
    BY <2>1, OwnLines DEF StripBlocks
<1> QED
  BY SafeInvariant, <1>1, PTL

(* When the power failed between remove and rename, AUTOEXEC.TMP holds all  *)
(* that the removal was to keep, as far as every write was complete.        *)
THEOREM AutoexecOneCopySurvives == Spec => []OneCopySurvives
<1>1. SafeInv => OneCopySurvives
  BY DEF SafeInv, Safe, OneCopySurvives
<1> QED
  BY SafeInvariant, <1>1, PTL
==============================================================================
