----------------------------- MODULE SpoolProofs ------------------------------
(***************************************************************************)
(* The characters on their way through the printer hook and the numbers of  *)
(* the print spool, for any size of the buffer and of the spool.            *)
(***************************************************************************)
EXTENDS Spool, TLAPS, WellFoundedInduction

(* The number that NBRIDGE is about to open is not the hook's, and was free *)
(* when it was chosen unless every number was taken; no file comes into the *)
(* spool meanwhile.                                                         *)
Chosen == pc = "open" => dest \in 1 .. FileMax /\ (dest \in spool => full)

(* A set of numbers has a smallest one.                                     *)
LEMMA Smallest ==
    ASSUME NEW S \in SUBSET Nat, S # {}
    PROVE  \E n \in S : \A k \in S : n <= k
<1>1. PICK n \in S : \A k \in S : ~ (<<k, n>> \in OpToRel(<, Nat))
  BY NatLessThanWellFounded, WFMin
<1>2. \A k \in S : ~ (k < n)
  BY <1>1 DEF OpToRel
<1> QED
  BY <1>2

(* nos_next_print_path takes a free number, and 001 when there is none.     *)
LEMMA NextIsFree ==
    /\ next_print_path \in 1 .. FileMax
    /\ next_print_path \in spool => 1 .. FileMax \subseteq spool
<1> DEFINE free == (1 .. FileMax) \ spool
<1>1. CASE free = {}
  BY <1>1, NoslptAssumption DEF next_print_path, NoslptAssumption
<1>2. CASE free # {}
  <2>1. free \in SUBSET Nat
    BY NoslptAssumption DEF NoslptAssumption
  <2>2. \E n \in free : \A k \in free : n <= k
    BY <1>2, <2>1, Smallest
  <2>3. next_print_path \in free
    BY <1>2, <2>2 DEF next_print_path
  <2> QED
    BY <2>3, NoslptAssumption DEF NoslptAssumption
<1> QED
  BY <1>1, <1>2

LEMMA SpoolInit == Init => Chosen
  BY DEF Init, NoslptInit, Chosen

LEMMA SpoolStep == Chosen /\ [Next]_vars => Chosen'
<1> SUFFICES ASSUME Chosen, [Next]_vars PROVE Chosen'
  OBVIOUS
<1>1. CASE LptStep /\ UNCHANGED <<mounted, nbridge, host>>
  <2>1. pc' # "open"
    BY <1>1 DEF LptStep, int17_hook, Create, CreateFails, Write, Close, HookEnds
  <2> QED
    BY <2>1 DEF Chosen
<1>2. CASE PrintFile
  BY <1>2, NextIsFree DEF PrintFile, stream, Chosen
<1>3. CASE OpenDest \/ CopyFile
  BY <1>3 DEF OpenDest, CopyFile, Chosen
<1>4. CASE cmd_mount \/ Poll \/ Handle \/ Unmount \/ UNCHANGED vars
  <2>1. UNCHANGED <<pc, spool, dest, full>>
    BY <1>4 DEF cmd_mount, Poll, Handle, Unmount, vars, noslptVars, nbridge
  <2> QED
    BY <2>1 DEF Chosen
<1>5. CASE Delete
  BY <1>5 DEF Delete, nbridge, Chosen
<1> QED
  BY <1>1, <1>2, <1>3, <1>4, <1>5 DEF Next

LEMMA SpoolInvariant == Spec => []Chosen
<1>1. Init /\ [][Next]_vars => []Chosen
  BY SpoolInit, SpoolStep, PTL
<1> QED
  BY <1>1, PTL DEF Spec

(* NBRIDGE never overwrites a page of the printer hook, and one of its own  *)
(* only when it found all numbers taken, however many there are and         *)
(* whatever the operator deletes in between.                                *)
THEOREM SpoolOverwrites == Spec => OverwritesOnlyWhenFull
<1>1. Chosen /\ [Next]_vars => [OpenDest /\ pc' = "copy" /\ dest \in spool => dest # 0 /\ full]_vars
  BY DEF OpenDest, Chosen
<1> QED
  BY SpoolInvariant, <1>1, PTL DEF Spec, OverwritesOnlyWhenFull

------------------------------------------------------------------------------
(* What is at a place is what was printed, or a byte that the code spoils.  *)
Faithful(byte, n) == byte = due[n] \/ (byte = Junk /\ n \in Spoilt)

(* The hook waits for room only during a flush; pages begin where DOS wrote *)
(* last; written and buffered characters are those printed, and one more    *)
(* where the hook still waits.                                              *)
Pages ==
    /\ caller = "need_flush" => pc \in {"create", "write", "close"}
    /\ Len(written) \in cuts \cup {0} /\ (pc = "close" => Len(written) \in cuts)
    /\ Len(due) = Len(written) + (IF pc = "close" THEN 0 ELSE buf_len)
                    + (IF caller = "need_flush" THEN 1 ELSE 0)

Bytes ==
    /\ \A n \in 1 .. Len(written) : Faithful(written[n], n)
    /\ pc # "close" => \A m \in 1 .. buf_len : Faithful(print_buf[m], Len(written) + m)

Stream == Chosen /\ NoslptTypeOK /\ Pages /\ Bytes

(* The first place of a page that follows another, or a failed create; and  *)
(* the places of the digits.                                                *)
LEMMA SpoiltPlaces ==
    /\ \A p \in cuts \cup (IF failed THEN {0} ELSE {}) : p + 1 \in Spoilt
    /\ \A p \in cuts \cup {0}, m \in Stamps : p + m \in Spoilt
  BY DEF Spoilt

LEMMA SpoiltGrows ==
    cuts \subseteq cuts' /\ (failed => failed') => Spoilt \subseteq Spoilt'
<1> SUFFICES ASSUME cuts \subseteq cuts', failed => failed', NEW n \in Spoilt PROVE n \in Spoilt'
  OBVIOUS
<1>1. CASE \E p \in cuts \cup (IF failed THEN {0} ELSE {}), m \in {1} : n = p + m
  BY <1>1 DEF Spoilt
<1>2. CASE \E p \in cuts \cup {0}, m \in Stamps : n = p + m
  BY <1>2 DEF Spoilt
<1> QED
  BY <1>1, <1>2 DEF Spoilt

LEMMA StreamInit == Init => Stream
<1> SUFFICES ASSUME Init PROVE Stream
  OBVIOUS
<1> USE NoslptAssumption DEF NoslptAssumption
<1>1. NoslptTypeOK
  <2>1. print_buf \in [1 .. BUFSIZE -> Char \cup {Junk}] /\ buf_len \in 0 .. BUFSIZE /\ file_ctr \in 1 .. FileMax
    BY DEF Init, NoslptInit
  <2>2. /\ caller \in {"flush_now", "need_flush"} /\ spool \subseteq 0 .. FileMax
        /\ cuts \subseteq Nat /\ failed \in BOOLEAN
    BY DEF Init, NoslptInit
  <2>3. due \in Seq(Char) /\ written \in Seq(Char \cup {Junk})
    BY DEF Init, NoslptInit
  <2> QED
    BY <2>1, <2>2, <2>3 DEF NoslptTypeOK
<1>2. Pages /\ Bytes
  BY DEF Init, NoslptInit, Pages, Bytes
<1> QED
  BY <1>1, <1>2, SpoolInit DEF Stream

(* A character comes in.                                                    *)
LEMMA HookStep == ASSUME Stream, NEW c \in Char, int17_hook(c) PROVE NoslptTypeOK' /\ Pages' /\ Bytes'
<1> USE NoslptAssumption DEF NoslptAssumption
<1>1. /\ pc = "idle" /\ due' = Append(due, c) /\ UNCHANGED <<file_ctr, spool, written, cuts, failed>>
      /\ caller = "flush_now" /\ Len(due) = Len(written) + buf_len
  BY DEF int17_hook, Stream, Pages, NoslptTypeOK
<1>2. Spoilt' = Spoilt
  BY <1>1 DEF Spoilt
<1>3. \A n \in 1 .. Len(due) : due'[n] = due[n]
  BY <1>1 DEF Stream, NoslptTypeOK
<1>4. due'[Len(due) + 1] = c /\ Len(due') = Len(due) + 1 /\ due' \in Seq(Char)
  BY <1>1 DEF Stream, NoslptTypeOK
<1>5. CASE /\ buf_len < BUFSIZE /\ print_buf' = [print_buf EXCEPT ![buf_len + 1] = c]
           /\ buf_len' = buf_len + 1 /\ caller' = "flush_now" /\ pc' \in {"create", "idle"}
  <2>1. NoslptTypeOK'
    BY <1>1, <1>4, <1>5 DEF Stream, NoslptTypeOK
  <2>2. Pages'
    BY <1>1, <1>4, <1>5 DEF Stream, Pages, NoslptTypeOK
  <2>3. \A m \in 1 .. buf_len : print_buf'[m] = print_buf[m]
    BY <1>5 DEF Stream, NoslptTypeOK
  <2>4. print_buf'[buf_len + 1] = c
    BY <1>5 DEF Stream, NoslptTypeOK
  <2>5. \A m \in 1 .. buf_len' : Faithful(print_buf[m], Len(written) + m)'
    <3> TAKE m \in 1 .. buf_len'
    <3>1. written' = written /\ Len(written) \in Nat /\ buf_len \in Nat
      BY <1>1 DEF Stream, NoslptTypeOK
    <3>2. CASE m = buf_len + 1
      BY <1>1, <1>4, <2>4, <3>1, <3>2 DEF Faithful
    <3>3. CASE m \in 1 .. buf_len
      <4>1. Len(written) + m \in 1 .. Len(due)
        BY <1>1, <3>1, <3>3
      <4>2. Faithful(print_buf[m], Len(written) + m)
        BY <1>1, <3>3 DEF Stream, Bytes
      <4> QED
        BY <1>2, <1>3, <2>3, <3>1, <3>3, <4>1, <4>2 DEF Faithful
    <3> QED
      BY <1>5, <3>1, <3>2, <3>3
  <2>6. \A n \in 1 .. Len(written) : Faithful(written[n], n)'
    BY <1>1, <1>2, <1>3 DEF Stream, NoslptTypeOK, Bytes, Faithful
  <2> QED
    BY <1>1, <2>1, <2>2, <2>5, <2>6 DEF Bytes
<1>6. CASE buf_len >= BUFSIZE /\ caller' = "need_flush" /\ pc' = "create" /\ UNCHANGED <<print_buf, buf_len>>
  <2>1. NoslptTypeOK'
    BY <1>1, <1>4, <1>6 DEF Stream, NoslptTypeOK
  <2>2. Pages'
    BY <1>1, <1>4, <1>6 DEF Stream, Pages, NoslptTypeOK
  <2>3. Bytes'
    BY <1>1, <1>2, <1>3, <1>6 DEF Stream, NoslptTypeOK, Bytes, Faithful
  <2> QED
    BY <2>1, <2>2, <2>3
<1> QED
  BY <1>5, <1>6 DEF int17_hook

(* The bytes that update_filename does not touch are as they were.          *)
LEMMA StampedBuffer ==
    ASSUME Stream, pc = "create"
    PROVE  /\ Stamped \in [1 .. BUFSIZE -> Char \cup {Junk}]
           /\ \A m \in 1 .. buf_len : Faithful(Stamped[m], Len(written) + m)
<1>1. Stamped \in [1 .. BUFSIZE -> Char \cup {Junk}]
  BY DEF Stamped, Stream, NoslptTypeOK
<1> SUFFICES ASSUME NEW m \in 1 .. buf_len PROVE Faithful(Stamped[m], Len(written) + m)
  BY <1>1
<1>2. m \in 1 .. BUFSIZE
  BY NoslptAssumption DEF NoslptAssumption, Stream, NoslptTypeOK
<1>3. CASE m \in Stamps
  <2>1. Len(written) + m \in Spoilt
    BY <1>3, SpoiltPlaces DEF Stream, Pages
  <2> QED
    BY <1>2, <1>3, <2>1 DEF Stamped, Faithful
<1>4. CASE m \notin Stamps
  BY <1>2, <1>4 DEF Stamped, Stream, Bytes
<1> QED
  BY <1>3, <1>4

LEMMA CreateStep == ASSUME Stream, Create PROVE NoslptTypeOK' /\ Pages' /\ Bytes'
<1>1. /\ pc = "create" /\ pc' = "write" /\ print_buf' = Stamped /\ spool' = spool \cup {0}
      /\ UNCHANGED <<buf_len, file_ctr, caller, due, written, cuts, failed>>
  BY DEF Create, stream
<1>2. Spoilt' = Spoilt
  BY <1>1 DEF Spoilt
<1>3. NoslptTypeOK'
  BY <1>1, StampedBuffer, NoslptAssumption DEF NoslptAssumption, Stream, NoslptTypeOK
<1>4. Pages'
  BY <1>1 DEF Stream, Pages
<1>5. Bytes'
  BY <1>1, <1>2, StampedBuffer DEF Stream, Bytes, Faithful
<1> QED
  BY <1>3, <1>4, <1>5

LEMMA CreateFailsStep == ASSUME Stream, CreateFails PROVE NoslptTypeOK' /\ Pages' /\ Bytes'
<1> USE NoslptAssumption DEF NoslptAssumption
<1>1. /\ pc = "create" /\ pc' = "idle" /\ caller' = "flush_now" /\ failed' = TRUE
      /\ UNCHANGED <<file_ctr, spool, written, cuts>>
  BY DEF CreateFails, HookEnds
<1>2. Spoilt \subseteq Spoilt'
  BY <1>1, SpoiltGrows
<1>3. Len(written) \in Nat /\ buf_len \in Nat /\ Len(written) <= Len(due) /\ due \in Seq(Char)
  BY <1>1 DEF Stream, NoslptTypeOK, Pages
<1>4. CASE caller = "flush_now" /\ print_buf' = Stamped /\ buf_len' = buf_len /\ due' = due
  <2>1. NoslptTypeOK'
    BY <1>1, <1>4, StampedBuffer DEF Stream, NoslptTypeOK
  <2>2. Pages'
    BY <1>1, <1>4 DEF Stream, Pages
  <2>3. Bytes'
    BY <1>1, <1>2, <1>4, StampedBuffer DEF Stream, Bytes, Faithful
  <2> QED
    BY <2>1, <2>2, <2>3
<1>5. CASE /\ caller = "need_flush" /\ print_buf' = [Stamped EXCEPT ![1] = Junk] /\ buf_len' = 1
           /\ due' = SubSeq(due, 1, Len(written)) \o <<Last(due)>>
  <2>1. Len(due) = Len(written) + buf_len + 1
    BY <1>1, <1>5 DEF Stream, Pages, NoslptTypeOK
  <2>2. /\ due' \in Seq(Char) /\ Len(due') = Len(written) + 1
        /\ \A n \in 1 .. Len(written) : due'[n] = due[n]
    <3>1. Last(due) \in Char
      BY <1>3, <2>1 DEF Last
    <3> QED
      BY <1>3, <1>5, <2>1, <3>1
  <2>3. print_buf' \in [1 .. BUFSIZE -> Char \cup {Junk}] /\ print_buf'[1] = Junk
    BY <1>1, <1>5, StampedBuffer
  <2>4. NoslptTypeOK'
    BY <1>1, <1>5, <2>2, <2>3 DEF Stream, NoslptTypeOK
  <2>5. Pages'
    BY <1>1, <1>3, <1>5, <2>2 DEF Stream, Pages
  <2>6. Len(written) + 1 \in Spoilt'
    <3>1. Len(written) \in cuts' \cup (IF failed' THEN {0} ELSE {})
      BY <1>1 DEF Stream, Pages
    <3> QED
      BY <3>1 DEF Spoilt
  <2>7. Bytes'
    <3>1. \A n \in 1 .. Len(written) : Faithful(written[n], n)'
      BY <1>1, <1>2, <2>2 DEF Stream, Bytes, Faithful
    <3>2. Faithful(print_buf[1], Len(written) + 1)'
      BY <1>1, <2>3, <2>6 DEF Faithful
    <3>3. \A m \in 1 .. buf_len' : m = 1
      BY <1>5
    <3> QED
      BY <1>1, <3>1, <3>2, <3>3 DEF Bytes
  <2> QED
    BY <2>4, <2>5, <2>7
<1> QED
  BY <1>4, <1>5 DEF CreateFails, HookEnds, Stream, NoslptTypeOK

LEMMA WriteStep == ASSUME Stream, Write PROVE NoslptTypeOK' /\ Pages' /\ Bytes'
<1>1. /\ pc = "write" /\ pc' = "close" /\ written' = written \o Buffered
      /\ cuts' = cuts \cup {Len(written')}
      /\ UNCHANGED <<print_buf, buf_len, file_ctr, caller, spool, due, failed>>
  BY DEF Write, buffer
<1>2. Spoilt \subseteq Spoilt'
  BY <1>1, SpoiltGrows
<1>3. /\ written \in Seq(Char \cup {Junk}) /\ buf_len \in 0 .. BUFSIZE
      /\ print_buf \in Seq(Char \cup {Junk}) /\ Len(print_buf) = BUFSIZE
  BY NoslptAssumption DEF NoslptAssumption, Stream, NoslptTypeOK
<1>4. /\ Buffered \in Seq(Char \cup {Junk}) /\ Len(Buffered) = buf_len
      /\ \A m \in 1 .. buf_len : Buffered[m] = print_buf[m]
  BY <1>3, NoslptAssumption DEF NoslptAssumption, Buffered
<1>5. /\ written' \in Seq(Char \cup {Junk}) /\ Len(written') = Len(written) + buf_len
      /\ \A n \in 1 .. Len(written) : written'[n] = written[n]
      /\ \A m \in 1 .. buf_len : written'[Len(written) + m] = print_buf[m]
  BY <1>1, <1>3, <1>4
<1>6. NoslptTypeOK'
  <2>1. cuts' \subseteq Nat
    <3>1. Len(written') \in Nat
      BY <1>5
    <3> QED
      BY <1>1, <3>1 DEF Stream, NoslptTypeOK
  <2> QED
    BY <1>1, <1>5, <2>1 DEF Stream, NoslptTypeOK
<1>7. Pages'
  BY <1>1, <1>3, <1>5 DEF Stream, Pages
<1>8. Bytes'
  <2>1. \A n \in 1 .. Len(written) : Faithful(written'[n], n)
    BY <1>5 DEF Stream, Bytes
  <2>2. \A m \in 1 .. buf_len : Faithful(written'[Len(written) + m], Len(written) + m)
    BY <1>1, <1>5 DEF Stream, Bytes
  <2>3. \A n \in 1 .. Len(written') : n \in 1 .. Len(written)
                                        \/ (n - Len(written) \in 1 .. buf_len /\ n = Len(written) + (n - Len(written)))
    BY <1>3, <1>5, NoslptAssumption DEF NoslptAssumption
  <2>4. \A n \in 1 .. Len(written') : Faithful(written'[n], n)
    BY <2>1, <2>2, <2>3
  <2> QED
    BY <1>1, <1>2, <2>4 DEF Bytes, Faithful
<1> QED
  BY <1>6, <1>7, <1>8

LEMMA CloseStep == ASSUME Stream, Close PROVE NoslptTypeOK' /\ Pages' /\ Bytes'
<1> USE NoslptAssumption DEF NoslptAssumption
<1>1. /\ pc = "close" /\ pc' = "idle" /\ caller' = "flush_now"
      /\ file_ctr' = IF file_ctr < FileMax THEN file_ctr + 1 ELSE 1
      /\ UNCHANGED <<spool, due, written, cuts, failed>>
      /\ \/ caller = "flush_now" /\ print_buf' = print_buf /\ buf_len' = 0
         \/ caller = "need_flush" /\ print_buf' = [print_buf EXCEPT ![1] = Junk] /\ buf_len' = 1
  BY DEF Close, HookEnds, stream
<1>2. Spoilt' = Spoilt /\ Len(written) + 1 \in Spoilt
  BY <1>1, SpoiltPlaces DEF Spoilt, Stream, Pages
<1>3. NoslptTypeOK'
  BY <1>1 DEF Stream, NoslptTypeOK
<1>4. Pages'
  BY <1>1 DEF Stream, Pages, NoslptTypeOK
<1>5. buf_len' = 1 => print_buf'[1] = Junk
  BY <1>1 DEF Stream, NoslptTypeOK
<1>6. Bytes'
  BY <1>1, <1>2, <1>5 DEF Stream, Bytes, Faithful
<1> QED
  BY <1>3, <1>4, <1>6

(* A step of the hook.                                                      *)
LEMMA HookKeeps == ASSUME Stream, LptStep PROVE NoslptTypeOK' /\ Pages' /\ Bytes'
  BY HookStep, CreateStep, CreateFailsStep, WriteStep, CloseStep DEF LptStep

(* The other actors leave the stream alone, and NBRIDGE runs while no flush *)
(* does.                                                                    *)
LEMMA OthersKeep ==
    ASSUME Stream, UNCHANGED <<buffer, caller, stream>>, spool' \subseteq 0 .. FileMax,
           pc' = pc \/ {pc, pc'} \subseteq {"idle", "open", "copy"}
    PROVE  NoslptTypeOK' /\ Pages' /\ Bytes'
<1>1. UNCHANGED <<print_buf, buf_len, file_ctr, caller, due, written, cuts, failed>>
  BY DEF buffer, stream
<1>2. Spoilt' = Spoilt
  BY <1>1 DEF Spoilt
<1>3. NoslptTypeOK'
  BY <1>1 DEF Stream, NoslptTypeOK
<1>4. (pc' = "close") <=> (pc = "close")
  OBVIOUS
<1>5. Pages'
  <2>1. caller' = "need_flush" => pc' \in {"create", "write", "close"}
    BY <1>1 DEF Stream, Pages
  <2> QED
    BY <1>1, <1>4, <2>1 DEF Stream, Pages
<1>6. Bytes'
  BY <1>1, <1>2, <1>4 DEF Stream, Bytes, Faithful
<1> QED
  BY <1>3, <1>5, <1>6

LEMMA StreamStep == Stream /\ [Next]_vars => Stream'
<1> SUFFICES ASSUME Stream, [Next]_vars PROVE Stream'
  OBVIOUS
<1>1. Chosen'
  BY SpoolStep DEF Stream
<1> SUFFICES NoslptTypeOK' /\ Pages' /\ Bytes'
  BY <1>1 DEF Stream
<1>2. spool \subseteq 0 .. FileMax
  BY DEF Stream, NoslptTypeOK
<1>3. CASE LptStep /\ UNCHANGED <<mounted, nbridge, host>>
  BY <1>3, HookKeeps
<1>4. CASE PrintFile
  BY <1>2, <1>4, OthersKeep DEF PrintFile
<1>5. CASE OpenDest
  <2>1. dest \in 0 .. FileMax
    BY <1>5, NoslptAssumption DEF NoslptAssumption, OpenDest, Stream, Chosen
  <2>2. spool' = spool \/ spool' = spool \cup {dest}
    BY <1>5 DEF OpenDest
  <2>3. spool' \subseteq 0 .. FileMax
    BY <1>2, <2>1, <2>2
  <2> QED
    BY <1>5, <2>3, OthersKeep DEF OpenDest
<1>6. CASE CopyFile
  BY <1>2, <1>6, OthersKeep DEF CopyFile
<1>7. CASE cmd_mount \/ Poll \/ Handle \/ Unmount \/ UNCHANGED vars
  <2>1. UNCHANGED <<buffer, caller, stream, spool, pc>>
    BY <1>7 DEF cmd_mount, Poll, Handle, Unmount, vars, noslptVars
  <2> QED
    BY <1>2, <2>1, OthersKeep
<1>8. CASE Delete
  <2>1. spool' \subseteq 0 .. FileMax /\ UNCHANGED <<buffer, caller, stream, pc>>
    BY <1>2, <1>8 DEF Delete
  <2> QED
    BY <2>1, OthersKeep
<1> QED
  BY <1>3, <1>4, <1>5, <1>6, <1>7, <1>8 DEF Next

(* What StreamKept says of one state.                                       *)
LEMMA StreamMeans == Stream => StreamKept
<1> SUFFICES ASSUME Stream PROVE StreamKept
  OBVIOUS
<1> DEFINE waiting == IF pc # "idle" /\ caller = "need_flush" THEN 1 ELSE 0
<1>1. waiting = IF caller = "need_flush" THEN 1 ELSE 0
  BY DEF Stream, Pages
<1>2. /\ written \in Seq(Char \cup {Junk}) /\ buf_len \in 0 .. BUFSIZE
      /\ print_buf \in Seq(Char \cup {Junk}) /\ Len(print_buf) = BUFSIZE
  BY NoslptAssumption DEF NoslptAssumption, Stream, NoslptTypeOK
<1>3. /\ Buffered \in Seq(Char \cup {Junk}) /\ Len(Buffered) = buf_len
      /\ \A m \in 1 .. buf_len : Buffered[m] = print_buf[m]
  BY <1>2, NoslptAssumption DEF NoslptAssumption, Buffered
<1>4. CASE pc = "close"
  <2>1. Captured = written
    BY <1>4 DEF Captured
  <2>2. Len(Captured) + waiting = Len(due)
    BY <1>1, <1>2, <1>4, <2>1 DEF Stream, Pages
  <2>3. \A n \in DOMAIN Captured : Captured[n] = due[n] \/ (Captured[n] = Junk /\ n \in Spoilt)
    BY <1>2, <2>1 DEF Stream, Bytes, Faithful
  <2> QED
    BY <2>2, <2>3 DEF Stream, StreamKept
<1>5. CASE pc # "close"
  <2>1. Captured = written \o Buffered
    BY <1>5 DEF Captured
  <2>2. /\ Captured \in Seq(Char \cup {Junk}) /\ Len(Captured) = Len(written) + buf_len
        /\ DOMAIN Captured = 1 .. Len(written) + buf_len
    <3>1. /\ written \o Buffered \in Seq(Char \cup {Junk})
          /\ Len(written \o Buffered) = Len(written) + buf_len
      BY <1>2, <1>3
    <3> QED
      BY <2>1, <3>1
  <2>3. \A n \in 1 .. Len(written) + Len(Buffered) :
            Captured[n] = IF n <= Len(written) THEN written[n] ELSE Buffered[n - Len(written)]
    BY <1>2, <1>3, <2>1
  <2>4. Len(Captured) + waiting = Len(due)
    BY <1>1, <1>2, <1>5, <2>2 DEF Stream, Pages
  <2>5. ASSUME NEW n \in DOMAIN Captured
        PROVE  Captured[n] = due[n] \/ (Captured[n] = Junk /\ n \in Spoilt)
    <3>1. n \in 1 .. Len(written) + buf_len /\ Len(written) \in Nat /\ buf_len \in Nat
      BY <1>2, <2>2, NoslptAssumption DEF NoslptAssumption
    <3>2. CASE n <= Len(written)
      <4>1. Captured[n] = written[n] /\ n \in 1 .. Len(written)
        BY <1>3, <2>3, <3>1, <3>2
      <4> QED
        BY <4>1 DEF Stream, Bytes, Faithful
    <3>3. CASE n > Len(written)
      <4>1. n - Len(written) \in 1 .. buf_len /\ Len(written) + (n - Len(written)) = n
        BY <3>1, <3>3
      <4>2. Captured[n] = Buffered[n - Len(written)]
        BY <1>3, <2>3, <3>1, <3>3
      <4>3. Captured[n] = print_buf[n - Len(written)]
        BY <1>3, <4>1, <4>2
      <4>4. Faithful(print_buf[n - Len(written)], Len(written) + (n - Len(written)))
        BY <1>5, <4>1 DEF Stream, Bytes
      <4> QED
        BY <4>1, <4>3, <4>4 DEF Faithful
    <3> QED
      BY <3>1, <3>2, <3>3
  <2> QED
    BY <2>4, <2>5 DEF Stream, StreamKept
<1> QED
  BY <1>4, <1>5

(* Through the buffer of the printer hook, of whatever size and wherever    *)
(* the digits land in it, no character is lost, doubled or moved but for    *)
(* the places that the code spoils and the buffers that a failed create     *)
(* gives up.                                                                *)
THEOREM SpoolStreamKept == Spec => []StreamKept
<1>1. Init /\ [][Next]_vars => []Stream
  BY StreamInit, StreamStep, PTL
<1> QED
  BY <1>1, StreamMeans, PTL DEF Spec


------------------------------------------------------------------------------
(* A form feed that met a full buffer: it opens a page, and a full page ends *)
(* before it.                                                               *)
Opens(n) == n - 1 \in cuts /\ n - 1 - BUFSIZE \in cuts \cup {0}

(* While every create works, a form feed ends its page or opens one: one    *)
(* that is still in the buffer is its last character, and flushes it, or    *)
(* its first.  The hook waits for room with a full buffer only.             *)
Ended ==
    failed \/
    /\ \A n \in 1 .. Len(written) : due[n] = FF /\ n \notin cuts => Opens(n)
    /\ pc # "close" =>
          \A m \in 1 .. buf_len : due[Len(written) + m] = FF =>
              Opens(Len(written) + m)
                \/ (m = buf_len /\ caller = "flush_now" /\ pc \in {"create", "write"})
    /\ caller = "need_flush" =>
          IF pc = "close" THEN Len(written) - BUFSIZE \in cuts \cup {0}
          ELSE buf_len = BUFSIZE

LEMMA EndedHook == ASSUME Stream, Ended, NEW c \in Char, int17_hook(c) PROVE Ended'
<1> USE NoslptAssumption DEF NoslptAssumption
<1>1. /\ pc = "idle" /\ due' = Append(due, c) /\ UNCHANGED <<written, cuts, failed>>
      /\ Len(due) = Len(written) + buf_len /\ Len(written) \in Nat /\ buf_len \in 0 .. BUFSIZE
  BY DEF int17_hook, Stream, Pages, NoslptTypeOK
<1>2. \A n \in 1 .. Len(due) : due'[n] = due[n]
  BY <1>1 DEF Stream, NoslptTypeOK
<1> SUFFICES ASSUME ~ failed PROVE Ended'
  BY <1>1 DEF Ended
<1>3. \A n : Opens(n) => Opens(n)'
  BY <1>1 DEF Opens
<1>4. \A n \in 1 .. Len(written) : due'[n] = FF /\ n \notin cuts => Opens(n)'
  BY <1>1, <1>2, <1>3 DEF Ended
<1>5. \A m \in 1 .. buf_len : due'[Len(written) + m] = FF => Opens(Len(written) + m)'
  <2> SUFFICES ASSUME NEW m \in 1 .. buf_len, due'[Len(written) + m] = FF
               PROVE  Opens(Len(written) + m)
    BY <1>1 DEF Opens
  <2>1. Len(written) + m \in 1 .. Len(due)
    BY <1>1
  <2> QED
    BY <1>1, <1>2, <2>1 DEF Ended
<1>6. CASE /\ buf_len' = buf_len + 1 /\ pc' = (IF c = FF THEN "create" ELSE "idle")
           /\ caller' = "flush_now"
  <2>1. due'[Len(written) + buf_len + 1] = c
    BY <1>1 DEF Stream, NoslptTypeOK
  <2>2. \A m \in 1 .. buf_len' : m \in 1 .. buf_len \/ m = buf_len + 1
    BY <1>1, <1>6
  <2>3. ASSUME NEW m \in 1 .. buf_len', due'[Len(written) + m] = FF
        PROVE  Opens(Len(written) + m)' \/ (m = buf_len' /\ pc' = "create")
    <3>1. CASE m \in 1 .. buf_len
      BY <1>5, <2>3, <3>1
    <3>2. CASE m = buf_len + 1
      <4>1. due'[Len(written) + m] = c
        BY <1>1, <2>1, <3>2
      <4> QED
        BY <1>6, <2>3, <3>2, <4>1
    <3> QED
      BY <2>2, <3>1, <3>2
  <2> QED
    BY <1>1, <1>4, <1>6, <2>3 DEF Ended
<1>7. CASE buf_len >= BUFSIZE /\ caller' = "need_flush" /\ pc' = "create" /\ UNCHANGED buf_len
  <2>1. buf_len = BUFSIZE
    BY <1>1, <1>7
  <2> QED
    BY <1>1, <1>4, <1>5, <1>7, <2>1 DEF Ended
<1> QED
  BY <1>6, <1>7 DEF int17_hook

LEMMA EndedWrite == ASSUME Stream, Ended, Write PROVE Ended'
<1> USE NoslptAssumption DEF NoslptAssumption
<1>1. /\ pc = "write" /\ pc' = "close" /\ written' = written \o Buffered
      /\ cuts' = cuts \cup {Len(written')}
      /\ UNCHANGED <<print_buf, buf_len, caller, due, failed>>
  BY DEF Write, buffer
<1>2. Len(written') = Len(written) + buf_len /\ Len(written) \in Nat /\ buf_len \in 0 .. BUFSIZE
  <2>1. /\ written \in Seq(Char \cup {Junk}) /\ buf_len \in 0 .. BUFSIZE
        /\ print_buf \in Seq(Char \cup {Junk}) /\ Len(print_buf) = BUFSIZE
    BY DEF Stream, NoslptTypeOK
  <2>2. Buffered \in Seq(Char \cup {Junk}) /\ Len(Buffered) = buf_len
    BY <2>1 DEF Buffered
  <2>3. Len(written \o Buffered) = Len(written) + Len(Buffered)
    BY <2>1, <2>2
  <2> QED
    BY <1>1, <2>1, <2>2, <2>3
<1> SUFFICES ASSUME ~ failed PROVE Ended'
  BY <1>1 DEF Ended
<1>3. \A n : Opens(n) => Opens(n)'
  BY <1>1 DEF Opens
<1>4. ASSUME NEW n \in 1 .. Len(written'), due[n] = FF, n \notin cuts'
      PROVE  Opens(n)'
  <2>1. CASE n <= Len(written)
    BY <1>1, <1>2, <1>3, <1>4, <2>1 DEF Ended
  <2>2. CASE n > Len(written)
    <3> DEFINE m == n - Len(written)
    <3>1. m \in 1 .. buf_len /\ n = Len(written) + m /\ m # buf_len
      BY <1>1, <1>2, <1>4, <2>2
    <3>2. due[Len(written) + m] = FF
      BY <1>4, <3>1
    <3> HIDE DEF m
    <3>3. Opens(Len(written) + m)
      BY <1>1, <3>1, <3>2 DEF Ended
    <3> QED
      BY <1>3, <3>1, <3>3
  <2> QED
    BY <1>2, <2>1, <2>2
<1>5. caller = "need_flush" => Len(written') - BUFSIZE \in cuts' \cup {0}
  <2> SUFFICES ASSUME caller = "need_flush" PROVE Len(written') - BUFSIZE \in cuts' \cup {0}
    OBVIOUS
  <2>1. buf_len = BUFSIZE
    BY <1>1 DEF Ended
  <2>2. Len(written') - BUFSIZE = Len(written)
    BY <1>2, <2>1
  <2> QED
    BY <1>1, <2>2 DEF Stream, Pages
<1> QED
  BY <1>1, <1>4, <1>5 DEF Ended

LEMMA EndedClose == ASSUME Stream, Ended, Close PROVE Ended'
<1> USE NoslptAssumption DEF NoslptAssumption
<1>1. /\ pc = "close" /\ pc' = "idle" /\ caller' = "flush_now"
      /\ UNCHANGED <<due, written, cuts, failed>>
      /\ \/ caller = "flush_now" /\ buf_len' = 0
         \/ caller = "need_flush" /\ buf_len' = 1
  BY DEF Close, HookEnds, stream
<1>2. Len(written) \in Nat /\ Len(written) \in cuts
  BY <1>1 DEF Stream, Pages, NoslptTypeOK
<1> SUFFICES ASSUME ~ failed PROVE Ended'
  BY <1>1 DEF Ended
<1>3. \A n : Opens(n) => Opens(n)'
  BY <1>1 DEF Opens
<1>4. \A m \in 1 .. buf_len' : Opens(Len(written) + m)'
  <2> SUFFICES ASSUME NEW m \in 1 .. buf_len' PROVE Opens(Len(written) + m)
    BY <1>1 DEF Opens
  <2>1. caller = "need_flush" /\ m = 1
    BY <1>1
  <2>2. Len(written) - BUFSIZE \in cuts \cup {0}
    BY <1>1, <2>1 DEF Ended
  <2>3. (Len(written) + m) - 1 = Len(written)
    BY <1>2, <2>1
  <2> QED
    BY <1>2, <2>2, <2>3 DEF Opens
<1> QED
  BY <1>1, <1>3, <1>4 DEF Ended

LEMMA EndedStep == Stream /\ Ended /\ [Next]_vars => Ended'
<1> SUFFICES ASSUME Stream, Ended, [Next]_vars PROVE Ended'
  OBVIOUS
<1>1. CASE \E c \in Char : int17_hook(c)
  BY <1>1, EndedHook
<1>2. CASE Write \/ Close
  BY <1>2, EndedWrite, EndedClose
<1>3. CASE CreateFails
  BY <1>3 DEF CreateFails, Ended
<1>4. CASE Create
  <2>1. pc = "create" /\ pc' = "write" /\ UNCHANGED <<buf_len, caller, due, written, cuts, failed>>
    BY <1>4 DEF Create, stream
  <2> QED
    BY <2>1 DEF Ended, Opens
<1>5. ASSUME UNCHANGED <<buffer, caller, stream>>,
             pc' = pc \/ {pc, pc'} \subseteq {"idle", "open", "copy"}
      PROVE  Ended'
  <2>1. UNCHANGED <<buf_len, caller, due, written, cuts, failed>>
    BY <1>5 DEF buffer, stream
  <2>2. (pc' = "close" <=> pc = "close") /\ (pc \in {"create", "write"} => pc' = pc)
    BY <1>5
  <2> QED
    BY <2>1, <2>2 DEF Ended, Opens
<1>6. CASE PrintFile \/ OpenDest \/ CopyFile
  BY <1>5, <1>6 DEF PrintFile, OpenDest, CopyFile
<1>7. CASE cmd_mount \/ Poll \/ Handle \/ Unmount \/ Delete \/ UNCHANGED vars
  BY <1>5, <1>7 DEF cmd_mount, Poll, Handle, Unmount, Delete, vars, noslptVars
<1> QED
  BY <1>1, <1>2, <1>3, <1>4, <1>6, <1>7 DEF Next, LptStep

(* While every create works, a form feed ends its page, whatever the size   *)
(* of the buffer; where text stands behind one on the same page, the form   *)
(* feed met a full buffer and opened that page.                             *)
THEOREM SpoolPagesEndAtFormFeed == Spec => []PagesEndAtFormFeed
<1>1. Init => Ended
  BY DEF Init, NoslptInit, Ended
<1>2. Init /\ [][Next]_vars => [](Stream /\ Ended)
  BY <1>1, StreamInit, StreamStep, EndedStep, PTL
<1>3. Stream /\ Ended => PagesEndAtFormFeed
  BY DEF Ended, Opens, PagesEndAtFormFeed, Stream, NoslptTypeOK
<1> QED
  BY <1>2, <1>3, PTL DEF Spec
==============================================================================
