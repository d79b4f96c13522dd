------------------------------- MODULE Noslpt -------------------------------
(***************************************************************************)
(* NOSLPT, the printer hook of src/bridge/noslpt.asm: characters for LPT1  *)
(* are kept in a buffer, which goes to the spool at a form feed or when it *)
(* is full.  INT 17h is called by the printing program, so that no guest   *)
(* program runs during a flush; the host looks at the spool at any time.   *)
(* Module Spool adds NBRIDGE and the host.                                 *)
(***************************************************************************)
EXTENDS Integers, Sequences, SequencesExt

CONSTANTS Text,         \* characters other than the form feed
          BUFSIZE,      \* 512 in the code
          Stamps,       \* where in print_buf update_filename stores: 274 .. 276
          FileMax,      \* 999 in the code
          MaxPrinted    \* bound on the characters printed

FF == "FF"
Junk == "junk"          \* a byte that nobody printed
Char == Text \cup {FF}

ASSUME NoslptAssumption ==
    /\ BUFSIZE \in Nat \ {0} /\ Stamps \subseteq 1 .. BUFSIZE
    /\ FileMax \in Nat \ {0} /\ MaxPrinted \in Nat
    /\ FF \notin Text /\ Junk \notin Char

VARIABLES print_buf, buf_len, file_ctr,     \* the resident data
          caller,       \* where flush_buffer returns to
          pc,           \* the guest: "idle", or the next DOS call of the flush
          spool,        \* H:\PRINT: the numbers nnn of the PRINTnnn.PRN there
          due, written, cuts,   \* history: the characters that should get there, those
                                \* handed to DOS, and where pages end among these
          failed                \* history: a create failed

buffer == <<print_buf, buf_len, file_ctr>>
stream == <<due, written, cuts, failed>>
noslptVars == <<buffer, caller, pc, spool, stream>>

Buffered == SubSeq(print_buf, 1, buf_len)

NoslptInit ==
    /\ print_buf = [n \in 1 .. BUFSIZE |-> Junk] /\ buf_len = 0 /\ file_ctr = 1
    /\ caller = "flush_now" /\ pc = "idle"
    /\ spool = {}
    /\ due = <<>> /\ written = <<>> /\ cuts = {} /\ failed = FALSE

(* mutant: only a full buffer is flushed *)
HookNoFormFeed(c) ==
    /\ pc = "idle" /\ Len(due) < MaxPrinted
    /\ due' = Append(due, c)
    /\ \/ /\ buf_len < BUFSIZE
          /\ print_buf' = [print_buf EXCEPT ![buf_len + 1] = c]
          /\ buf_len' = buf_len + 1
          /\ UNCHANGED <<caller, pc>>
       \/ /\ buf_len >= BUFSIZE
          /\ caller' = "need_flush" /\ pc' = "create"
          /\ UNCHANGED <<print_buf, buf_len>>
    /\ UNCHANGED <<file_ctr, spool, written, cuts, failed>>

(* int17_hook: a full buffer is flushed before the character is stored, a   *)
(* form feed flushes after it; one that meets a full buffer does not.       *)
int17_hook(c) ==
    /\ pc = "idle" /\ Len(due) < MaxPrinted
    /\ due' = Append(due, c)
    /\ \/ /\ buf_len < BUFSIZE
          /\ print_buf' = [print_buf EXCEPT ![buf_len + 1] = c]
          /\ buf_len' = buf_len + 1
          /\ pc' = IF c = FF THEN "create" ELSE "idle"
          /\ caller' = "flush_now"
       \/ /\ buf_len >= BUFSIZE
          /\ caller' = "need_flush" /\ pc' = "create"
          /\ UNCHANGED <<print_buf, buf_len>>
    /\ UNCHANGED <<file_ctr, spool, written, cuts, failed>>

(* The rest of the hook once flush_buffer has left len characters: what it *)
(* then stores is AL, which flush_buffer has used for its DOS calls.        *)
HookEnds(buf, len) ==
    /\ pc' = "idle" /\ caller' = "flush_now"
    /\ \/ /\ caller = "flush_now"
          /\ print_buf' = buf /\ buf_len' = len
       \/ /\ caller = "need_flush"
          /\ print_buf' = [buf EXCEPT ![1] = Junk] /\ buf_len' = 1

(* update_filename: FILE_PATH_D1 counts from the start of the section, not  *)
(* from 0100h, and so names a place in the buffer: the three digits land    *)
(* there and the path stays PRINT000.PRN.                                   *)
Stamped == [n \in 1 .. BUFSIZE |-> IF n \in Stamps THEN Junk ELSE print_buf[n]]

(* mutant: a failed create empties the buffer *)
CreateFailsEmpty ==
    /\ pc = "create"
    /\ failed' = TRUE
    /\ HookEnds(Stamped, 0)
    /\ UNCHANGED <<file_ctr, spool, due, written, cuts>>

(* A create that fails leaves the buffer as it is, but where the hook waits *)
(* for room the buffer then starts anew.                                    *)
CreateFails ==
    /\ pc = "create"
    /\ failed' = TRUE
    /\ HookEnds(Stamped, buf_len)
    /\ due' = IF caller = "flush_now" THEN due
              ELSE SubSeq(due, 1, Len(written)) \o <<Last(due)>>
    /\ UNCHANGED <<file_ctr, spool, written, cuts>>

Create ==
    /\ pc = "create" /\ pc' = "write"
    /\ print_buf' = Stamped
    /\ spool' = spool \cup {0}
    /\ UNCHANGED <<buf_len, file_ctr, caller, stream>>

(* How much DOS could write is not looked at.                               *)
Write ==
    /\ pc = "write" /\ pc' = "close"
    /\ written' = written \o Buffered
    /\ cuts' = cuts \cup {Len(written')}
    /\ UNCHANGED <<buffer, caller, spool, due, failed>>

Close ==
    /\ pc = "close"
    /\ file_ctr' = IF file_ctr < FileMax THEN file_ctr + 1 ELSE 1
    /\ HookEnds(print_buf, 0)
    /\ UNCHANGED <<spool, stream>>

------------------------------------------------------------------------------
(* Type invariant of the variables of this module.                          *)
NoslptTypeOK ==
    /\ print_buf \in [1 .. BUFSIZE -> Char \cup {Junk}]
    /\ buf_len \in 0 .. BUFSIZE
    /\ file_ctr \in 1 .. FileMax
    /\ caller \in {"flush_now", "need_flush"}
    /\ spool \subseteq 0 .. FileMax
    /\ due \in Seq(Char) /\ written \in Seq(Char \cup {Junk})
    /\ cuts \subseteq Nat /\ failed \in BOOLEAN

(* Characters that DOS has, and those it will get next.                     *)
Captured == IF pc = "close" THEN written ELSE written \o Buffered

(* The places of a page where the code stores a byte of its own: the digits *)
(* of update_filename, and AL in the first place of a buffer that follows a *)
(* full one.                                                                *)
Spoilt == {p + s : p \in cuts \cup (IF failed THEN {0} ELSE {}), s \in {1}}
            \cup {p + s : p \in cuts \cup {0}, s \in Stamps}

(* No character is lost, doubled or moved on its way through the buffer,    *)
(* whatever flushes fail: what was handed to DOS and what is buffered is    *)
(* what was printed, less each buffer that a failed create gave up, and     *)
(* less the places that the code spoils.                                    *)
StreamKept ==
    LET waiting == IF pc # "idle" /\ caller = "need_flush" THEN 1 ELSE 0
    IN  /\ NoslptTypeOK
        /\ Len(Captured) + waiting = Len(due)
        /\ \A n \in DOMAIN Captured :
              Captured[n] = due[n] \/ (Captured[n] = Junk /\ n \in Spoilt)

(* A page ends at a form feed (noslpt.asm:7): while every create works,     *)
(* text stands behind one on the same page only where the form feed met a   *)
(* full buffer and opened the next page.                                    *)
PagesEndAtFormFeed ==
    failed \/ \A n \in DOMAIN written :
        due[n] = FF /\ n \notin cuts =>
            n - 1 \in cuts /\ n - 1 - BUFSIZE \in cuts \cup {0}
==============================================================================
