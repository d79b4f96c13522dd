------------------------------- MODULE Spool --------------------------------
(***************************************************************************)
(* The print spool H:\PRINT: the hook of module Noslpt and NBRIDGE,        *)
(* src/bridge/bridge.c, write into it, one guest program at a time, and    *)
(* host_helpers/watch_print.py polls it from the host, where the operator  *)
(* may also delete files and drop the shared folder.                       *)
(***************************************************************************)
EXTENDS Noslpt, FiniteSets

VARIABLES mounted,      \* drive H: is there, and its directories with it
          dest,         \* the number NBRIDGE writes to, 0 when it does not
          full,         \* history: every number was taken when dest was chosen
          watcher,      \* the host script: "poll", "handle" or "dead"
          prn_files, seen,      \* its list of this pass, and the names it knows
          processed     \* history: the files process_file was given since they were
                        \* created

nbridge == <<dest, full>>
host == <<watcher, prn_files, seen>>
vars == <<noslptVars, mounted, nbridge, host, processed>>

Numbers == 0 .. FileMax

Init ==
    /\ NoslptInit
    /\ mounted = FALSE
    /\ dest = 0 /\ full = FALSE
    /\ watcher = "poll" /\ prn_files = <<>> /\ seen = {}
    /\ processed = {}

------------------------------------------------------------------------------
(* A program prints; the DOS calls of a flush meet the share as it is.  A   *)
(* create truncates the file that has the name and makes a new one of it.   *)
LptStep ==
    \/ mounted /\ Create /\ processed' = processed \ {0}
    \/ /\ (\E c \in Char : int17_hook(c)) \/ CreateFails \/ Write \/ Close
       /\ UNCHANGED processed

(* The drive is looked for after each NET USE.                              *)
Mounts == mounted' \in {mounted, TRUE}

(* NBRIDGE MOUNT and DIRS: the two NET USE commands may both fail; mkdir is *)
(* not looked at.                                                           *)
cmd_mount ==
    /\ pc = "idle"
    /\ Mounts
    /\ UNCHANGED <<noslptVars, nbridge, host, processed>>

(* mutant: the search stops one number early *)
NextShort ==
    LET free == 1 .. FileMax - 1 \ spool
    IN  IF free = {} THEN 1 ELSE CHOOSE n \in free : \A k \in free : n <= k

(* The first number without a file, 001 when every number is taken.         *)
next_print_path ==
    LET free == 1 .. FileMax \ spool
    IN  IF free = {} THEN 1 ELSE CHOOSE n \in free : \A k \in free : n <= k

(* NBRIDGE PRINT: nothing without H:, or where the file cannot be created.  *)
PrintFile ==
    /\ pc = "idle"
    /\ mounted
    /\ dest' = next_print_path /\ pc' = "open"
    /\ full' = (1 .. FileMax \subseteq spool)
    /\ UNCHANGED <<buffer, caller, spool, stream, mounted, host, processed>>

OpenDest ==
    /\ pc = "open"
    /\ \/ /\ mounted
          /\ spool' = spool \cup {dest}
          /\ processed' = processed \ {dest}
          /\ pc' = "copy" /\ UNCHANGED dest
       \/ pc' = "idle" /\ dest' = 0 /\ UNCHANGED <<spool, processed>>
    /\ full' = FALSE
    /\ UNCHANGED <<buffer, caller, stream, mounted, host>>

(* The copy loop: fputc is not looked at either.                            *)
CopyFile ==
    /\ pc = "copy" /\ pc' = "idle" /\ dest' = 0
    /\ UNCHANGED <<buffer, caller, spool, stream, mounted, full, host, processed>>

------------------------------------------------------------------------------
(* watch: the sorted names of this pass.  A pass that may not read the      *)
(* folder has no names and comes round again, and so does nothing.          *)
Poll ==
    /\ watcher = "poll"
    /\ prn_files' = SetToSortSeq(spool, <)
    /\ watcher' = IF prn_files' = <<>> THEN "poll" ELSE "handle"
    /\ UNCHANGED <<noslptVars, mounted, nbridge, seen, processed>>

(* mutant: a known name ends the pass *)
HandleBreaks ==
    /\ watcher = "handle"
    /\ LET n == Head(prn_files)
       IN  /\ seen' = seen \cup {n}
           /\ processed' = IF n \in seen THEN processed ELSE processed \cup ({n} \cap spool)
           /\ watcher' = IF n \notin seen \cup spool THEN "dead"
                         ELSE IF n \in seen \/ Len(prn_files) = 1 THEN "poll" ELSE "handle"
    /\ prn_files' = IF watcher' = "handle" THEN Tail(prn_files) ELSE <<>>
    /\ UNCHANGED <<noslptVars, mounted, nbridge>>

(* A name not known yet is noted and its file processed; stat() of one that *)
(* is gone by then raises an error that nothing catches.  A known name is   *)
(* passed over, whatever file has it now.                                   *)
Handle ==
    /\ watcher = "handle"
    /\ LET n == Head(prn_files)
       IN  /\ seen' = seen \cup {n}
           /\ processed' = IF n \in seen THEN processed ELSE processed \cup ({n} \cap spool)
           /\ watcher' = IF n \notin seen \cup spool THEN "dead"
                         ELSE IF Len(prn_files) = 1 THEN "poll" ELSE "handle"
    /\ prn_files' = IF watcher' = "dead" THEN <<>> ELSE Tail(prn_files)
    /\ UNCHANGED <<noslptVars, mounted, nbridge>>

(* The operator deletes a file that no program has open.                    *)
Delete ==
    /\ \E n \in spool :
          /\ ~ (pc = "copy" /\ n = dest) /\ ~ (pc \in {"write", "close"} /\ n = 0)
          /\ spool' = spool \ {n} /\ processed' = processed \ {n}
    /\ UNCHANGED <<buffer, caller, pc, stream, mounted, nbridge, host>>

(* The shared folder goes away between two calls of the guest.              *)
Unmount ==
    /\ pc = "idle" /\ mounted /\ mounted' = FALSE
    /\ UNCHANGED <<noslptVars, nbridge, host, processed>>

Next ==
    \/ LptStep /\ UNCHANGED <<mounted, nbridge, host>>
    \/ cmd_mount
    \/ PrintFile \/ OpenDest \/ CopyFile
    \/ Poll \/ Handle
    \/ Delete \/ Unmount

(* The host script polls every few seconds as long as it lives, and some    *)
(* pass after any other may read the folder.                                *)
Spec == Init /\ [][Next]_vars /\ WF_vars(Poll) /\ WF_vars(Handle)

------------------------------------------------------------------------------
(* NBRIDGE writes over no file of the hook's, and over one of its own only  *)
(* where it found every number taken.                                       *)
OverwritesOnlyWhenFull ==
    [][OpenDest /\ pc' = "copy" /\ dest \in spool => dest # 0 /\ full]_vars

(* A file under a name the script does not know yet is processed, whatever  *)
(* other files it comes among and whatever happens to them, unless it goes  *)
(* away first or the script has died of a file that went away under its     *)
(* hands.                                                                   *)
NewNamesProcessed ==
    \A n \in Numbers :
        n \in spool /\ n \notin seen ~> n \in processed \/ n \notin spool \/ watcher = "dead"
==============================================================================
