---------------------------- MODULE NpkgRegistry ----------------------------
(***************************************************************************)
(* The commands of NPKG as callers of src/npkg/registry.c.  Npkg says what *)
(* a command does to INSTALLED.DB between the other files; Registry is the *)
(* database with any caller.  Here Npkg remembers, in history variables    *)
(* that no step reads, what Registry remembers of its calls: every step of *)
(* a command is then a step of Registry or none of its business.           *)
(***************************************************************************)
EXTENDS Npkg

VARIABLES regTable,     \* the table the last call that writes left in memory
          regBefore,    \* history: the table when that call began
          regCall,      \* history: what it asks for
          regRc,        \* history: what it returned
          regFaults     \* history: the kinds of fault met so far

past == <<regTable, regBefore, regCall, regRc, regFaults>>

(* The DOS call reg_save makes next.                                        *)
Saving == [reg_write |-> "write", reg_remove |-> "remove", reg_rename |-> "rename"]
regPc == IF pc \in DOMAIN Saving THEN Saving[pc] ELSE "idle"

Reg == INSTANCE Registry WITH
    Versions <- Defs,
    g_reg <- regTable,
    pc <- regPc,
    rc <- regRc,
    call <- regCall,
    before <- regBefore,
    faults <- regFaults

------------------------------------------------------------------------------
(* nos_registry_add, nos_registry_remove: a call begins, or the table is    *)
(* full.                                                                    *)
Calls(c) ==
    /\ regTable' = g_reg'
    /\ regBefore' = reg_load(db)
    /\ \/ pc' = "reg_write" /\ regCall' = c /\ regRc' = "none"
       \/ pc' # "reg_write" /\ UNCHANGED regCall /\ regRc' = "full"
    /\ UNCHANGED regFaults

Returns(code) == regRc' = code /\ UNCHANGED <<regTable, regBefore, regCall>>
Meets(fault) == regFaults' = regFaults \cup {fault}

InitWithPast ==
    /\ Init
    /\ regTable = <<>> /\ regBefore = <<>> /\ regFaults = {}
    /\ regCall \in [id : Ids, ver : Defs \cup {Absent}]
    /\ regRc = "none"

(* Commands that start, and their steps on the other files.                 *)
Elsewhere ==
    \/ cmd_update
    \/ \E p \in Ids : cmd_info(p) \/ cmd_install(p) \/ cmd_remove(p)
    \/ FetchDef \/ FetchAndExtract \/ RunRemoveLines
    \/ AutoAppend \/ AutoCopy \/ AutoRemove \/ AutoRename
    \/ MenuAppend \/ MenuCopy \/ MenuRemove \/ MenuRename

NextWithPast ==
    \/ RegAdd /\ Calls([id |-> id, ver |-> g_pkg])
    \/ RegDrop /\ Calls([id |-> id, ver |-> Absent])
    \/ SaveWrite /\ pc' = "reg_remove" /\ UNCHANGED past
    \/ SaveWrite /\ pc' # "reg_remove" /\ Returns("write") /\ Meets("io")
    \/ SaveRemove /\ UNCHANGED past
    \/ SaveRename /\ Returns("ok") /\ UNCHANGED regFaults
    \/ PowerLoss /\ pc \in DOMAIN Saving /\ Returns("none") /\ Meets("power")
    \/ PowerLoss /\ pc \notin DOMAIN Saving /\ UNCHANGED past
    \/ Elsewhere /\ UNCHANGED past

SpecWithPast == InitWithPast /\ [][NextWithPast]_<<vars, past>>

(* The steps on INSTALLED.DB of any sequence of commands, with the power    *)
(* failures and refused files between them, are those of Registry: what is  *)
(* shown of it there, that its three DOS calls are one update of the set of *)
(* installed packages, holds of the database the commands leave.            *)
DrivesRegistry == Reg!Spec
==============================================================================
