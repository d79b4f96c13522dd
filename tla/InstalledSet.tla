---------------------------- MODULE InstalledSet ----------------------------
(***************************************************************************)
(* What registry.h promises of INSTALLED.DB, with no file in sight: a      *)
(* bounded map from package ids to the version installed.  A call asks for *)
(* one id to get a version, or None to be removed; it is refused at once   *)
(* or takes effect in one indivisible step and then returns OK.  A fault   *)
(* may lose entries and spoil the answer; it never invents an entry, and   *)
(* never changes one but the entry of the call.                            *)
(***************************************************************************)
EXTENDS Naturals, FiniteSets

CONSTANTS Ids,          \* package ids, equal up to case
          Versions,     \* version strings
          MaxEntries,   \* NOS_REG_MAX_ENTRIES
          None          \* "not installed"

VARIABLES installed,
          phase,        \* "idle", "asked" or "done"
          call,         \* what the running call asks for
          rc,           \* the answer to the last call
          faulty        \* has a file call or the power failed so far?

vars == <<installed, phase, call, rc, faulty>>

Calls == [id : Ids, ver : Versions \cup {None}]

Registered == {id \in Ids : installed[id] # None}

Init ==
    /\ installed = [id \in Ids |-> None]
    /\ phase = "idle"
    /\ call \in Calls
    /\ rc = "none"
    /\ faulty = FALSE

(* "Adds or replaces the registry entry", within the table's capacity;      *)
(* "Removes the entry for id."                                              *)
Allowed(c) ==
    \/ c.id \in Registered
    \/ c.ver # None /\ Cardinality(Registered) < MaxEntries

Ask(c) ==
    /\ phase = "idle"
    /\ Allowed(c)
    /\ phase' = "asked"
    /\ call' = c
    /\ rc' = "none"
    /\ UNCHANGED <<installed, faulty>>

Refuse(c) ==
    /\ phase = "idle"
    /\ ~ Allowed(c)
    /\ rc' = IF c.ver = None THEN "notfound" ELSE "full"
    /\ UNCHANGED <<installed, phase, call, faulty>>

Changed == [installed EXCEPT ![call.id] = call.ver]

Change ==
    /\ phase = "asked"
    /\ installed' = Changed
    /\ phase' = "done"
    /\ UNCHANGED <<call, rc, faulty>>

Return ==
    /\ phase = "done"
    /\ phase' = "idle"
    /\ rc' = "ok"
    /\ UNCHANGED <<installed, call, faulty>>

(* What is left of a map when some of its entries are lost.                 *)
Remnants(map) ==
    {[id \in Ids |-> IF id \in kept THEN map[id] ELSE None] : kept \in SUBSET Ids}

Fault ==
    /\ phase # "idle"
    /\ faulty' = TRUE
    /\ installed' \in Remnants(installed) \cup Remnants(Changed)
    /\ phase' \in {"idle", "asked", "done"}
    /\ rc' \in {rc, "none", "write"}
    /\ UNCHANGED call

Next == (\E c \in Calls : Ask(c) \/ Refuse(c)) \/ Change \/ Return \/ Fault

Spec == Init /\ [][Next]_vars
=============================================================================
