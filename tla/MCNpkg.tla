------------------------------- MODULE MCNpkg -------------------------------
(* Bounds for TLC: two packages, the first with variables and a menu entry, *)
(* the second with what the cfg gives it, and one version.                  *)
EXTENDS Npkg, TLC

CONSTANTS p1, p2

MCIds == {p1, p2}
MCOne == {p1}
MCVersions == {"v1"}

(* A user who keeps running NPKG UPDATE and NPKG INSTALL p1, on a network   *)
(* that keeps coming back.                                                  *)
PatientSpec ==
    /\ Spec
    /\ SF_vars(cmd_install(p1) /\ pc' = "def")
    /\ SF_vars(FetchDef /\ id = p1 /\ pc' = "archive" /\ g_pkg' \in Versions)
    /\ SF_vars(FetchAndExtract /\ id = p1 /\ pc' = "auto_add")
    /\ SF_vars(cmd_update /\ index' = Ids)

(* NPKG.TXT:116, "If downloads fail: ... Try NPKG INSTALL again": the user  *)
(* who does gets the package in the end, whatever half-extracted directory, *)
(* refused file or spoilt index an attempt left.  One thing stops that user *)
(* for good: an error page that HTGET left for the definition, which stays  *)
(* in the cache and is used at every attempt.                               *)
OnlyTheCacheStops == <>(Registered(p1) \/ defs[p1] = "page")
=============================================================================
