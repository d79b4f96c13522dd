----------------------------- MODULE NpkgFiles -----------------------------
(***************************************************************************)
(* What the models of the files NPKG keeps have in common.  A file is a    *)
(* sequence of lines or of entries, or Absent.                             *)
(***************************************************************************)
CONSTANTS Ids,          \* package ids
          Absent        \* a file that does not exist

(* fopen(..., "a") makes the file when there is none.                       *)
Text(f) == IF f = Absent THEN <<>> ELSE f
=============================================================================
