-------------------------------- MODULE Fetch --------------------------------
(***************************************************************************)
(* Downloading one archive, nos_fetch_archive in src/npkg/fetch.c: up to   *)
(* NOS_FETCH_RETRIES runs of HTGET per URL, the URLs in order, then an     *)
(* optional size check.  HTGET is an external program: it ends with any    *)
(* exit code and leaves any file, or none, behind.                         *)
(*                                                                         *)
(* nos_install_run passes only non-empty URLs, cut to NOS_PKG_URL_LEN by   *)
(* the parser, so the ERR_BADURL returns are not reached from it.  A file  *)
(* is told apart by what its size says of it, and by the HTGET run that    *)
(* wrote it.                                                               *)
(***************************************************************************)
EXTENDS Naturals

CONSTANTS MaxUrls,      \* NOS_FETCH_MAX_URLS
          Retries,      \* NOS_FETCH_RETRIES
          Absent        \* no file at the destination

Slots == 1 .. MaxUrls

(* What nos_install_run passes: `sized` says that expected_bytes > 0.       *)
Sources == [url_count : Slots, sized : BOOLEAN]

(* A page is below NOS_FETCH_MIN_BYTES, "other" is above it but not of      *)
(* expected_bytes, "archive" has the expected size.                         *)
Kinds == {"page", "other", "archive"}

Earlier == <<0, 0>>     \* written by a call of nos_fetch_archive that is over

Runs == (Slots \X (1 .. Retries)) \cup {Earlier}

Files == [kind : Kinds, run : Runs] \cup {Absent}

ASSUME FetchAssumption ==
    /\ MaxUrls \in Nat \ {0}
    /\ Retries \in Nat \ {0}
    /\ Absent \notin [kind : Kinds, run : Runs]

VARIABLES src,          \* the URLs and the size of the definition
          url,          \* i + 1, the URL being tried
          attempt,      \* the attempt at that URL
          rc,           \* the local rc
          dest,         \* C:\NOS\NPKG\DNLD\<archive>
          pc,
          ret,          \* what the last call returned
          cleared,      \* history: did the last remove(dest) clear the way?
          tries         \* history: HTGET runs per URL in this call

vars == <<src, url, attempt, rc, dest, pc, ret, cleared, tries>>

Urls == 1 .. src.url_count

Init ==
    /\ src \in Sources
    /\ url = 1 /\ attempt = 1 /\ rc = "htget"
    /\ dest \in [kind : Kinds, run : {Earlier}] \cup {Absent}
    /\ pc = "idle"
    /\ ret = "none"
    /\ cleared = "yes"
    /\ tries = [u \in Slots |-> 0]

(* nos_install_run calls nos_fetch_archive.                                 *)
Call ==
    /\ pc = "idle"
    /\ src' \in Sources
    /\ url' = 1 /\ attempt' = 1 /\ rc' = "htget"
    /\ dest' = IF dest = Absent THEN Absent ELSE [dest EXCEPT !.run = Earlier]
    /\ pc' = "download"
    /\ ret' = "none"
    /\ cleared' = "yes"
    /\ tries' = [u \in Slots |-> 0]

(* HTGET finds `before` at the destination and leaves the result there.     *)
Htget(before) ==
    /\ rc' \in {"ok", "htget"}
    /\ dest' \in [kind : Kinds, run : {<<url, attempt>>}] \cup {before}

(* The count of runs stops one above the number the code allows.            *)
Counted == tries' = [tries EXCEPT ![url] = IF @ > Retries THEN @ ELSE @ + 1]

(* mutant: the stale file of an earlier attempt is not deleted *)
DownloadOver ==
    /\ pc = "download"
    /\ Htget(dest) /\ cleared' = "yes"
    /\ Counted
    /\ pc' = "judge"
    /\ UNCHANGED <<src, url, attempt, ret>>

(* remove(dest), whose result is ignored, then one run of HTGET.            *)
Download ==
    /\ pc = "download"
    /\ \/ Htget(Absent) /\ cleared' = "yes"
       \/ dest # Absent /\ Htget(dest) /\ cleared' = "no"
    /\ Counted
    /\ pc' = "judge"
    /\ UNCHANGED <<src, url, attempt, ret>>

Return(code) == pc' = "idle" /\ ret' = code /\ UNCHANGED <<url, attempt>>

(* nos_fetch_file_size says -1 of a missing file.                           *)
TooSmall == dest \notin [kind : Kinds \ {"page"}, run : Runs]

(* mutant: the loop condition is < for <= *)
RetryOneShort ==
    \/ /\ attempt + 1 < Retries
       /\ attempt' = attempt + 1
       /\ pc' = "download"
       /\ UNCHANGED <<url, ret>>
    \/ /\ attempt + 1 >= Retries /\ url < src.url_count
       /\ url' = url + 1 /\ attempt' = 1
       /\ pc' = "download"
       /\ UNCHANGED ret
    \/ /\ attempt + 1 >= Retries /\ url = src.url_count
       /\ Return(rc')

(* mutant: the attempt counter is set back after every failure *)
RetryForever ==
    /\ attempt' = 1
    /\ pc' = "download"
    /\ UNCHANGED <<url, ret>>

(* An attempt failed: again, the next URL, or out of both.                  *)
Retry ==
    \/ /\ attempt < Retries
       /\ attempt' = attempt + 1
       /\ pc' = "download"
       /\ UNCHANGED <<url, ret>>
    \/ /\ attempt = Retries /\ url < src.url_count
       /\ url' = url + 1 /\ attempt' = 1
       /\ pc' = "download"
       /\ UNCHANGED ret
    \/ /\ attempt = Retries /\ url = src.url_count
       /\ Return(rc')

(* The exit code of HTGET, then the size of what it left.                   *)
Judge ==
    /\ pc = "judge"
    /\ \/ rc # "ok" /\ UNCHANGED rc /\ Retry
       \/ rc = "ok" /\ TooSmall /\ rc' = "small" /\ Retry
       \/ /\ rc = "ok" /\ ~ TooSmall
          /\ pc' = "verify"
          /\ UNCHANGED <<url, attempt, rc, ret>>
    /\ UNCHANGED <<src, dest, cleared, tries>>

(* The exact size, when the definition gives one; no URL is tried after it. *)
Verify ==
    /\ pc = "verify"
    /\ rc' = IF src.sized /\ dest.kind # "archive" THEN "size" ELSE "ok"
    /\ Return(rc')
    /\ UNCHANGED <<src, dest, cleared, tries>>

Step == Download \/ Judge \/ Verify

Next == Call \/ Step

Spec == Init /\ [][Next]_vars /\ WF_vars(Step)

------------------------------------------------------------------------------
(* Type invariant.                                                          *)
TypeOK ==
    /\ src \in Sources
    /\ url \in Urls
    /\ attempt \in 1 .. Retries
    /\ rc \in {"ok", "htget", "small", "size"}
    /\ dest \in Files
    /\ pc \in {"idle", "download", "judge", "verify"}
    /\ ret \in {"none", "ok", "htget", "small", "size"}
    /\ cleared \in {"yes", "no"}
    /\ tries \in [Slots -> 0 .. Retries]

(* An archive handed to the extractor was written by the last HTGET run of  *)
(* this call, is no error page, and has the size the definition asks for:   *)
(* what an earlier attempt, URL or NPKG command left in DNLD is handed on   *)
(* only where remove() could not take it away and HTGET did not write it.   *)
OkMeansFreshArchive ==
    pc = "idle" /\ ret = "ok" =>
        /\ dest # Absent
        /\ dest.run = <<url, attempt>> \/ cleared = "no"
        /\ dest.kind # "page"
        /\ src.sized => dest.kind = "archive"

(* A download failure is reported only after every URL had its full number  *)
(* of attempts (the size check aside).                                      *)
GivesUpAfterAll ==
    pc = "idle" /\ ret \in {"htget", "small"} => \A u \in Urls : tries[u] = Retries

(* A fallback is tried only once every URL before it is exhausted.          *)
FallbacksInOrder == \A u, v \in Urls : u < v /\ tries[v] > 0 => tries[u] = Retries

(* Every call returns: the retries are bounded whatever HTGET does.         *)
FetchReturns == pc # "idle" ~> pc = "idle"
==============================================================================
