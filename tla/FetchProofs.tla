----------------------------- MODULE FetchProofs -----------------------------
(***************************************************************************)
(* The safety properties of Fetch, for any number of URLs and attempts.    *)
(***************************************************************************)
EXTENDS Fetch, TLAPS

(* What ties the two loop counters to the runs made so far: the URLs before *)
(* the current one are exhausted, those after it untouched, and in between  *)
(* two attempts the current one was run once per attempt.                   *)
Progress ==
    /\ \A u \in Slots : u < url => tries[u] = Retries
    /\ \A u \in Slots : u > url => tries[u] = 0
    /\ pc = "download" => tries[url] = attempt - 1
    /\ pc \in {"judge", "verify"} => tries[url] = attempt

(* From HTGET's return on, the destination is absent or was written by the  *)
(* last run, if remove() worked; what reaches the size check is a whole     *)
(* file.                                                                    *)
Fresh ==
    /\ pc \in {"judge", "verify"} => dest = Absent \/ dest.run = <<url, attempt>> \/ cleared = "no"
    /\ pc = "judge" => rc \in {"ok", "htget"}
    /\ pc = "verify" => rc = "ok" /\ ~ TooSmall

IInv == TypeOK /\ Progress /\ Fresh /\ OkMeansFreshArchive /\ GivesUpAfterAll

LEMMA FetchInit == Init => IInv
<1> SUFFICES ASSUME Init PROVE IInv
  OBVIOUS
<1> USE FetchAssumption DEF FetchAssumption, Urls, Slots, Sources
<1>1. TypeOK
  BY DEF Init, TypeOK, Files, Runs, Earlier, Kinds
<1>2. Progress
  BY DEF Init, Progress
<1>3. Fresh /\ OkMeansFreshArchive /\ GivesUpAfterAll
  BY DEF Init, Fresh, OkMeansFreshArchive, GivesUpAfterAll
<1> QED
  BY <1>1, <1>2, <1>3 DEF IInv

(* A failed attempt, whichever way it is followed up.                       *)
LEMMA RetryKeeps ==
    ASSUME IInv, pc = "judge", Retry, rc' \in {"htget", "small"},
           UNCHANGED <<src, dest, cleared, tries>>
    PROVE  IInv'
<1> USE FetchAssumption DEF FetchAssumption, Urls, Slots, Sources
<1>1. CASE attempt < Retries /\ attempt' = attempt + 1 /\ pc' = "download" /\ UNCHANGED <<url, ret>>
  BY <1>1 DEF IInv, TypeOK, Progress, Fresh, OkMeansFreshArchive, GivesUpAfterAll
<1>2. CASE /\ attempt = Retries /\ url < src.url_count /\ url' = url + 1 /\ attempt' = 1
           /\ pc' = "download" /\ UNCHANGED ret
  <2>1. Progress'
    BY <1>2 DEF IInv, TypeOK, Progress
  <2> QED
    BY <1>2, <2>1 DEF IInv, TypeOK, Fresh, OkMeansFreshArchive, GivesUpAfterAll
<1>3. CASE attempt = Retries /\ url = src.url_count /\ Return(rc')
  <2>1. \A u \in Urls : tries[u] = Retries
    BY <1>3 DEF IInv, TypeOK, Progress
  <2> QED
    BY <1>3, <2>1 DEF Return, IInv, TypeOK, Progress, Fresh, OkMeansFreshArchive, GivesUpAfterAll
<1> QED
  BY <1>1, <1>2, <1>3 DEF Retry

LEMMA FetchStep == IInv /\ [Next]_vars => IInv'
<1> SUFFICES ASSUME IInv, [Next]_vars PROVE IInv'
  OBVIOUS
<1> USE FetchAssumption DEF FetchAssumption, Urls, Slots, Sources
<1>1. CASE Call
  <2>1. dest' \in Files
    <3>1. CASE dest = Absent
      BY <1>1, <3>1 DEF Call, Files
    <3>2. CASE dest \in [kind : Kinds, run : Runs]
      <4>1. dest' = [dest EXCEPT !.run = Earlier]
        BY <1>1, <3>2 DEF Call
      <4>2. Earlier \in Runs
        BY DEF Runs
      <4> QED
        BY <3>2, <4>1, <4>2 DEF Files
    <3> QED
      BY <3>1, <3>2 DEF IInv, TypeOK, Files
  <2>2. TypeOK'
    BY <1>1, <2>1 DEF Call, TypeOK
  <2> QED
    BY <1>1, <2>2 DEF Call, IInv, TypeOK, Progress, Fresh, OkMeansFreshArchive, GivesUpAfterAll
<1>2. CASE Download
  <2>1. dest' \in Files /\ (dest' = Absent \/ dest'.run = <<url, attempt>> \/ cleared' = "no")
    <3>1. CASE Htget(Absent)
      BY <1>2, <3>1 DEF Htget, IInv, TypeOK, Runs, Files
    <3>2. CASE Htget(dest) /\ cleared' = "no"
      BY <1>2, <3>2 DEF Htget, IInv, TypeOK, Runs, Files
    <3> QED
      BY <1>2, <3>1, <3>2 DEF Download
  <2>2. tries' = [tries EXCEPT ![url] = attempt]
    <3>1. tries[url] = attempt - 1 /\ attempt \in 1 .. Retries
      BY <1>2 DEF Download, IInv, TypeOK, Progress
    <3>2. (IF tries[url] > Retries THEN tries[url] ELSE tries[url] + 1) = attempt
      BY <3>1
    <3> QED
      BY <1>2, <3>2 DEF Download, Counted
  <2>3. TypeOK'
    BY <1>2, <2>1, <2>2 DEF Download, Htget, IInv, TypeOK
  <2>4. Progress'
    BY <1>2, <2>2 DEF Download, IInv, TypeOK, Progress
  <2> QED
    BY <1>2, <2>1, <2>3, <2>4 DEF Download, Htget, IInv, Fresh, OkMeansFreshArchive, GivesUpAfterAll
<1>3. CASE Judge
  <2>1. CASE rc # "ok" /\ UNCHANGED rc /\ Retry
    <3>1. rc \in {"htget", "small"}
      BY <1>3, <2>1 DEF Judge, IInv, Fresh
    <3> QED
      BY <1>3, <2>1, <3>1, RetryKeeps DEF Judge
  <2>2. CASE rc = "ok" /\ TooSmall /\ rc' = "small" /\ Retry
    BY <1>3, <2>2, RetryKeeps DEF Judge
  <2>3. CASE rc = "ok" /\ ~ TooSmall /\ pc' = "verify" /\ UNCHANGED <<url, attempt, rc, ret>>
    BY <1>3, <2>3 DEF Judge, IInv, TypeOK, Progress, Fresh, TooSmall, OkMeansFreshArchive, GivesUpAfterAll
  <2> QED
    BY <1>3, <2>1, <2>2, <2>3 DEF Judge
<1>4. CASE Verify
  <2>1. dest # Absent /\ (dest.run = <<url, attempt>> \/ cleared = "no") /\ dest.kind # "page"
    BY <1>4 DEF Verify, IInv, TypeOK, Fresh, TooSmall, Kinds
  <2>2. rc' = "size" \/ (rc' = "ok" /\ (src.sized => dest.kind = "archive"))
    BY <1>4 DEF Verify
  <2> QED
    BY <1>4, <2>1, <2>2 DEF Verify, Return, IInv, TypeOK, Progress, Fresh, OkMeansFreshArchive, GivesUpAfterAll
<1>5. CASE UNCHANGED vars
  BY <1>5 DEF vars, IInv, TypeOK, Progress, Fresh, TooSmall, OkMeansFreshArchive, GivesUpAfterAll
<1> QED
  BY <1>1, <1>2, <1>3, <1>4, <1>5 DEF Next, Step

LEMMA FetchInvariant == Spec => []IInv
  BY FetchInit, FetchStep, PTL DEF Spec

(* Type correctness: the counters of nos_fetch_archive stay within its      *)
(* loops for any number of URLs and attempts.                               *)
THEOREM FetchTypeOK == Spec => []TypeOK
<1>1. IInv => TypeOK
  BY DEF IInv
<1> QED
  BY FetchInvariant, <1>1, PTL

(* What nos_fetch_archive hands to the extractor was written by its own     *)
(* last HTGET run, where remove() could clear the way for it, is no error   *)
(* page and has the size asked for.                                         *)
THEOREM FetchOkMeansFresh == Spec => []OkMeansFreshArchive
<1>1. IInv => OkMeansFreshArchive
  BY DEF IInv
<1> QED
  BY FetchInvariant, <1>1, PTL

(* nos_fetch_archive reports a failed download only when every URL has had  *)
(* all its attempts, and tries a fallback only after the URLs before it.    *)
THEOREM FetchPersists == Spec => [](GivesUpAfterAll /\ FallbacksInOrder)
<1>1. IInv => GivesUpAfterAll /\ FallbacksInOrder
  <2> SUFFICES ASSUME IInv PROVE FallbacksInOrder
    BY DEF IInv
  <2> QED
    BY FetchAssumption DEF FetchAssumption, IInv, TypeOK, Progress, FallbacksInOrder, Urls, Slots, Sources
<1> QED
  BY FetchInvariant, <1>1, PTL
==============================================================================
