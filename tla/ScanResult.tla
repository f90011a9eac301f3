----------------------------- MODULE ScanResult -----------------------------
(***************************************************************************)
(* The life of a Wi-Fi scan: fillNodes stores the result in flash and      *)
(* restarts the device, the start page leads to it (index_get_handler),    *)
(* the result page counts its views (result_download_get_handler), and     *)
(* app_main counts the restarts after the first view and deletes the       *)
(* result.  Every value is written to flash on its own, and the power may  *)
(* fail between two writes.                                                *)
(***************************************************************************)
EXTENDS Naturals

CONSTANTS
  Scans,       \* bound on the scans
  MaxShown     \* bound on the counter (the program has none)

ASSUME ScanAssumption ==
  Scans \in Nat /\ MaxShown \in Nat /\ MaxShown >= 4

VARIABLES
  scan_result,    \* flash: the number of the scan stored, or None
  result_shown,   \* flash: the counter, 0 when it is absent
  pc,             \* where the running program is
  scans,          \* history: the scans begun so far
  viewed,         \* history: somebody has viewed the stored result
  boots,          \* history: restarts since it was first viewed, up to 3
  uncounted,      \* history: a scan that stored nothing has erased the
                  \* counter of the stored result, which somebody had viewed
  cut             \* history: the power has failed between two writes that
                  \* belong together

history == <<scans, viewed, boots, uncounted, cut>>
vars == <<scan_result, result_shown, pc, history>>

None == 0
UpTo3(n) == IF n < 3 THEN n ELSE 3

\* The start page redirects to a result that nobody has seen, and has a button
\* for one that was seen less than three times.
Redirects == pc = "up" /\ scan_result # None /\ result_shown = 0
Offers == pc = "up" /\ scan_result # None /\ result_shown < 3

-----------------------------------------------------------------------------
\* Every variable has its type.
TypeOK ==
  /\ scan_result \in 0..Scans /\ scans \in 0..Scans
  /\ result_shown \in 0..MaxShown
  /\ pc \in {"boot", "erase_result", "erase_shown", "up", "scanning", "stored", "restart"}
  /\ viewed \in BOOLEAN /\ boots \in 0..3 /\ uncounted \in BOOLEAN /\ cut \in BOOLEAN

Init ==
  /\ scan_result = None /\ result_shown = 0 /\ pc = "boot"
  /\ scans = 0 /\ viewed = FALSE /\ boots = 0 /\ uncounted = FALSE /\ cut = FALSE

-----------------------------------------------------------------------------
(* app_main.                                                                *)

\* Faulty variant: a restart counts before the result was viewed.
BootCountsAlways ==
  /\ pc = "boot"
  /\ IF scan_result # None /\ result_shown >= 3
     THEN pc' = "erase_result" /\ UNCHANGED result_shown
     ELSE /\ pc' = "up"
          /\ result_shown' = IF scan_result # None THEN result_shown + 1 ELSE result_shown
  /\ UNCHANGED <<scan_result, history>>

\* Faulty variant: the counter is not increased by a restart.
BootNoCount ==
  /\ pc = "boot"
  /\ pc' = IF scan_result # None /\ result_shown >= 3 THEN "erase_result" ELSE "up"
  /\ UNCHANGED <<scan_result, result_shown, history>>

\* A result viewed three times is deleted; one viewed less is counted on.
Boot ==
  /\ pc = "boot"
  /\ IF scan_result # None /\ result_shown >= 3
     THEN pc' = "erase_result" /\ UNCHANGED result_shown
     ELSE /\ pc' = "up"
          /\ result_shown' = IF scan_result # None /\ result_shown > 0
                             THEN result_shown + 1 ELSE result_shown
  /\ UNCHANGED <<scan_result, history>>

EraseResult ==
  /\ pc = "erase_result" /\ pc' = "erase_shown"
  /\ scan_result' = None
  /\ UNCHANGED <<result_shown, history>>

EraseShown ==
  /\ pc = "erase_shown" /\ pc' = "up"
  /\ result_shown' = 0
  /\ UNCHANGED <<scan_result, history>>

-----------------------------------------------------------------------------
(* The web server.                                                          *)

\* /result, whether there is a result or not, and however often.
ViewResult ==
  /\ pc = "up" /\ result_shown < MaxShown
  /\ result_shown' = result_shown + 1
  /\ viewed' = (viewed \/ scan_result # None)
  /\ UNCHANGED <<scan_result, pc, scans, boots, uncounted, cut>>

\* /scan: fillNodes.
Scan ==
  /\ pc = "up" /\ pc' = "scanning"
  /\ scans < Scans /\ scans' = scans + 1
  /\ UNCHANGED <<scan_result, result_shown, viewed, boots, uncounted, cut>>

\* The result is stored.  When there was no memory for it, the one of before
\* stays.
Store ==
  /\ pc = "scanning" /\ pc' = "stored"
  /\ \/ scan_result' = scans /\ viewed' = FALSE /\ boots' = 0 /\ uncounted' = FALSE
     \/ UNCHANGED <<scan_result, viewed, boots, uncounted>>
  /\ UNCHANGED <<result_shown, scans, cut>>

\* Faulty variant: the counter of the result before is kept.
KeepShown ==
  /\ pc = "stored" /\ pc' = "restart"
  /\ UNCHANGED <<scan_result, result_shown, history>>

\* The counter is erased, of the new result or of the one that stayed.
ResetShown ==
  /\ pc = "stored" /\ pc' = "restart"
  /\ result_shown' = 0
  /\ uncounted' = (uncounted \/ (scan_result # None /\ viewed))
  /\ UNCHANGED <<scan_result, scans, viewed, boots, cut>>

-----------------------------------------------------------------------------
\* esp_restart at the end of a scan, or for any other reason at any moment.
Restart ==
  /\ pc # "boot" /\ pc' = "boot"
  /\ cut' = (cut \/ pc \in {"stored", "erase_shown"})
  /\ boots' = IF scan_result # None /\ viewed THEN UpTo3(boots + 1) ELSE 0
  /\ UNCHANGED <<scan_result, result_shown, scans, viewed, uncounted>>

Next == \/ Boot \/ EraseResult \/ EraseShown
        \/ ViewResult \/ Scan \/ Store \/ ResetShown \/ Restart

Spec == Init /\ [][Next]_vars

-----------------------------------------------------------------------------
(* Correctness.                                                             *)

\* Whatever happened to results before, a new one leads the start page to it
\* until it is viewed: it does not inherit a counter, as long as the power does
\* not fail between the writes of a scan.
UnseenIsOffered == ~cut /\ pc = "up" /\ scan_result # None /\ ~viewed => Redirects

\* Only a result that somebody has viewed is deleted, under the same condition.
DeletedOnlySeen == [][~cut /\ scan_result # None /\ scan_result' = None => viewed]_vars

\* A result that was viewed is gone, to save space in flash, after three
\* restarts at the latest since the first view, wherever the power fails and
\* however many scans have failed before it was stored.  Only a scan that finds
\* no memory while it is stored may prolong its life: that scan keeps the
\* result and erases its counter.
ForgottenInTime == pc = "up" /\ scan_result # None /\ ~uncounted => boots < 3
=============================================================================
