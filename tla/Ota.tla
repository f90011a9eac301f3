-------------------------------- MODULE Ota ---------------------------------
(***************************************************************************)
(* Firmware updates: the download that POST /otalog starts in a task of    *)
(* its own (ota_task), the upload that POST /otaupload performs in the web *)
(* server's task, the page /otalog that browsers poll, and the restart     *)
(* timer.  They share three flags and one flash partition.                 *)
(*                                                                         *)
(* An update is a number: 1..Downloads are downloads, the next Uploads     *)
(* numbers uploads; each is requested at most once.  esp_https_ota, which  *)
(* a download calls, and the calls that an upload makes are the same steps *)
(* of the flash driver.  The web server handles one request at a time.     *)
(***************************************************************************)
EXTENDS Naturals

CONSTANTS
  Downloads, Uploads,  \* bounds on the updates requested
  CHUNKS               \* the writes that a firmware takes

ASSUME OtaAssumption ==
  Downloads \in Nat /\ Uploads \in Nat /\ CHUNKS \in Nat \ {0}

VARIABLES
  otaRunning, finished, otaSuccess,
  part,       \* the next update partition: which update wrote each chunk
  boot_partition,  \* selected for the next start: this partition or the "new" one
  restart,    \* restart_timer is armed
  page,       \* the web server is in otalog_get_handler and has read finished
  pc, pos,    \* per update: where it is, and the chunks it has written
  overlap,    \* history, since the start: an update was requested while another
              \* was under way, or installed and waiting for the restart
  mistaken    \* history: the updates under way when the page read that one had
              \* finished

flags == <<otaRunning, finished, otaSuccess>>
history == <<overlap, mistaken>>
ota_vars == <<flags, part, boot_partition, restart, page, pc, pos, history>>

Updates == 1..(Downloads + Uploads)
IsUpload(u) == u > Downloads
Chunks == 1..CHUNKS
NoUpdate == 0

PCs == {"unused", "created", "begin", "write", "end", "select", "arm",
        "success", "failed", "finish", "gone"}

\* The updates that hold a handle of the flash driver.
Writing == {u \in Updates : pc[u] \in {"write", "end", "select"}}
Active == {u \in Updates : pc[u] \notin {"unused", "gone"}}

\* The partition holds one image, whole.
Complete == \E u \in Updates : \A c \in Chunks : part[c] = u

\* The web server's task is in none of its handlers.
HttpdIdle == ~page /\ \A u \in Active : ~IsUpload(u)

Requested(u) ==
  /\ HttpdIdle /\ pc[u] = "unused"
  /\ overlap' = (overlap \/ Active # {} \/ boot_partition = "new")
  /\ UNCHANGED mistaken

At(u, l) == pc[u] = l
Goto(u, l) == pc' = [pc EXCEPT ![u] = l]

-----------------------------------------------------------------------------
\* Every variable has its type.
OtaTypeOK ==
  /\ flags \in BOOLEAN \X BOOLEAN \X BOOLEAN
  /\ part \in [Chunks -> Updates \cup {NoUpdate}]
  /\ boot_partition \in {"old", "new"}
  /\ restart \in BOOLEAN /\ page \in BOOLEAN
  /\ pc \in [Updates -> PCs]
  /\ pos \in [Updates -> 0..CHUNKS]
  /\ overlap \in BOOLEAN /\ mistaken \subseteq Updates

OtaInit ==
  /\ otaRunning = FALSE /\ finished = FALSE /\ otaSuccess = FALSE
  /\ part = [c \in Chunks |-> NoUpdate]
  /\ boot_partition = "old" /\ restart = FALSE /\ page = FALSE
  /\ pc = [u \in Updates |-> "unused"]
  /\ pos = [u \in Updates |-> 0]
  /\ overlap = FALSE /\ mistaken = {}

-----------------------------------------------------------------------------
(* The web server.                                                          *)

\* otalog_post_handler: no look at otaRunning, nor at xTaskCreate's result.
PostLog(u) ==
  /\ ~IsUpload(u) /\ Requested(u)
  /\ otaRunning' = TRUE
  /\ Goto(u, "created") \/ Goto(u, "gone")
  /\ UNCHANGED <<finished, otaSuccess, part, boot_partition, restart, page, pos>>

\* The updates that are not the one that finished, if one did.
NotFinished == IF finished THEN Active ELSE {}

\* Faulty variant: the page does not look whether the update has finished.
GetLogAnyTime ==
  /\ HttpdIdle /\ otaRunning
  /\ page' = TRUE
  /\ mistaken' = mistaken \cup NotFinished
  /\ UNCHANGED <<flags, part, boot_partition, restart, pc, pos, overlap>>

\* otalog_get_handler, if an update is running and one has finished: it goes on
\* to look at the result.
GetLog ==
  /\ HttpdIdle /\ otaRunning /\ finished
  /\ page' = TRUE
  /\ mistaken' = mistaken \cup NotFinished
  /\ UNCHANGED <<flags, part, boot_partition, restart, pc, pos, overlap>>

LogResult ==
  /\ page /\ page' = FALSE
  /\ IF otaSuccess
     THEN restart' = TRUE /\ UNCHANGED otaRunning
     ELSE otaRunning' = FALSE /\ UNCHANGED restart
  /\ UNCHANGED <<finished, otaSuccess, part, boot_partition, pc, pos, history>>

\* ota_upload_post_handler, up to its loop.  (Where it refuses, or cannot begin
\* or allocate its buffer, it leaves everything as it was.)
PostUpload(u) ==
  /\ IsUpload(u) /\ Requested(u)
  /\ ~otaRunning
  /\ otaRunning' = TRUE
  /\ Goto(u, "write")
  /\ UNCHANGED <<finished, otaSuccess, part, boot_partition, restart, page, pos>>

-----------------------------------------------------------------------------
(* Steps of one update.                                                     *)

\* ota_task clears the flags of the update before.
TaskStart(u) ==
  /\ At(u, "created") /\ Goto(u, "begin")
  /\ finished' = FALSE /\ otaSuccess' = FALSE
  /\ UNCHANGED <<otaRunning, part, boot_partition, restart, page, pos, history>>

OtaBegin(u) ==
  /\ At(u, "begin") /\ Goto(u, "write")
  /\ UNCHANGED <<flags, part, boot_partition, restart, page, pos, history>>

\* Data received is written behind what this update wrote before.
Write(u) ==
  /\ At(u, "write")
  /\ pos' = [pos EXCEPT ![u] = @ + 1]
  /\ part' = [part EXCEPT ![pos'[u]] = u]
  /\ Goto(u, IF pos'[u] = CHUNKS THEN "end" ELSE "write")
  /\ UNCHANGED <<flags, boot_partition, restart, page, history>>

\* esp_ota_end validates what is in the partition.
End(u) ==
  /\ At(u, "end") /\ Goto(u, "select")
  /\ \A c \in Chunks : part[c] = u
  /\ UNCHANGED <<flags, part, boot_partition, restart, page, pos, history>>

Select(u) ==
  /\ At(u, "select")
  /\ boot_partition' = "new"
  /\ Goto(u, IF IsUpload(u) THEN "arm" ELSE "success")
  /\ UNCHANGED <<flags, part, restart, page, pos, history>>

\* Faulty variant: an upload that is lost leaves the flag set.
FailKeepFlag(u) ==
  /\ pc[u] \in {"begin", "write", "end", "select"}
  /\ IF IsUpload(u)
     THEN Goto(u, "gone") /\ UNCHANGED otaRunning
     ELSE Goto(u, "failed") /\ UNCHANGED otaRunning
  /\ UNCHANGED <<finished, otaSuccess, part, boot_partition, restart, page, pos, history>>

\* Faulty variant: after a failure the partition is selected all the same.
FailIgnored(u) ==
  /\ pc[u] \in {"begin", "write", "end", "select"}
  /\ Goto(u, "select")
  /\ UNCHANGED <<flags, part, boot_partition, restart, page, pos, history>>

\* Any of these calls fails: the connection, the first byte, the flash, the
\* validation.  The upload handler gives up, the task notes the failure.
Fail(u) ==
  /\ pc[u] \in {"begin", "write", "end", "select"}
  /\ IF IsUpload(u)
     THEN Goto(u, "gone") /\ otaRunning' = FALSE
     ELSE Goto(u, "failed") /\ UNCHANGED otaRunning
  /\ UNCHANGED <<finished, otaSuccess, part, boot_partition, restart, page, pos, history>>

\* The upload handler answers and arms the timer; the flag stays set.
UploadArms(u) ==
  /\ At(u, "arm") /\ Goto(u, "gone")
  /\ restart' = TRUE
  /\ UNCHANGED <<flags, part, boot_partition, page, pos, history>>

TaskResult(u) ==
  /\ pc[u] \in {"success", "failed"} /\ Goto(u, "finish")
  /\ otaSuccess' = At(u, "success")
  /\ UNCHANGED <<otaRunning, finished, part, boot_partition, restart, page, pos, history>>

\* Faulty variant: ota_task forgets to say that it has finished.
TaskFinishSilent(u) ==
  /\ At(u, "finish") /\ Goto(u, "gone")
  /\ UNCHANGED <<flags, part, boot_partition, restart, page, pos, history>>

TaskFinish(u) ==
  /\ At(u, "finish") /\ Goto(u, "gone")
  /\ finished' = TRUE
  /\ UNCHANGED <<otaRunning, otaSuccess, part, boot_partition, restart, page, pos, history>>

Step(u) == \/ TaskStart(u) \/ OtaBegin(u) \/ Write(u) \/ End(u) \/ Select(u)
           \/ Fail(u) \/ UploadArms(u) \/ TaskResult(u) \/ TaskFinish(u)

-----------------------------------------------------------------------------
(* A restart: memory is lost.  A new firmware that starts has the other     *)
(* partition as its next update partition.                                  *)

Reboot ==
  /\ otaRunning' = FALSE /\ finished' = FALSE /\ otaSuccess' = FALSE
  /\ restart' = FALSE /\ page' = FALSE
  /\ overlap' = FALSE /\ mistaken' = {}
  /\ pc' = [u \in Updates |-> IF u \in Active THEN "gone" ELSE pc[u]]
  /\ boot_partition' = "old"
  /\ part' = IF boot_partition = "new" THEN [c \in Chunks |-> NoUpdate] ELSE part
  /\ UNCHANGED pos

\* restart_timer_callback.
TimerFires == restart /\ Reboot

PowerLoss == Reboot

-----------------------------------------------------------------------------
OtaNext == \/ \E u \in Updates : PostLog(u) \/ PostUpload(u) \/ Step(u)
        \/ GetLog \/ LogResult \/ TimerFires \/ PowerLoss

\* Tasks are not starved, downloads end by a timeout at the latest, clients
\* that upload go on or are lost, the page is answered, and the timer fires.
OtaFairness == /\ \A u \in Updates : WF_ota_vars(Step(u))
               /\ WF_ota_vars(LogResult) /\ WF_ota_vars(TimerFires)

OtaSpec == OtaInit /\ [][OtaNext]_ota_vars
OtaFairSpec == OtaSpec /\ OtaFairness

\* A browser stays on the page /otalog, which reloads itself.
PolledSpec == OtaFairSpec /\ WF_ota_vars(GetLog)

-----------------------------------------------------------------------------
(* Correctness.                                                             *)

\* Whenever the device restarts, by its timer or by a loss of power, the
\* partition that it is told to start holds one image, whole, unless updates were
\* requested over one another.
BootsCompleteImage == boot_partition = "new" /\ ~overlap => Complete

\* However updates are requested over one another, the flag keeps an upload apart
\* from every download: unless the log page was asked for while that download ran
\* and an earlier one's finished still stood, so that the page took the earlier
\* one's result for its own.
UploadAlone == \A u, v \in Active : IsUpload(u) /\ v # u => v \in mistaken

\* An upload that fails, at whatever point, leaves the way free for the next:
\* before the first download the flag stays set only until the restart.
UploadReleasesFlag ==
  /\ \A u \in Updates : ~IsUpload(u) => pc[u] = "unused"
  /\ otaRunning /\ Active = {}
  => restart

\* An installed firmware is started, with a browser that polls (the documentation
\* has the reboot follow the installation whoever watches; without a browser it
\* does not): unless updates were requested over one another, or the page has taken
\* the failure before this download for its own and no longer asks for a result.
RebootFollows ==
  boot_partition = "new" ~> boot_partition = "old" \/ overlap \/ mistaken # {}

-----------------------------------------------------------------------------
(* What the documentation and the messages say; the runs that name these    *)
(* find that the code does otherwise.                                       *)

\* "OTA update already in progress": updates do not write at the same time.
OneWriter == \A u, v \in Writing : u = v
=============================================================================
