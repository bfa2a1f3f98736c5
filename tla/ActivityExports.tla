--------------------------- MODULE ActivityExports ---------------------------
(***************************************************************************)
(* One export of the activity log: its row in activity_exports, its file,  *)
(* and those who write the two.  ActivityExportProcessorService claims the *)
(* row by a conditional update and writes the file, downloads build the    *)
(* file again where it is missing, starts and RuntimeDiagnosticsService    *)
(* put the row back, and ActivityMaintenanceService deletes what expired.  *)
(* Only the claim looks at the status when it updates the row.             *)
(*                                                                         *)
(* Everybody opens the same path, and opening it to write empties the file *)
(* under those who read it.  A download is given the path of a file that   *)
(* was there, and opens it later.  Rows from before files were kept, which *)
(* hold their content, are left out.                                       *)
(*                                                                         *)
(* The operators named Mut... are faulty variants of the definition that   *)
(* follows them, each with a slip the code could have; no specification    *)
(* uses them.                                                              *)
(***************************************************************************)
EXTENDS Naturals

CONSTANTS
  Workers,     \* runs of the processor, each in a process of its own
  Downloads    \* downloads being served

ASSUME ExportAssumption == Workers \cap Downloads = {}

VARIABLES
  status,      \* of the row; "deleted" when there is none any more
  stored,      \* storagePath is set
  expires,     \* expiresAt
  stale,       \* processingStartedAt is past the threshold
  file,        \* what is at the path
  handle,      \* what each of them has open there, to write or to read
  pc,          \* step of each worker and download
  cleanup,     \* step of the maintenance run
  ready,       \* history: the row was Ready
  served,      \* history: the files downloads were given
  hazard       \* history: which unguarded things have happened

rowVars == <<status, stored, expires, stale>>
vars == <<status, stored, expires, stale, file, handle, pc, cleanup, ready, served, hazard>>

Writers == Workers \cup Downloads

Init ==
  /\ status = "Queued" /\ stored = FALSE /\ expires = "never" /\ stale = FALSE
  /\ file = "absent"
  /\ handle = [w \in Writers |-> "none"]
  /\ pc = [w \in Writers |-> "idle"]
  /\ cleanup = "idle"
  /\ ready = FALSE /\ served = {} /\ hazard = {}

At(w, step) == pc' = [pc EXCEPT ![w] = step]
Attached == {w \in Writers : handle[w] = "attached"}
Readers == {w \in Writers : handle[w] = "reads"}

(* An update of a row that is gone does nothing. *)
Exists == status # "deleted"
Updated(next) == IF Exists THEN next ELSE status

-----------------------------------------------------------------------------
(* Writing the file, writeExportFile *)

Open(w, step) ==
  /\ file' = IF Attached # {} THEN "mixed" ELSE "partial"
  /\ handle' = [handle EXCEPT ![w] = "attached"]
  /\ hazard' = hazard \cup (IF Attached # {} THEN {"overlap"} ELSE {})
                     \cup (IF Readers # {} THEN {"early"} ELSE {})
  /\ served' = IF Readers # {} THEN served \cup {"mixed"} ELSE served
  /\ At(w, step)

MutAfterWrite(h) == h                \* not closed

AfterWrite(h) == "none"              \* finally

Close(w) == handle' = [handle EXCEPT ![w] = AfterWrite(@)]

(* All is written: a file that another has opened meanwhile is a mixture,   *)
(* and one that was deleted meanwhile is not seen.                         *)
Written(w) ==
  /\ Close(w)
  /\ file' = IF handle[w] = "attached" /\ file = "partial" THEN "whole" ELSE file

-----------------------------------------------------------------------------
(* processQueuedExport *)

MutClaimable == status \in {"Queued", "Processing"}

Claimable == status = "Queued"

(* Any statement may fail.  A failure that no catch turns into Failed lets  *)
(* go of the export.                                                       *)
LetGo(w) == At(w, "idle") /\ hazard' = hazard \cup {"dropped"}

(* markExportProcessing, which also reads the row back *)
Claim(w) ==
  /\ pc[w] = "idle" /\ Claimable
  /\ status' = "Processing" /\ stale' = FALSE
  /\ \/ At(w, "open") /\ UNCHANGED hazard
     \/ LetGo(w)
  /\ UNCHANGED <<stored, expires, file, handle, cleanup, ready, served>>

OpenFile(w) ==
  /\ pc[w] = "open"
  /\ \/ Open(w, "write")
     \/ At(w, "fail") /\ UNCHANGED <<file, handle, served, hazard>>
  /\ UNCHANGED <<rowVars, cleanup, ready>>

MutOnError == "mark"                 \* the error is swallowed

OnError == "fail"

WriteFile(w) ==
  /\ pc[w] = "write"
  /\ \/ Written(w) /\ At(w, "mark")
     \/ Close(w) /\ At(w, OnError) /\ UNCHANGED file
  /\ UNCHANGED <<rowVars, cleanup, ready, served, hazard>>

(* markExportReady *)
SetReady ==
  /\ status' = Updated("Ready")
  /\ stored' = (stored \/ Exists)
  /\ stale' = FALSE
  /\ ready' = (ready \/ Exists)

MarkReady(w) ==
  /\ pc[w] = "mark"
  /\ \/ /\ SetReady
        /\ expires' = IF Exists THEN "later" ELSE expires
        /\ At(w, "reload")
     \/ At(w, "fail") /\ UNCHANGED <<rowVars, ready>>
  /\ UNCHANGED <<file, handle, cleanup, served, hazard>>

(* markExportReady reads the row back inside the try: when that throws, the *)
(* export has failed.                                                      *)
ReloadReady(w) ==
  /\ pc[w] = "reload"
  /\ \/ At(w, "idle") /\ UNCHANGED hazard
     \/ At(w, "fail") /\ hazard' = hazard \cup {"unread"}
  /\ UNCHANGED <<rowVars, file, handle, cleanup, ready, served>>

MutFailedFrom(s) == IF s = "Queued" THEN "Failed" ELSE s     \* looks at the status

FailedFrom(s) == IF s = "deleted" THEN s ELSE "Failed"

(* markExportFailed *)
MarkFailed(w) ==
  /\ pc[w] = "fail"
  /\ \/ /\ status' = FailedFrom(status) /\ stale' = FALSE
        /\ (At(w, "idle") /\ UNCHANGED hazard) \/ LetGo(w)
     \/ LetGo(w) /\ UNCHANGED <<status, stale>>
  /\ UNCHANGED <<stored, expires, file, handle, cleanup, ready, served>>

(* The process ends, in order or not; its files are closed. *)
EndProcess(w) ==
  /\ pc[w] # "off"
  /\ At(w, "off")
  /\ handle' = [handle EXCEPT ![w] = "none"]
  /\ hazard' = hazard \cup {"ended"}
  /\ UNCHANGED <<rowVars, file, cleanup, ready, served>>

-----------------------------------------------------------------------------
(* Putting the row back, markExportRepaired *)

(* Somebody is at work on the export, or it is at its end. *)
Requeues ==
  IF \/ status # "Processing"
     \/ \E w \in Workers : pc[w] \in {"open", "write", "mark", "reload", "fail"}
     \/ \E d \in Downloads : pc[d] # "idle"
  THEN {"requeued"} ELSE {}

Repair(next) ==
  /\ status' = Updated(next) /\ stale' = FALSE
  /\ hazard' = hazard \cup Requeues

(* start, recoverStaleProcessingExports: the only search for stale rows *)
StartProcess(w) ==
  /\ pc[w] = "off"
  /\ At(w, IF status = "Processing" /\ stale THEN "recover" ELSE "idle")
  /\ UNCHANGED <<rowVars, file, handle, cleanup, ready, served, hazard>>

Recover(w) ==
  /\ pc[w] = "recover"
  /\ Repair("Queued")
  /\ At(w, "idle")
  /\ UNCHANGED <<stored, expires, file, handle, cleanup, ready, served>>

(* repairActivityExport, whatever the status is *)
AdminRepair ==
  /\ Exists
  /\ \E next \in {"Queued", "Failed"} : Repair(next)
  /\ UNCHANGED <<stored, expires, file, handle, pc, cleanup, ready, served>>

-----------------------------------------------------------------------------
(* getActivityExportDownload, ensureActivityExportFile *)

AskDownload(d) ==
  /\ pc[d] = "idle" /\ status = "Ready"
  /\ At(d, "check")
  /\ UNCHANGED <<rowVars, file, handle, cleanup, ready, served, hazard>>

(* A file at the path is taken for the export, whoever is writing it. *)
CheckFile(d) ==
  /\ pc[d] = "check"
  /\ At(d, IF file = "absent" THEN "rebuild" ELSE "send")
  /\ UNCHANGED <<rowVars, file, handle, cleanup, ready, served, hazard>>

(* response.download opens the path: by now there may be another file, or   *)
(* none.                                                                   *)
SendFile(d) ==
  /\ pc[d] = "send"
  /\ served' = served \cup {file}
  /\ IF file = "absent" THEN At(d, "idle") /\ UNCHANGED handle
     ELSE At(d, "read") /\ handle' = [handle EXCEPT ![d] = "reads"]
  /\ hazard' = IF Attached # {} THEN hazard \cup {"early"} ELSE hazard
  /\ UNCHANGED <<rowVars, file, cleanup, ready>>

FileSent(d) ==
  /\ pc[d] = "read"
  /\ handle' = [handle EXCEPT ![d] = "none"]
  /\ At(d, "idle")
  /\ UNCHANGED <<rowVars, file, cleanup, ready, served, hazard>>

Rebuild(d) ==
  /\ pc[d] = "rebuild"
  /\ Open(d, "write")
  /\ UNCHANGED <<rowVars, cleanup, ready>>

(* A rebuild that breaks off leaves its file behind, in a row still Ready. *)
RebuildFile(d) ==
  /\ pc[d] = "write"
  /\ \/ Written(d) /\ At(d, "mark") /\ UNCHANGED hazard
     \/ Close(d) /\ At(d, "idle") /\ hazard' = hazard \cup {"half"} /\ UNCHANGED file
  /\ UNCHANGED <<rowVars, cleanup, ready, served>>

(* markExportReady may throw, before or after the row says so. *)
RebuildReady(d) ==
  /\ pc[d] = "mark"
  /\ \/ SetReady /\ (At(d, "send") \/ At(d, "idle"))
     \/ At(d, "idle") /\ UNCHANGED <<status, stored, stale, ready>>
  /\ UNCHANGED <<expires, file, handle, cleanup, served, hazard>>

-----------------------------------------------------------------------------
(* Time, disks and maintenance *)

GrowStale ==
  /\ status = "Processing" /\ ~stale
  /\ stale' = TRUE
  /\ UNCHANGED <<status, stored, expires, file, handle, pc, cleanup, ready, served, hazard>>

Expire ==
  /\ expires = "later" /\ Exists
  /\ expires' = "past"
  /\ UNCHANGED <<status, stored, stale, file, handle, pc, cleanup, ready, served, hazard>>

(* Who has the file open goes on with it, away from the path; what a reader *)
(* gets is settled.                                                        *)
Detached(h) ==
  CASE h = "attached" -> "detached"
    [] h = "reads" -> "none"
    [] OTHER -> h

RemoveFile ==
  /\ file' = "absent"
  /\ handle' = [w \in Writers |-> Detached(handle[w])]

(* The server moves to a node that does not have the file. *)
LoseFile ==
  /\ file # "absent" /\ Attached = {}
  /\ RemoveFile
  /\ UNCHANGED <<rowVars, pc, cleanup, ready, served, hazard>>

(* deleteExpiredExportsWithFiles *)
ListExpired ==
  /\ cleanup = "idle" /\ Exists /\ expires = "past"
  /\ cleanup' = IF stored THEN "unlink" ELSE "delete"
  /\ UNCHANGED <<rowVars, file, handle, pc, ready, served, hazard>>

(* An error of the unlink is only logged. *)
Unlink ==
  /\ cleanup = "unlink"
  /\ RemoveFile \/ UNCHANGED <<file, handle>>
  /\ cleanup' = "delete"
  /\ UNCHANGED <<rowVars, pc, ready, served, hazard>>

DeleteRow ==
  /\ cleanup = "delete"
  /\ \/ status' = "deleted" /\ stale' = FALSE
     \/ UNCHANGED <<status, stale>>
  /\ cleanup' = "idle"
  /\ UNCHANGED <<stored, expires, file, handle, pc, ready, served, hazard>>

-----------------------------------------------------------------------------
WorkerStep(w) ==
  \/ Claim(w) \/ OpenFile(w) \/ WriteFile(w) \/ MarkReady(w) \/ ReloadReady(w) \/ MarkFailed(w)

DownloadStep(d) ==
  \/ AskDownload(d) \/ CheckFile(d) \/ SendFile(d) \/ FileSent(d)
  \/ Rebuild(d) \/ RebuildFile(d) \/ RebuildReady(d)

Next ==
  \/ \E w \in Workers : WorkerStep(w) \/ EndProcess(w) \/ StartProcess(w) \/ Recover(w)
  \/ \E d \in Downloads : DownloadStep(d)
  \/ AdminRepair \/ GrowStale \/ Expire \/ LoseFile
  \/ ListExpired \/ Unlink \/ DeleteRow

Spec == Init /\ [][Next]_vars

(* A processor polls on, and a run that has claimed an export comes to the  *)
(* end of it: each step is a statement that succeeds or throws.            *)
Fairness == \A w \in Workers : WF_vars(WorkerStep(w))

FairSpec == Spec /\ Fairness

-----------------------------------------------------------------------------
(* Properties *)

(* Rows, files and steps are well formed, and nobody keeps a file open who  *)
(* is not writing or reading it.                                           *)
TypeOK ==
  /\ status \in {"Queued", "Processing", "Ready", "Failed", "deleted"}
  /\ stored \in BOOLEAN /\ stale \in BOOLEAN
  /\ expires \in {"never", "later", "past"}
  /\ file \in {"absent", "partial", "mixed", "whole"}
  /\ handle \in [Writers -> {"none", "attached", "detached", "reads"}]
  /\ pc \in [Writers -> {"idle", "open", "write", "mark", "reload", "fail", "off", "recover",
                         "check", "rebuild", "send", "read"}]
  /\ cleanup \in {"idle", "unlink", "delete"}
  /\ ready \in BOOLEAN /\ served \subseteq {"absent", "partial", "mixed", "whole"}
  /\ hazard \subseteq {"overlap", "unread", "requeued", "dropped", "ended", "early", "half"}
  /\ \A w \in Writers :
        handle[w] # "none" => pc[w] = IF handle[w] = "reads" THEN "read" ELSE "write"

(* A download gets a whole file, or none if that was deleted after it was   *)
(* found: markExportReady comes after the file is closed.  What breaks     *)
(* this are two writers of one path, a download that reads while the path  *)
(* is being written or that comes after a rebuild broke off, and a row put *)
(* back in use.                                                            *)
DownloadIsWhole ==
  hazard \cap {"overlap", "early", "half", "requeued"} = {} => served \subseteq {"whole", "absent"}

(* An export that was Ready stays so until it expires: nobody marks it      *)
(* Failed or Queued again but a repair, the recovery of an export whose    *)
(* slow worker still runs, and the catch around its own success.           *)
ReadyIsFinal ==
  ready /\ hazard \cap {"unread", "requeued"} = {} => status \in {"Ready", "deleted"}

(* A queued export comes to an end, unless the process that works on it     *)
(* ends first or lets go of it: the row is then Processing until a process *)
(* starts after the threshold of getStaleProcessingThresholdMs.            *)
ExportEnds ==
  status = "Queued" ~>
    (status \in {"Ready", "Failed", "deleted"} \/ hazard \cap {"ended", "dropped"} # {})
=============================================================================
