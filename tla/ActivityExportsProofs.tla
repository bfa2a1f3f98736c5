------------------------ MODULE ActivityExportsProofs ------------------------
(***************************************************************************)
(* The safety of one export, for any number of processes and downloads.    *)
(*                                                                         *)
(* The argument: until the export is put back in use, one worker at most   *)
(* has it, and has it while the row is Processing and was never Ready;     *)
(* downloads come only after it was Ready.  So workers and downloads do    *)
(* not meet at the path, and what is Ready was written to its end.         *)
(***************************************************************************)
EXTENDS ActivityExports, TLAPS

(* What follows from the row having been Ready, whatever has happened. *)
ReadySound ==
  /\ expires # "never" => ready
  /\ cleanup # "idle" => ready
  /\ status = "deleted" => ready
  /\ "unread" \in hazard => ready
  /\ \A d \in Downloads : pc[d] # "idle" => ready
  /\ \A w \in Workers : pc[w] = "reload" => ready
  /\ status = "Ready" => ready

Busy == {"open", "write", "mark", "reload", "fail"}

(* Without a row put back in use, one worker has the export at most.       *)
WorkerSound ==
  /\ ready => status \notin {"Queued", "Processing"}
  /\ ready /\ "unread" \notin hazard => status # "Failed"
  /\ \A v, w \in Workers : pc[v] \in Busy /\ pc[w] \in Busy => v = w
  /\ \A w \in Workers : pc[w] \in {"open", "write", "mark"} => status = "Processing" /\ ~ready
  /\ \A w \in Workers : pc[w] = "fail" => (status = "Processing" /\ ~ready) \/ "unread" \in hazard

RowInv == TypeOK /\ ReadySound /\ ("requeued" \notin hazard => WorkerSound)

(* What is at the path, while nobody writes there beside another. *)
OneWriter ==
  /\ \A v, w \in Writers : handle[v] = "attached" /\ handle[w] = "attached" => v = w
  /\ \A w \in Writers : handle[w] = "attached" => file = "partial"
  /\ file # "mixed"

(* A worker's file is there until it is closed, and is whole after it. *)
WorkerWrites ==
  \A w \in Workers : /\ pc[w] = "write" => handle[w] = "attached"
                     /\ pc[w] = "mark" => file # "partial"

(* What is Ready is half written only while somebody writes it. *)
ReadyFile ==
  ready /\ file = "partial" => \E w \in Writers : handle[w] = "attached"

FileInv ==
  /\ "overlap" \notin hazard => OneWriter
  /\ hazard \cap {"overlap", "requeued"} = {} => WorkerWrites
  /\ hazard \cap {"overlap", "half", "requeued"} = {} => ReadyFile
  /\ DownloadIsWhole

-----------------------------------------------------------------------------
Steps == {"idle", "open", "write", "mark", "reload", "fail", "off", "recover", "check", "rebuild",
          "send", "read"}

(* Who goes on to another step closes its file, opens it to write, or has   *)
(* none.                                                                   *)
LEMMA MoveIsTyped ==
  ASSUME TypeOK, NEW w \in Writers, NEW step \in Steps, At(w, step),
         \/ handle' = handle /\ pc[w] \notin {"write", "read"}
         \/ handle' = [handle EXCEPT ![w] = "none"]
         \/ handle' = [handle EXCEPT ![w] = "attached"] /\ step = "write"
         \/ handle' = [handle EXCEPT ![w] = "reads"] /\ step = "read"
  PROVE  /\ pc' \in [Writers -> Steps]
         /\ handle' \in [Writers -> {"none", "attached", "detached", "reads"}]
         /\ \A v \in Writers :
               handle'[v] # "none" => pc'[v] = IF handle'[v] = "reads" THEN "read" ELSE "write"
<1>1. pc \in [Writers -> Steps]
  BY DEF TypeOK, Steps
<1>2. pc' \in [Writers -> Steps]
  BY <1>1 DEF At
<1>3. handle' \in [Writers -> {"none", "attached", "detached", "reads"}]
  BY DEF TypeOK
<1>4. ASSUME NEW v \in Writers, handle'[v] # "none"
      PROVE  pc'[v] = IF handle'[v] = "reads" THEN "read" ELSE "write"
  <2>1. CASE v = w
    BY <2>1, <1>1, <1>4 DEF TypeOK, At
  <2>2. CASE v # w
    <3>1. handle'[v] = handle[v] /\ pc'[v] = pc[v]
      BY <2>2, <1>1 DEF TypeOK, At
    <3> QED  BY <3>1, <1>4 DEF TypeOK
  <2> QED  BY <2>1, <2>2
<1> QED  BY <1>2, <1>3, <1>4

(* Everything but the writers' steps and files. *)
RowTypes ==
  /\ status \in {"Queued", "Processing", "Ready", "Failed", "deleted"}
  /\ stored \in BOOLEAN /\ stale \in BOOLEAN
  /\ expires \in {"never", "later", "past"}
  /\ file \in {"absent", "partial", "mixed", "whole"}
  /\ cleanup \in {"idle", "unlink", "delete"}
  /\ ready \in BOOLEAN /\ served \subseteq {"absent", "partial", "mixed", "whole"}
  /\ hazard \subseteq {"overlap", "unread", "requeued", "dropped", "ended", "early", "half"}

WriterTypes ==
  /\ pc \in [Writers -> Steps]
  /\ handle \in [Writers -> {"none", "attached", "detached", "reads"}]
  /\ \A w \in Writers :
        handle[w] # "none" => pc[w] = IF handle[w] = "reads" THEN "read" ELSE "write"

LEMMA PartsStep ==
  ASSUME TypeOK, RowTypes, WriterTypes, [Next]_vars
  PROVE  RowTypes' /\ WriterTypes'
<1> USE DEF rowVars, Steps
<1>1. ASSUME NEW w \in Workers, WorkerStep(w)
      PROVE  RowTypes' /\ WriterTypes'
  <2> w \in Writers
    BY DEF Writers
  <2>1. CASE Claim(w)
    <3>1. WriterTypes'
      BY <2>1, MoveIsTyped DEF Claim, LetGo, WriterTypes
    <3> QED  BY <3>1, <2>1 DEF Claim, LetGo, RowTypes
  <2>2. CASE OpenFile(w)
    <3>1. WriterTypes'
      BY <2>2, MoveIsTyped DEF OpenFile, Open, WriterTypes
    <3> QED  BY <3>1, <2>2 DEF OpenFile, Open, RowTypes
  <2>3. CASE WriteFile(w)
    <3>1. WriterTypes'
      BY <2>3, MoveIsTyped DEF WriteFile, Written, OnError, Close, AfterWrite, WriterTypes
    <3> QED  BY <3>1, <2>3 DEF WriteFile, Written, RowTypes
  <2>4. CASE MarkReady(w)
    <3>1. WriterTypes'
      BY <2>4, MoveIsTyped DEF MarkReady, WriterTypes
    <3> QED  BY <3>1, <2>4 DEF MarkReady, SetReady, Updated, Exists, RowTypes
  <2>5. CASE ReloadReady(w)
    <3>1. WriterTypes'
      BY <2>5, MoveIsTyped DEF ReloadReady, WriterTypes
    <3> QED  BY <3>1, <2>5 DEF ReloadReady, RowTypes
  <2>6. CASE MarkFailed(w)
    <3>1. WriterTypes'
      BY <2>6, MoveIsTyped DEF MarkFailed, LetGo, WriterTypes
    <3> QED  BY <3>1, <2>6 DEF MarkFailed, FailedFrom, LetGo, RowTypes
  <2> QED
    BY <1>1, <2>1, <2>2, <2>3, <2>4, <2>5, <2>6 DEF WorkerStep
<1>2. ASSUME NEW w \in Workers, EndProcess(w) \/ StartProcess(w) \/ Recover(w)
      PROVE  RowTypes' /\ WriterTypes'
  <2> w \in Writers
    BY DEF Writers
  <2>1. CASE EndProcess(w)
    <3>1. WriterTypes'
      BY <2>1, MoveIsTyped DEF EndProcess, WriterTypes
    <3> QED  BY <3>1, <2>1 DEF EndProcess, RowTypes
  <2>2. CASE StartProcess(w)
    <3>1. WriterTypes'
      BY <2>2, MoveIsTyped DEF StartProcess, WriterTypes
    <3> QED  BY <3>1, <2>2 DEF StartProcess, RowTypes
  <2>3. CASE Recover(w)
    <3>1. WriterTypes'
      BY <2>3, MoveIsTyped DEF Recover, WriterTypes
    <3> QED  BY <3>1, <2>3 DEF Recover, Repair, Requeues, Updated, RowTypes
  <2> QED
    BY <1>2, <2>1, <2>2, <2>3
<1>3. ASSUME NEW d \in Downloads, DownloadStep(d)
      PROVE  RowTypes' /\ WriterTypes'
  <2> d \in Writers
    BY DEF Writers
  <2>1. CASE AskDownload(d)
    <3>1. WriterTypes'
      BY <2>1, MoveIsTyped DEF AskDownload, WriterTypes
    <3> QED  BY <3>1, <2>1 DEF AskDownload, RowTypes
  <2>2. CASE CheckFile(d)
    <3>1. WriterTypes'
      BY <2>2, MoveIsTyped DEF CheckFile, WriterTypes
    <3> QED  BY <3>1, <2>2 DEF CheckFile, RowTypes
  <2>3. CASE Rebuild(d)
    <3>1. WriterTypes'
      BY <2>3, MoveIsTyped DEF Rebuild, Open, WriterTypes
    <3> QED  BY <3>1, <2>3 DEF Rebuild, Open, RowTypes
  <2>4. CASE RebuildFile(d)
    <3>1. WriterTypes'
      BY <2>4, MoveIsTyped DEF RebuildFile, Written, Close, AfterWrite, WriterTypes
    <3> QED  BY <3>1, <2>4 DEF RebuildFile, Written, RowTypes
  <2>5. CASE RebuildReady(d)
    <3>1. WriterTypes'
      BY <2>5, MoveIsTyped DEF RebuildReady, WriterTypes
    <3> QED  BY <3>1, <2>5 DEF RebuildReady, SetReady, Updated, Exists, RowTypes
  <2>6. CASE SendFile(d)
    <3>1. WriterTypes'
      BY <2>6, MoveIsTyped DEF SendFile, WriterTypes
    <3> QED  BY <3>1, <2>6 DEF SendFile, RowTypes
  <2>7. CASE FileSent(d)
    <3>1. WriterTypes'
      BY <2>7, MoveIsTyped DEF FileSent, WriterTypes
    <3> QED  BY <3>1, <2>7 DEF FileSent, RowTypes
  <2> QED
    BY <1>3, <2>1, <2>2, <2>3, <2>4, <2>5, <2>6, <2>7 DEF DownloadStep
<1>4. CASE AdminRepair
  <2>1. WriterTypes'
    BY <1>4 DEF AdminRepair, WriterTypes
  <2> QED  BY <2>1, <1>4 DEF AdminRepair, Repair, Requeues, Updated, RowTypes
<1>5. CASE GrowStale \/ Expire \/ ListExpired \/ DeleteRow
  <2>1. WriterTypes'
    BY <1>5 DEF GrowStale, Expire, ListExpired, DeleteRow, WriterTypes
  <2> QED  BY <2>1, <1>5 DEF GrowStale, Expire, ListExpired, DeleteRow, RowTypes
<1>6. CASE LoseFile \/ Unlink
  <2>1. WriterTypes'
    BY <1>6 DEF LoseFile, Unlink, RemoveFile, Detached, WriterTypes
  <2> QED  BY <2>1, <1>6 DEF LoseFile, Unlink, RemoveFile, RowTypes
<1>7. CASE UNCHANGED vars
  BY <1>7 DEF vars, RowTypes, WriterTypes
<1> QED
  BY <1>1, <1>2, <1>3, <1>4, <1>5, <1>6, <1>7 DEF Next

LEMMA TypeStep ==
  ASSUME TypeOK, [Next]_vars
  PROVE  TypeOK'
<1>1. RowTypes /\ WriterTypes
  BY DEF TypeOK, RowTypes, WriterTypes, Steps
<1>2. RowTypes' /\ WriterTypes'
  BY <1>1, PartsStep
<1> QED  BY <1>2 DEF TypeOK, RowTypes, WriterTypes, Steps

(* Rows, files and steps are well formed. *)
THEOREM TypeCorrect == Spec => []TypeOK
<1>1. Init => TypeOK
  BY ExportAssumption DEF Init, TypeOK, Writers
<1> QED
  BY <1>1, TypeStep, PTL DEF Spec

-----------------------------------------------------------------------------
LEMMA MovesOne ==
  ASSUME TypeOK, NEW w \in Writers, NEW step \in Steps, At(w, step)
  PROVE  \A v \in Writers : pc'[v] = IF v = w THEN step ELSE pc[v]
  BY DEF TypeOK, At

(* Downloads, maintenance and expiry come after Ready. *)
LEMMA ReadyStep ==
  ASSUME TypeOK, ReadySound, [Next]_vars
  PROVE  ReadySound'
<1> USE ExportAssumption DEF ReadySound, rowVars
<1>0. /\ Workers \subseteq Writers /\ Downloads \subseteq Writers
      /\ \A w \in Workers, d \in Downloads : w # d
      /\ ready \in BOOLEAN
  BY DEF Writers, TypeOK
<1>1. ASSUME NEW w \in Workers, NEW step \in Steps, At(w, step)
      PROVE  /\ \A v \in Workers : pc'[v] = IF v = w THEN step ELSE pc[v]
             /\ \A d \in Downloads : pc'[d] = pc[d]
  BY <1>0, <1>1, MovesOne
<1>2. ASSUME NEW d \in Downloads, NEW step \in Steps, At(d, step)
      PROVE  /\ \A v \in Downloads : pc'[v] = IF v = d THEN step ELSE pc[v]
             /\ \A w \in Workers : pc'[w] = pc[w]
  BY <1>0, <1>2, MovesOne
<1>3. ASSUME NEW w \in Workers, WorkerStep(w)
      PROVE  ReadySound'
  <2>1. CASE Claim(w)
    BY <2>1, <1>1 DEF Claim, LetGo, Claimable, Steps
  <2>2. CASE OpenFile(w)
    BY <2>2, <1>1 DEF OpenFile, Open, Steps
  <2>3. CASE WriteFile(w)
    BY <2>3, <1>1 DEF WriteFile, OnError, Steps
  <2>4. CASE MarkReady(w)
    <3>1. CASE At(w, "reload") /\ SetReady /\ hazard' = hazard /\ cleanup' = cleanup
      BY <3>1, <2>4, <1>1, <1>0 DEF MarkReady, SetReady, Updated, Exists, Steps
    <3>2. CASE At(w, "fail") /\ UNCHANGED <<rowVars, ready, hazard, cleanup>>
      BY <3>2, <1>1, <1>0 DEF Steps
    <3> QED  BY <2>4, <3>1, <3>2 DEF MarkReady
  <2>5. CASE ReloadReady(w)
    BY <2>5, <1>1 DEF ReloadReady, Steps
  <2>6. CASE MarkFailed(w)
    BY <2>6, <1>1 DEF MarkFailed, FailedFrom, LetGo, Steps
  <2> QED
    BY <1>3, <2>1, <2>2, <2>3, <2>4, <2>5, <2>6 DEF WorkerStep
<1>4. ASSUME NEW w \in Workers, EndProcess(w) \/ StartProcess(w) \/ Recover(w)
      PROVE  ReadySound'
  <2>1. CASE EndProcess(w)
    BY <2>1, <1>1 DEF EndProcess, Steps
  <2>2. CASE StartProcess(w)
    BY <2>2, <1>1 DEF StartProcess, Steps
  <2>3. CASE Recover(w)
    BY <2>3, <1>1 DEF Recover, Repair, Requeues, Updated, Exists, Steps
  <2> QED
    BY <1>4, <2>1, <2>2, <2>3
<1>5. ASSUME NEW d \in Downloads, DownloadStep(d)
      PROVE  ReadySound'
  <2>1. CASE AskDownload(d)
    BY <2>1, <1>2 DEF AskDownload, Steps
  <2>2. CASE CheckFile(d)
    BY <2>2, <1>2 DEF CheckFile, Steps
  <2>3. CASE Rebuild(d)
    BY <2>3, <1>2 DEF Rebuild, Open, Steps
  <2>4. CASE RebuildFile(d)
    BY <2>4, <1>2 DEF RebuildFile, Steps
  <2>5. CASE RebuildReady(d)
    BY <2>5, <1>2, <1>0 DEF RebuildReady, SetReady, Updated, Exists, Steps
  <2>6. CASE SendFile(d)
    BY <2>6, <1>2 DEF SendFile, Steps
  <2>7. CASE FileSent(d)
    BY <2>7, <1>2 DEF FileSent, Steps
  <2> QED
    BY <1>5, <2>1, <2>2, <2>3, <2>4, <2>5, <2>6, <2>7 DEF DownloadStep
<1>6. CASE AdminRepair
  BY <1>6 DEF AdminRepair, Repair, Requeues, Updated, Exists
<1>7. CASE GrowStale \/ Expire
  BY <1>7 DEF GrowStale, Expire
<1>8. CASE LoseFile \/ Unlink
  BY <1>8 DEF LoseFile, Unlink, RemoveFile
<1>9. CASE ListExpired \/ DeleteRow
  BY <1>9 DEF ListExpired, DeleteRow
<1>10. CASE UNCHANGED vars
  BY <1>10 DEF vars
<1> QED
  BY <1>3, <1>4, <1>5, <1>6, <1>7, <1>8, <1>9, <1>10 DEF Next

-----------------------------------------------------------------------------
(* Hazards are remembered, and a row is put back only by who is alone. *)
LEMMA HazardsStay ==
  ASSUME [Next]_vars
  PROVE  hazard \subseteq hazard'
<1> USE DEF rowVars
<1>1. ASSUME NEW w \in Workers, WorkerStep(w)
      PROVE  hazard \subseteq hazard'
  BY <1>1 DEF WorkerStep, Claim, LetGo, OpenFile, Open, WriteFile, MarkReady, ReloadReady, MarkFailed
<1>2. ASSUME NEW w \in Workers, EndProcess(w) \/ StartProcess(w) \/ Recover(w)
      PROVE  hazard \subseteq hazard'
  BY <1>2 DEF EndProcess, StartProcess, Recover, Repair
<1>3. ASSUME NEW d \in Downloads, DownloadStep(d)
      PROVE  hazard \subseteq hazard'
  BY <1>3 DEF DownloadStep, AskDownload, CheckFile, SendFile, FileSent, Rebuild, Open, RebuildFile,
     RebuildReady
<1>4. CASE AdminRepair
  BY <1>4 DEF AdminRepair, Repair
<1>5. CASE GrowStale \/ Expire \/ LoseFile \/ ListExpired \/ Unlink \/ DeleteRow
  BY <1>5 DEF GrowStale, Expire, LoseFile, ListExpired, Unlink, DeleteRow
<1>6. CASE UNCHANGED vars
  BY <1>6 DEF vars
<1> QED
  BY <1>1, <1>2, <1>3, <1>4, <1>5, <1>6 DEF Next

(* Workers take the export one after the other, and before it is Ready. *)
LEMMA WorkersStep ==
  ASSUME TypeOK, ReadySound, WorkerSound, [Next]_vars, "requeued" \notin hazard'
  PROVE  WorkerSound'
<1> USE ExportAssumption DEF WorkerSound, Busy, rowVars
<1>0. /\ Workers \subseteq Writers /\ Downloads \subseteq Writers
      /\ \A w \in Workers, d \in Downloads : w # d
      /\ ready \in BOOLEAN
  BY DEF Writers, TypeOK
<1>1. ASSUME NEW w \in Workers, NEW step \in Steps, At(w, step)
      PROVE  \A v \in Workers : pc'[v] = IF v = w THEN step ELSE pc[v]
  BY <1>0, <1>1, MovesOne
<1>2. ASSUME NEW d \in Downloads, NEW step \in Steps, At(d, step)
      PROVE  \A w \in Workers : pc'[w] = pc[w]
  BY <1>0, <1>2, MovesOne
<1>3. ASSUME NEW w \in Workers, WorkerStep(w)
      PROVE  WorkerSound'
  <2>1. CASE Claim(w)
    <3>1. \A v \in Workers : pc[v] \notin Busy \/ (pc[v] = "fail" /\ "unread" \in hazard)
      BY <2>1 DEF Claim, Claimable, ReadySound
    <3>2. ~ready /\ "unread" \notin hazard
      BY <2>1 DEF Claim, Claimable, ReadySound
    <3>3. /\ status' = "Processing" /\ ready' = ready
          /\ (At(w, "open") /\ UNCHANGED hazard) \/ At(w, "idle")
      BY <2>1 DEF Claim, LetGo
    <3> QED  BY <3>1, <3>2, <3>3, <1>1 DEF Steps
  <2>2. CASE OpenFile(w)
    <3>1. /\ UNCHANGED <<status, ready>> /\ hazard \subseteq hazard' /\ pc[w] = "open"
          /\ At(w, "write") \/ At(w, "fail")
      BY <2>2, HazardsStay DEF OpenFile, Open
    <3> QED  BY <3>1, <1>1 DEF Steps
  <2>3. CASE WriteFile(w)
    <3>1. /\ UNCHANGED <<status, ready, hazard>> /\ pc[w] = "write"
          /\ At(w, "mark") \/ At(w, "fail")
      BY <2>3 DEF WriteFile, OnError
    <3> QED  BY <3>1, <1>1 DEF Steps
  <2>4. CASE MarkReady(w)
    <3>1. pc[w] = "mark" /\ status = "Processing" /\ ~ready /\ UNCHANGED hazard
      BY <2>4 DEF MarkReady
    <3>2. CASE SetReady /\ At(w, "reload")
      <4>1. status' = "Ready" /\ ready'
        BY <3>1, <3>2 DEF SetReady, Updated, Exists
      <4>2. \A v \in Workers : v # w => pc'[v] \notin Busy
        BY <3>1, <3>2, <1>1 DEF Steps
      <4> QED  BY <4>1, <4>2, <3>2, <1>1 DEF Steps
    <3>3. CASE At(w, "fail") /\ UNCHANGED <<rowVars, ready>>
      BY <3>1, <3>3, <1>1 DEF Steps
    <3> QED  BY <2>4, <3>2, <3>3 DEF MarkReady
  <2>5. CASE ReloadReady(w)
    <3>1. /\ UNCHANGED <<status, ready>> /\ pc[w] = "reload" /\ hazard \subseteq hazard'
          /\ At(w, "idle") \/ (At(w, "fail") /\ "unread" \in hazard')
      BY <2>5, HazardsStay DEF ReloadReady
    <3>2. \A v \in Workers : v # w => pc'[v] \notin Busy
      BY <3>1, <1>1 DEF Steps
    <3>3. pc'[w] = "idle" \/ (pc'[w] = "fail" /\ "unread" \in hazard')
      BY <3>1, <1>1 DEF Steps
    <3> QED  BY <3>1, <3>2, <3>3
  <2>6. CASE MarkFailed(w)
    <3>1. pc[w] = "fail" /\ At(w, "idle") /\ hazard \subseteq hazard' /\ ready' = ready
      BY <2>6 DEF MarkFailed, LetGo
    <3>2. \A v \in Workers : pc'[v] \notin Busy
      BY <3>1, <1>1 DEF Steps
    <3>3. status' = status \/ status' = FailedFrom(status)
      BY <2>6 DEF MarkFailed
    <3> QED  BY <3>1, <3>2, <3>3 DEF FailedFrom
  <2> QED
    BY <1>3, <2>1, <2>2, <2>3, <2>4, <2>5, <2>6 DEF WorkerStep
<1>4. ASSUME NEW w \in Workers, EndProcess(w) \/ StartProcess(w)
      PROVE  WorkerSound'
  <2>1. /\ UNCHANGED <<status, ready>> /\ hazard \subseteq hazard'
        /\ "unread" \in hazard' => "unread" \in hazard
        /\ \E step \in {"off", "recover", "idle"} : At(w, step)
    BY <1>4 DEF EndProcess, StartProcess
  <2>2. \A v \in Workers : pc'[v] = pc[v] \/ pc'[v] \notin Busy
    BY <2>1, <1>1 DEF Steps
  <2> QED  BY <2>1, <2>2
<1>5. ASSUME NEW next \in {"Queued", "Failed"}, Repair(next), ready' = ready,
             \A v \in Workers : pc'[v] = pc[v] \/ pc'[v] \notin Busy
      PROVE  WorkerSound'
  <2>1. status = "Processing" /\ \A v \in Workers : pc[v] \notin Busy
    BY <1>5 DEF Repair, Requeues
  <2>2. \A v \in Workers : pc'[v] \notin Busy
    BY <2>1, <1>5
  <2>3. ~ready' /\ status' = next
    BY <2>1, <1>5 DEF Repair, Updated, Exists
  <2> QED  BY <2>2, <2>3
<1>6. ASSUME NEW w \in Workers, Recover(w)
      PROVE  WorkerSound'
  <2>1. Repair("Queued") /\ ready' = ready /\ At(w, "idle")
    BY <1>6 DEF Recover
  <2>2. \A v \in Workers : pc'[v] = pc[v] \/ pc'[v] \notin Busy
    BY <2>1, <1>1 DEF Steps
  <2> QED  BY <2>1, <2>2, <1>5
<1>7. CASE AdminRepair
  BY <1>7, <1>5 DEF AdminRepair
<1>8. ASSUME NEW d \in Downloads, DownloadStep(d)
      PROVE  WorkerSound'
  <2>1. CASE AskDownload(d) \/ CheckFile(d) \/ SendFile(d) \/ FileSent(d) \/ Rebuild(d) \/ RebuildFile(d)
    <3>1. /\ UNCHANGED <<status, ready>> /\ hazard \subseteq hazard'
          /\ "unread" \in hazard' => "unread" \in hazard
          /\ \E step \in Steps : At(d, step)
      BY <2>1 DEF AskDownload, CheckFile, SendFile, FileSent, Rebuild, RebuildFile, Open, Steps
    <3>2. \A w \in Workers : pc'[w] = pc[w]
      BY <3>1, <1>2
    <3> QED  BY <3>1, <3>2
  <2>2. CASE RebuildReady(d)
    <3>1. ready /\ (At(d, "idle") \/ At(d, "send")) /\ hazard' = hazard
      BY <2>2 DEF RebuildReady, ReadySound
    <3>2. \A w \in Workers : pc'[w] = pc[w]
      BY <3>1, <1>2 DEF Steps
    <3>3. "unread" \in hazard' => "unread" \in hazard
      BY <2>2 DEF RebuildReady
    <3>4. SetReady \/ UNCHANGED <<status, ready>>
      BY <2>2 DEF RebuildReady
    <3>5. \A w \in Workers : pc[w] \notin {"open", "write", "mark"}
      BY <3>1
    <3>6. \A w \in Workers : pc[w] = "fail" => "unread" \in hazard
      BY <3>1
    <3>7. status' \in {"Ready", "deleted", status} /\ ready'
      BY <3>1, <3>4 DEF SetReady, Updated, Exists
    <3> QED  BY <3>1, <3>2, <3>3, <3>5, <3>6, <3>7
  <2> QED  BY <1>8, <2>1, <2>2 DEF DownloadStep
<1>9. CASE GrowStale \/ Expire \/ LoseFile \/ ListExpired \/ Unlink
  <2>1. UNCHANGED <<status, ready, pc, hazard>>
    BY <1>9 DEF GrowStale, Expire, LoseFile, ListExpired, Unlink
  <2> QED  BY <2>1
<1>10. CASE DeleteRow
  <2>1. ready /\ status' \in {"deleted", status} /\ UNCHANGED <<ready, pc, hazard>>
    BY <1>10 DEF DeleteRow, ReadySound
  <2> QED  BY <2>1
<1>11. CASE UNCHANGED vars
  BY <1>11 DEF vars
<1> QED
  BY <1>3, <1>4, <1>6, <1>7, <1>8, <1>9, <1>10, <1>11 DEF Next

LEMMA RowHolds == Spec => []RowInv
<1>1. Init => RowInv
  <2>1. Init => TypeOK
    BY ExportAssumption DEF Init, TypeOK, Writers
  <2>2. Init => ReadySound /\ WorkerSound
    BY DEF Init, ReadySound, WorkerSound, Writers, Busy
  <2> QED  BY <2>1, <2>2 DEF RowInv
<1>2. RowInv /\ [Next]_vars => RowInv'
  BY TypeStep, ReadyStep, WorkersStep, HazardsStay DEF RowInv
<1> QED  BY <1>1, <1>2, PTL DEF Spec

(* An export that was Ready stays so until it expires, but for a repair, a  *)
(* recovery under a worker, and the catch around markExportReady.           *)
THEOREM ReadyLasts == Spec => []ReadyIsFinal
<1>1. RowInv => ReadyIsFinal
  BY DEF RowInv, TypeOK, WorkerSound, ReadyIsFinal
<1> QED  BY <1>1, RowHolds, PTL

-----------------------------------------------------------------------------
LEMMA OneWriterStep ==
  ASSUME TypeOK, OneWriter, [Next]_vars, "overlap" \notin hazard'
  PROVE  OneWriter'
<1> USE DEF OneWriter, rowVars
<1>1. Workers \subseteq Writers /\ Downloads \subseteq Writers
  BY DEF Writers
<1>2. handle \in [Writers -> {"none", "attached", "detached", "reads"}]
  BY DEF TypeOK
<1>3. ASSUME NEW w \in Writers, NEW step, Open(w, step)
      PROVE  OneWriter'
  <2>1. \A v \in Writers : handle[v] # "attached"
    BY <1>3 DEF Open, Attached
  <2>2. file' = "partial"
    BY <1>3 DEF Open, Attached
  <2>3. \A v \in Writers : handle'[v] = "attached" => v = w
    BY <2>1, <1>2, <1>3 DEF Open
  <2> QED  BY <2>2, <2>3
<1>4. ASSUME NEW w \in Writers, Close(w), file' = file
      PROVE  OneWriter'
  BY <1>2, <1>4 DEF Close, AfterWrite
<1>5. ASSUME NEW w \in Writers, Written(w)
      PROVE  OneWriter'
  <2>1. \A v \in Writers : handle'[v] = "attached" => v # w /\ handle[v] = "attached"
    BY <1>2, <1>5 DEF Written, Close, AfterWrite
  <2>2. CASE handle[w] = "attached"
    BY <2>1, <2>2, <1>5 DEF Written
  <2>3. CASE handle[w] # "attached"
    BY <2>1, <2>3, <1>5 DEF Written
  <2> QED  BY <2>2, <2>3
<1>6. CASE UNCHANGED <<file, handle>>
  BY <1>6
<1>7. CASE RemoveFile
  BY <1>2, <1>7 DEF RemoveFile, Detached
<1>8. ASSUME NEW w \in Writers, handle' = [handle EXCEPT ![w] = "none"], file' = file
      PROVE  OneWriter'
  BY <1>2, <1>8
<1>9. ASSUME NEW w \in Workers, WorkerStep(w)
      PROVE  OneWriter'
  <2>1. CASE OpenFile(w)
    BY <2>1, <1>1, <1>3, <1>6 DEF OpenFile
  <2>2. CASE WriteFile(w)
    BY <2>2, <1>1, <1>4, <1>5 DEF WriteFile
  <2>3. CASE Claim(w) \/ MarkReady(w) \/ ReloadReady(w) \/ MarkFailed(w)
    BY <2>3, <1>6 DEF Claim, MarkReady, ReloadReady, MarkFailed
  <2> QED  BY <1>9, <2>1, <2>2, <2>3 DEF WorkerStep
<1>10. ASSUME NEW w \in Workers, EndProcess(w) \/ StartProcess(w) \/ Recover(w)
       PROVE  OneWriter'
  BY <1>10, <1>1, <1>6, <1>8 DEF EndProcess, StartProcess, Recover
<1>11. ASSUME NEW d \in Downloads, DownloadStep(d)
       PROVE  OneWriter'
  <2>1. CASE Rebuild(d)
    BY <2>1, <1>1, <1>3 DEF Rebuild
  <2>2. CASE RebuildFile(d)
    BY <2>2, <1>1, <1>4, <1>5 DEF RebuildFile
  <2>3. CASE AskDownload(d) \/ CheckFile(d) \/ RebuildReady(d)
    BY <2>3, <1>6 DEF AskDownload, CheckFile, RebuildReady
  <2>4. CASE SendFile(d) \/ FileSent(d)
    <3>1. \A v \in Writers : handle'[v] = "attached" => handle[v] = "attached"
      BY <2>4, <1>2 DEF SendFile, FileSent
    <3> QED  BY <2>4, <3>1 DEF SendFile, FileSent
  <2> QED  BY <1>11, <2>1, <2>2, <2>3, <2>4 DEF DownloadStep
<1>12. CASE LoseFile \/ Unlink
  BY <1>12, <1>7 DEF LoseFile, Unlink
<1>13. CASE AdminRepair \/ GrowStale \/ Expire \/ ListExpired \/ DeleteRow
  BY <1>13, <1>6 DEF AdminRepair, GrowStale, Expire, ListExpired, DeleteRow
<1>14. CASE UNCHANGED vars
  BY <1>14, <1>6 DEF vars
<1> QED
  BY <1>9, <1>10, <1>11, <1>12, <1>13, <1>14 DEF Next

(* A worker writes before the export is Ready, and so beside no download    *)
(* and no maintenance.                                                     *)
LEMMA WorkerWritesStep ==
  ASSUME TypeOK, ReadySound, WorkerSound, OneWriter, WorkerWrites, [Next]_vars,
         hazard' \cap {"overlap", "requeued"} = {}
  PROVE  WorkerWrites'
<1> USE ExportAssumption DEF WorkerWrites, rowVars
<1>0. /\ Workers \subseteq Writers /\ Downloads \subseteq Writers
      /\ \A w \in Workers, d \in Downloads : w # d
      /\ handle \in [Writers -> {"none", "attached", "detached", "reads"}]
  BY DEF Writers, TypeOK
<1>1. ASSUME NEW w \in Workers, NEW step \in Steps, At(w, step)
      PROVE  \A v \in Workers : pc'[v] = IF v = w THEN step ELSE pc[v]
  BY <1>0, <1>1, MovesOne
<1>2. ASSUME NEW d \in Downloads, NEW step \in Steps, At(d, step)
      PROVE  \A w \in Workers : pc'[w] = pc[w]
  BY <1>0, <1>2, MovesOne
<1>3. ASSUME ready
      PROVE  \A w \in Workers : pc[w] \notin {"open", "write", "mark"}
  BY <1>3 DEF WorkerSound
<1>4. ASSUME NEW w \in Workers, WorkerStep(w)
      PROVE  WorkerWrites'
  <2>1. CASE OpenFile(w)
    <3>1. \A v \in Workers : v # w => pc[v] \notin {"write", "mark"}
      BY <2>1 DEF OpenFile, WorkerSound, Busy
    <3>2. CASE Open(w, "write")
      <4>1. handle'[w] = "attached" /\ At(w, "write")
        BY <3>2, <1>0 DEF Open
      <4> QED  BY <3>1, <4>1, <1>1 DEF Steps
    <3>3. CASE At(w, "fail") /\ UNCHANGED <<file, handle>>
      BY <3>1, <3>3, <1>1 DEF Steps
    <3> QED  BY <2>1, <3>2, <3>3 DEF OpenFile
  <2>2. CASE WriteFile(w)
    <3>1. pc[w] = "write" /\ handle[w] = "attached" /\ file = "partial"
      BY <2>2, <1>0 DEF WriteFile, OneWriter
    <3>2. \A v \in Workers : v # w => pc[v] \notin {"write", "mark"}
      BY <3>1 DEF WorkerSound, Busy
    <3>3. CASE Written(w) /\ At(w, "mark")
      <4>1. file' = "whole"
        BY <3>1, <3>3 DEF Written
      <4> QED  BY <3>2, <3>3, <4>1, <1>1 DEF Steps
    <3>4. CASE At(w, "fail")
      BY <3>2, <3>4, <1>1 DEF Steps
    <3> QED  BY <2>2, <3>3, <3>4 DEF WriteFile, OnError
  <2>3. CASE Claim(w) \/ MarkReady(w) \/ ReloadReady(w) \/ MarkFailed(w)
    <3>1. UNCHANGED <<file, handle>> /\ \E step \in {"open", "idle", "reload", "fail"} : At(w, step)
      BY <2>3 DEF Claim, MarkReady, ReloadReady, MarkFailed, LetGo
    <3> QED  BY <3>1, <1>1 DEF Steps
  <2> QED  BY <1>4, <2>1, <2>2, <2>3 DEF WorkerStep
<1>5. ASSUME NEW w \in Workers, EndProcess(w) \/ StartProcess(w) \/ Recover(w)
      PROVE  WorkerWrites'
  <2>1. file' = file /\ \E step \in {"off", "recover", "idle"} : At(w, step)
    BY <1>5 DEF EndProcess, StartProcess, Recover
  <2>2. \A v \in Workers : v # w => handle'[v] = handle[v]
    BY <1>5, <1>0 DEF EndProcess, StartProcess, Recover
  <2> QED  BY <2>1, <2>2, <1>1 DEF Steps
<1>6. ASSUME NEW d \in Downloads, DownloadStep(d)
      PROVE  WorkerWrites'
  <2>1. \E step \in Steps : At(d, step)
    BY <1>6 DEF DownloadStep, AskDownload, CheckFile, SendFile, FileSent, Rebuild, Open, RebuildFile,
       RebuildReady, Steps
  <2>2. \A w \in Workers : pc'[w] = pc[w]
    BY <2>1, <1>2
  <2>3. CASE AskDownload(d)
    BY <2>2, <2>3 DEF AskDownload
  <2>4. CASE ~AskDownload(d)
    <3>1. ready
      BY <2>4, <1>6 DEF DownloadStep, CheckFile, SendFile, FileSent, Rebuild, RebuildFile, RebuildReady,
         ReadySound
    <3> QED  BY <3>1, <2>2, <1>3
  <2> QED  BY <2>3, <2>4
<1>7. CASE LoseFile
  <2>1. \A w \in Workers : handle[w] # "attached"
    BY <1>7, <1>0 DEF LoseFile, Attached
  <2>2. file' = "absent" /\ pc' = pc
    BY <1>7 DEF LoseFile, RemoveFile
  <2> QED  BY <2>1, <2>2
<1>8. CASE Unlink
  <2>1. ready /\ pc' = pc
    BY <1>8 DEF Unlink, ReadySound
  <2> QED  BY <2>1, <1>3
<1>9. CASE AdminRepair \/ GrowStale \/ Expire \/ ListExpired \/ DeleteRow
  BY <1>9 DEF AdminRepair, GrowStale, Expire, ListExpired, DeleteRow
<1>10. CASE UNCHANGED vars
  BY <1>10 DEF vars
<1> QED
  BY <1>4, <1>5, <1>6, <1>7, <1>8, <1>9, <1>10 DEF Next

(* What is Ready is not left half written by anybody but a rebuild that     *)
(* breaks off.                                                             *)
LEMMA ReadyFileStep ==
  ASSUME TypeOK, ReadySound, WorkerSound, OneWriter, WorkerWrites, ReadyFile, [Next]_vars,
         hazard' \cap {"overlap", "half", "requeued"} = {}
  PROVE  ReadyFile'
<1> USE DEF ReadyFile, rowVars
<1>0. /\ Workers \subseteq Writers /\ Downloads \subseteq Writers
      /\ handle \in [Writers -> {"none", "attached", "detached", "reads"}]
      /\ ready \in BOOLEAN
  BY DEF Writers, TypeOK
<1>1. ASSUME UNCHANGED <<ready, file, handle>>
      PROVE  ReadyFile'
  BY <1>1
<1>2. ASSUME NEW w \in Writers, NEW step, Open(w, step)
      PROVE  ReadyFile'
  <2>1. handle'[w] = "attached"
    BY <1>2, <1>0 DEF Open
  <2> QED  BY <2>1
<1>3. ASSUME NEW w \in Writers, Written(w), ready' = ready
      PROVE  ReadyFile'
  <2>1. CASE handle[w] = "attached"
    BY <2>1, <1>3 DEF Written, OneWriter
  <2>2. CASE handle[w] # "attached"
    <3>1. file' = file /\ \A v \in Writers : handle[v] = "attached" => handle'[v] = "attached"
      BY <2>2, <1>3, <1>0 DEF Written, Close, AfterWrite
    <3> QED  BY <3>1, <1>3
  <2> QED  BY <2>1, <2>2
<1>4. ASSUME NEW w \in Workers, WorkerStep(w)
      PROVE  ReadyFile'
  <2>1. CASE Claim(w) \/ ReloadReady(w) \/ MarkFailed(w)
    BY <2>1, <1>1 DEF Claim, ReloadReady, MarkFailed
  <2>2. CASE OpenFile(w)
    BY <2>2, <1>0, <1>1, <1>2 DEF OpenFile
  <2>3. CASE WriteFile(w)
    <3>1. ~ready /\ ready' = ready
      BY <2>3 DEF WriteFile, WorkerSound
    <3> QED  BY <3>1
  <2>4. CASE MarkReady(w)
    <3>1. file # "partial" /\ file' = file
      BY <2>4 DEF MarkReady, WorkerWrites
    <3> QED  BY <3>1
  <2> QED  BY <1>4, <2>1, <2>2, <2>3, <2>4 DEF WorkerStep
<1>5. ASSUME NEW w \in Workers, EndProcess(w)
      PROVE  ReadyFile'
  <2>1. CASE handle[w] = "attached"
    <3>1. pc[w] = "write"
      BY <2>1, <1>0 DEF TypeOK
    <3>2. ~ready /\ ready' = ready
      BY <3>1, <1>5 DEF WorkerSound, EndProcess
    <3> QED  BY <3>2
  <2>2. CASE handle[w] # "attached"
    <3>1. /\ UNCHANGED <<ready, file>>
          /\ \A v \in Writers : handle[v] = "attached" => handle'[v] = "attached"
      BY <2>2, <1>5, <1>0 DEF EndProcess
    <3> QED  BY <3>1
  <2> QED  BY <2>1, <2>2
<1>6. ASSUME NEW w \in Workers, StartProcess(w) \/ Recover(w)
      PROVE  ReadyFile'
  BY <1>6, <1>1 DEF StartProcess, Recover
<1>7. ASSUME NEW d \in Downloads, DownloadStep(d)
      PROVE  ReadyFile'
  <2>1. CASE AskDownload(d) \/ CheckFile(d)
    BY <2>1, <1>1 DEF AskDownload, CheckFile
  <2>2. CASE Rebuild(d)
    BY <2>2, <1>0, <1>2 DEF Rebuild
  <2>3. CASE RebuildFile(d)
    <3>1. "half" \notin hazard'
      OBVIOUS
    <3>2. Written(d) /\ ready' = ready
      BY <2>3, <3>1 DEF RebuildFile
    <3> QED  BY <3>2, <1>0, <1>3
  <2>4. CASE RebuildReady(d)
    <3>1. ready /\ UNCHANGED <<file, handle>>
      BY <2>4 DEF RebuildReady, ReadySound
    <3> QED  BY <3>1
  <2>5. CASE SendFile(d) \/ FileSent(d)
    <3>1. UNCHANGED <<ready, file>> /\ pc[d] # "write"
      BY <2>5 DEF SendFile, FileSent
    <3>2. \A v \in Writers : handle[v] = "attached" => handle'[v] = "attached"
      BY <2>5, <3>1, <1>0 DEF SendFile, FileSent, TypeOK
    <3> QED  BY <3>1, <3>2
  <2> QED  BY <1>7, <2>1, <2>2, <2>3, <2>4, <2>5 DEF DownloadStep
<1>8. CASE LoseFile \/ Unlink
  BY <1>8, <1>1 DEF LoseFile, Unlink, RemoveFile
<1>9. CASE AdminRepair \/ GrowStale \/ Expire \/ ListExpired \/ DeleteRow
  BY <1>9, <1>1 DEF AdminRepair, GrowStale, Expire, ListExpired, DeleteRow
<1>10. CASE UNCHANGED vars
  BY <1>10, <1>1 DEF vars
<1> QED
  BY <1>4, <1>5, <1>6, <1>7, <1>8, <1>9, <1>10 DEF Next

(* A download that is given a file has found nobody writing it, and nobody  *)
(* writes it while it is read.                                             *)
LEMMA DownloadStepSafe ==
  ASSUME TypeOK, ReadySound, OneWriter, ReadyFile, served \subseteq {"whole", "absent"}, [Next]_vars,
         hazard' \cap {"overlap", "early", "half", "requeued"} = {}
  PROVE  served' \subseteq {"whole", "absent"}
<1> USE DEF rowVars
<1>1. ASSUME NEW w \in Writers, NEW step, Open(w, step)
      PROVE  served' = served
  <2> "early" \notin hazard'
    OBVIOUS
  <2> QED  BY <1>1 DEF Open
<1>2. Workers \subseteq Writers /\ Downloads \subseteq Writers
  BY DEF Writers
<1>3. ASSUME NEW w \in Workers, WorkerStep(w)
      PROVE  served' = served
  <2>1. CASE OpenFile(w)
    BY <2>1, <1>1, <1>2 DEF OpenFile
  <2> QED
    BY <1>3, <2>1 DEF WorkerStep, Claim, WriteFile, MarkReady, ReloadReady, MarkFailed
<1>4. ASSUME NEW w \in Workers, EndProcess(w) \/ StartProcess(w) \/ Recover(w)
      PROVE  served' = served
  BY <1>4 DEF EndProcess, StartProcess, Recover
<1>5. ASSUME NEW d \in Downloads, DownloadStep(d)
      PROVE  served' \subseteq {"whole", "absent"}
  <2>1. CASE Rebuild(d)
    BY <2>1, <1>1, <1>2 DEF Rebuild
  <2>2. CASE SendFile(d)
    <3>1. ready
      BY <2>2 DEF SendFile, ReadySound
    <3>2. "early" \notin hazard'
      OBVIOUS
    <3>3. \A w \in Writers : handle[w] # "attached"
      BY <3>2, <2>2 DEF SendFile, Attached
    <3>4. file \in {"whole", "absent"}
      BY <3>1, <3>3 DEF ReadyFile, OneWriter, TypeOK
    <3> QED  BY <2>2, <3>4 DEF SendFile
  <2> QED
    BY <1>5, <2>1, <2>2 DEF DownloadStep, AskDownload, CheckFile, FileSent, RebuildFile, RebuildReady
<1>6. CASE AdminRepair \/ GrowStale \/ Expire \/ LoseFile \/ ListExpired \/ Unlink \/ DeleteRow
  BY <1>6 DEF AdminRepair, GrowStale, Expire, LoseFile, ListExpired, Unlink, DeleteRow
<1>7. CASE UNCHANGED vars
  BY <1>7 DEF vars
<1> QED
  BY <1>3, <1>4, <1>5, <1>6, <1>7 DEF Next

LEMMA FileHolds == Spec => []FileInv
<1>1. Init => FileInv
  BY DEF Init, FileInv, OneWriter, WorkerWrites, ReadyFile, DownloadIsWhole, Writers
<1>2. ASSUME RowInv, FileInv, [Next]_vars
      PROVE  FileInv'
  <2>1. hazard \subseteq hazard' /\ TypeOK /\ ReadySound
    BY <1>2, HazardsStay DEF RowInv
  <2>2. ("overlap" \notin hazard => OneWriter)'
    BY <1>2, <2>1, OneWriterStep DEF FileInv
  <2>3. (hazard \cap {"overlap", "requeued"} = {} => WorkerWrites)'
    <3> SUFFICES ASSUME hazard' \cap {"overlap", "requeued"} = {}
                 PROVE  WorkerWrites'
      OBVIOUS
    <3>1. WorkerSound /\ OneWriter /\ WorkerWrites
      BY <1>2, <2>1 DEF FileInv, RowInv
    <3> QED  BY <1>2, <2>1, <3>1, WorkerWritesStep
  <2>4. (hazard \cap {"overlap", "half", "requeued"} = {} => ReadyFile)'
    <3> SUFFICES ASSUME hazard' \cap {"overlap", "half", "requeued"} = {}
                 PROVE  ReadyFile'
      OBVIOUS
    <3>1. WorkerSound /\ OneWriter /\ WorkerWrites /\ ReadyFile
      BY <1>2, <2>1 DEF FileInv, RowInv
    <3> QED  BY <1>2, <2>1, <3>1, ReadyFileStep
  <2>5. DownloadIsWhole'
    <3> SUFFICES ASSUME hazard' \cap {"overlap", "early", "half", "requeued"} = {}
                 PROVE  served' \subseteq {"whole", "absent"}
      BY DEF DownloadIsWhole
    <3>1. OneWriter /\ ReadyFile /\ served \subseteq {"whole", "absent"}
      BY <1>2, <2>1 DEF FileInv, DownloadIsWhole
    <3> QED  BY <1>2, <2>1, <3>1, DownloadStepSafe
  <2> QED  BY <2>2, <2>3, <2>4, <2>5 DEF FileInv
<1> QED  BY <1>1, <1>2, RowHolds, PTL DEF Spec

(* A download gets a whole file: there is one writer of the path at a time, *)
(* and what is Ready was written to its end, unless the path was shared, a  *)
(* rebuild was met or broke off, or the row was put back in use.            *)
THEOREM DownloadsAreWhole == Spec => []DownloadIsWhole
<1>1. FileInv => DownloadIsWhole
  BY DEF FileInv
<1> QED  BY <1>1, FileHolds, PTL
=============================================================================
