-------------------------- MODULE MediaPath_proofs --------------------------
(***************************************************************************)
(* Theorems about MediaPath: for a client that sends one request at a time *)
(* an upload becomes at most one video, over its source, a session that    *)
(* ended stays as it ended, and no acknowledged part is forgotten, for any *)
(* number of parts, videos, workers and renames, leases that may run out   *)
(* and requests and workers that may be cut off anywhere. The two halves   *)
(* of the path are behaviours of its components, so their refinements of   *)
(* SessionPromise and VideoLifecycle hold of it as well.                   *)
(***************************************************************************)
EXTENDS MediaPath, FiniteSetTheorems, TLAPS

OneRequestAtATime == \A q, r \in Requests : q = r

\* The types the arguments below rest on.
PathTypes ==
  /\ row \in Upload!Row
  /\ req \in [Requests -> [pc: Upload!Pcs, snap: Upload!Row, n: Nat, got: SUBSET Nat]]
  /\ acked \subseteq Nat
  /\ DOMAIN api = Videos /\ DOMAIN video = Videos

\* No video was ever made of the upload.
NoVideoYet == \A v \in Videos : api[v].pc = "none" /\ video[v].status = "absent"

\* A request runs on the row as it is. One past the assembly knows the object
\* is whole, and one that holds a completed session is the first to.
RequestKnows(r) ==
  /\ req[r].pc \notin {"idle", "completed"} => row.status = "pending" /\ req[r].snap = row
  /\ req[r].pc = "completed" => row.status = "completed" /\ NoVideoYet
  /\ req[r].pc \in {"putPart", "savePart"} => req[r].n \in Upload!Parts
  /\ req[r].pc = "gather" => req[r].got = 1..(req[r].n - 1) /\ req[r].n \in Nat \ {0}
  /\ req[r].pc = "putObject" => req[r].got = Upload!Whole
  /\ req[r].pc \in {"deleteParts", "saveCompleted"} => object = Upload!Whole

SessionKnows ==
  /\ row.status = "absent" => acked = {}
  /\ row.status = "pending" => acked \subseteq row.received
  /\ row.status = "completed" => object = Upload!Whole
  /\ row.status # "completed" => NoVideoYet

OneVideo == \A v, w \in Videos : api[v].pc # "none" /\ api[w].pc # "none" => v = w

PathInv ==
  /\ PathTypes
  /\ \A r \in Requests : RequestKnows(r)
  /\ SessionKnows
  /\ OneVideo

------------------------------------------------------------------------------
\* Every step is one of a request, the making of a video, one of the pipeline,
\* or changes nothing.
LEMMA PathCases ==
  ASSUME [Next]_vars
  PROVE  \/ \E r \in Requests :
              \/ Upload!Begin(r) /\ UNCHANGED pipelineVars
              \/ Upload!UploadPart(r) /\ UNCHANGED pipelineVars
              \/ Upload!PutPart(r) /\ UNCHANGED pipelineVars
              \/ Upload!SavePart(r) /\ UNCHANGED pipelineVars
              \/ Upload!Complete(r) /\ UNCHANGED pipelineVars
              \/ Upload!Gather(r) /\ UNCHANGED pipelineVars
              \/ Upload!PutObject(r) /\ UNCHANGED pipelineVars
              \/ Upload!DeletePart(r) /\ UNCHANGED pipelineVars
              \/ Upload!SaveCompleted(r) /\ UNCHANGED pipelineVars
              \/ Upload!Abort(r) /\ UNCHANGED pipelineVars
              \/ Upload!DropPart(r) /\ UNCHANGED pipelineVars
              \/ Upload!SaveAborted(r) /\ UNCHANGED pipelineVars
              \/ Upload!Interrupt(r) /\ UNCHANGED pipelineVars
         \/ \E r \in Requests, v \in Videos : CompleteUpload(r, v)
         \/ ProcessingStep
         \/ UNCHANGED vars
  BY DEF Next, UploadStep, Upload!ServiceStep, Upload!CompleteSteps

\* The pipeline makes no video: it writes the rows and moves the requests of
\* those that are there.
LEMMA PipelineMakesNone ==
  ASSUME PathTypes,
         Pipeline!PipelineStep
  PROVE  /\ DOMAIN api' = Videos /\ DOMAIN video' = Videos
         /\ \A v \in Videos :
              /\ api[v].pc = "none" => api'[v].pc = "none"
              /\ video[v].status = "absent" => video'[v].status = "absent"
<1> DEFINE Kept ==
             /\ DOMAIN api' = Videos /\ DOMAIN video' = Videos
             /\ \A v \in Videos :
                  /\ api[v].pc = "none" => api'[v].pc = "none"
                  /\ video[v].status = "absent" => video'[v].status = "absent"
<1>1. ASSUME NEW v \in Videos,
             Pipeline!FindVideo(v) \/ Pipeline!Dispatch(v) \/ Pipeline!ApiInterrupt(v)
      PROVE  Kept
  BY <1>1
     DEF Pipeline!FindVideo, Pipeline!Dispatch, Pipeline!ApiInterrupt,
         Pipeline!ApiGoto, PathTypes
<1>2. ASSUME NEW v \in Videos, Pipeline!MarkQueued(v)
      PROVE  Kept
  BY <1>2
     DEF Pipeline!MarkQueued, Pipeline!ApiGoto, Pipeline!SetVideoStatus,
         Pipeline!UpdateVideo, Pipeline!Exists, PathTypes
<1>3. ASSUME NEW v \in Videos, Pipeline!LeaseExpires(v)
      PROVE  Kept
  BY <1>3 DEF Pipeline!LeaseExpires, PathTypes
<1>4. ASSUME NEW v \in Videos, Pipeline!DeleteVideo(v)
      PROVE  Kept
  BY <1>4 DEF Pipeline!DeleteVideo, Pipeline!NoVideo, PathTypes
<1>5. ASSUME NEW w \in Workers, NEW v \in Videos, Pipeline!Reserve(w, v)
      PROVE  Kept
  BY <1>5 DEF Pipeline!Reserve, PathTypes
<1>6. ASSUME NEW w \in Workers,
             Pipeline!MarkProcessing(w) \/ Pipeline!MarkReady(w) \/ Pipeline!MarkFailed(w)
      PROVE  Kept
  BY <1>6
     DEF Pipeline!MarkProcessing, Pipeline!MarkReady, Pipeline!MarkFailed,
         Pipeline!SetVideoStatus, Pipeline!UpdateVideo, Pipeline!Exists,
         PathTypes
<1>7. ASSUME NEW w \in Workers,
             \/ Pipeline!CheckReady(w) \/ Pipeline!Load(w) \/ Pipeline!Transcode(w)
             \/ Pipeline!Persist(w) \/ Pipeline!AttemptFails(w) \/ Pipeline!ProcessThrows(w)
             \/ Pipeline!Ack(w) \/ Pipeline!Nack(w) \/ Pipeline!WorkerCrash(w)
      PROVE  Kept
  BY <1>7
     DEF Pipeline!CheckReady, Pipeline!Load, Pipeline!Transcode,
         Pipeline!Persist, Pipeline!AttemptFails, Pipeline!ProcessThrows,
         Pipeline!Ack, Pipeline!Nack, Pipeline!WorkerCrash, PathTypes
<1>8. ASSUME NEW e \in Editors, Pipeline!Rename(e)
      PROVE  Kept
  BY <1>8
     DEF Pipeline!Rename, Pipeline!UpdateVideo, Pipeline!Exists, PathTypes
<1>9. ASSUME NEW e \in Editors, NEW v \in Videos, Pipeline!ReadForRename(e, v)
      PROVE  Kept
  BY <1>9 DEF Pipeline!ReadForRename, PathTypes
<1>. QED
  BY <1>1, <1>2, <1>3, <1>4, <1>5, <1>6, <1>7, <1>8, <1>9
     DEF Pipeline!PipelineStep, Pipeline!EnqueueStep, Pipeline!RunStep,
         Pipeline!MemberStep

\* A step of a request, the only one there is.
LEMMA RequestStep ==
  ASSUME PathInv, OneRequestAtATime,
         NEW r \in Requests,
         \/ Upload!Begin(r) \/ Upload!UploadPart(r) \/ Upload!PutPart(r)
         \/ Upload!SavePart(r) \/ Upload!Complete(r) \/ Upload!Gather(r)
         \/ Upload!PutObject(r) \/ Upload!DeletePart(r) \/ Upload!SaveCompleted(r)
         \/ Upload!Abort(r) \/ Upload!DropPart(r)
         \/ Upload!SaveAborted(r) \/ Upload!Interrupt(r),
         UNCHANGED pipelineVars
  PROVE  /\ PathInv'
         /\ row.status \in {"completed", "aborted"} => row'.status = row.status
<1>1. UNCHANGED <<api, video>>
  BY DEF pipelineVars
<1>2. OneVideo' /\ NoVideoYet' = NoVideoYet
  BY <1>1 DEF PathInv, OneVideo, NoVideoYet
<1>3. Requests = {r}
  BY DEF OneRequestAtATime
<1>4. CASE Upload!Begin(r)
  BY <1>1, <1>2, <1>3, <1>4
     DEF Upload!Begin, Upload!history, Upload!Row, Upload!Statuses, PathInv,
         PathTypes, RequestKnows, SessionKnows
<1>5. CASE Upload!UploadPart(r)
  BY <1>1, <1>2, <1>3, <1>5
     DEF Upload!UploadPart, Upload!Start, Upload!CanReceive, Upload!history,
         Upload!Pcs, PathInv, PathTypes, RequestKnows, SessionKnows
<1>6. CASE Upload!PutPart(r)
  BY <1>1, <1>2, <1>3, <1>6
     DEF Upload!PutPart, Upload!At, Upload!Goto, Upload!history, Upload!Pcs,
         PathInv, PathTypes, RequestKnows, SessionKnows
<1>7. CASE Upload!SavePart(r)
  BY <1>1, <1>2, <1>3, <1>7
     DEF Upload!SavePart, Upload!Received, Upload!At, Upload!Finish,
         Upload!Idle, Upload!NoRow, Upload!Row,
         Upload!Statuses, Upload!Pcs, PathInv, PathTypes, RequestKnows,
         SessionKnows
<1>8. CASE Upload!Complete(r)
  BY <1>1, <1>2, <1>3, <1>8
     DEF Upload!Complete, Upload!Start, Upload!CanComplete, Upload!history,
         Upload!Pcs, PathInv, PathTypes, RequestKnows, SessionKnows
<1>9. CASE Upload!Gather(r)
  BY <1>1, <1>2, <1>3, <1>9
     DEF Upload!Gather, Upload!At, Upload!Finish, Upload!Idle, Upload!NoRow,
         Upload!history, Upload!Row, Upload!Statuses, Upload!Pcs,
         Upload!Whole, PathInv, PathTypes, RequestKnows, SessionKnows
<1>10. CASE Upload!PutObject(r)
  BY <1>1, <1>2, <1>3, <1>10
     DEF Upload!PutObject, Upload!At, Upload!Goto, Upload!history, Upload!Pcs,
         PathInv, PathTypes, RequestKnows, SessionKnows
<1>11. CASE Upload!DeletePart(r)
  BY <1>1, <1>2, <1>3, <1>11 DEF Upload!DeletePart, PathInv, PathTypes
<1>12. CASE Upload!SaveCompleted(r)
  BY <1>1, <1>2, <1>3, <1>12
     DEF Upload!SaveCompleted, Upload!At, Upload!Goto, Upload!history,
         Upload!Row, Upload!Statuses, Upload!Pcs, PathInv, PathTypes,
         RequestKnows, SessionKnows
<1>13. CASE Upload!Abort(r)
  BY <1>1, <1>2, <1>3, <1>13
     DEF Upload!Abort, Upload!Start, Upload!CanAbort, Upload!Pcs, PathInv,
         PathTypes, RequestKnows, SessionKnows
<1>14. CASE Upload!DropPart(r)
  <2>1. PICK n \in req[r].snap.received : req' = [req EXCEPT ![r].n = n + 1]
    BY <1>14 DEF Upload!DropPart, Upload!ToDrop
  <2>2. n + 1 \in Nat
    BY <2>1 DEF PathInv, PathTypes, Upload!Row, Upload!Parts
  <2>. QED
    BY <1>1, <1>2, <1>3, <1>14, <2>1, <2>2
       DEF Upload!DropPart, Upload!At, Upload!history, PathInv, PathTypes,
           RequestKnows, SessionKnows
<1>15. CASE Upload!SaveAborted(r)
  BY <1>1, <1>2, <1>3, <1>15
     DEF Upload!SaveAborted, Upload!At, Upload!Finish, Upload!Idle,
         Upload!NoRow, Upload!history, Upload!Row, Upload!Statuses,
         Upload!Pcs, PathInv, PathTypes, RequestKnows, SessionKnows
<1>16. CASE Upload!Interrupt(r)
  BY <1>1, <1>2, <1>3, <1>16
     DEF Upload!Interrupt, Upload!Finish, Upload!Idle, Upload!NoRow,
         Upload!history, Upload!Row, Upload!Statuses, Upload!Pcs, PathInv,
         PathTypes, RequestKnows, SessionKnows
<1>. QED
  BY <1>4, <1>5, <1>6, <1>7, <1>8, <1>9, <1>10, <1>11, <1>12, <1>13, <1>14,
     <1>15, <1>16

\* The first video is made by the request that completed the session.
LEMMA CompleteStep ==
  ASSUME PathInv, OneRequestAtATime,
         NEW r \in Requests, NEW v \in Videos,
         CompleteUpload(r, v)
  PROVE  PathInv' /\ row' = row
<1>1. /\ req[r].pc = "completed" /\ req' = [req EXCEPT ![r] = Upload!Idle]
      /\ UNCHANGED <<row, parts, object, acked, abandoned>>
  BY DEF CompleteUpload, Upload!CompleteReturns, Upload!At, Upload!Finish,
         Upload!history
<1>2. row.status = "completed" /\ NoVideoYet
  BY <1>1 DEF PathInv, RequestKnows
<1>3. /\ DOMAIN api' = Videos /\ DOMAIN video' = Videos
      /\ \A u \in Videos \ {v} : api'[u] = api[u]
  BY DEF CompleteUpload, Pipeline!InsertVideo, Pipeline!ApiGoto, PathInv,
         PathTypes
<1>4. OneVideo'
  BY <1>2, <1>3 DEF OneVideo, NoVideoYet
<1>5. Requests = {r}
  BY DEF OneRequestAtATime
<1>. QED
  BY <1>1, <1>2, <1>3, <1>4, <1>5
     DEF Upload!Idle, Upload!NoRow, Upload!Row, Upload!Statuses, Upload!Pcs,
         PathInv, PathTypes, RequestKnows, SessionKnows

\* What the pipeline does leaves the session alone, and makes no video.
LEMMA ProcessingKeeps ==
  ASSUME PathInv, ProcessingStep
  PROVE  PathInv' /\ row' = row
<1>1. UNCHANGED <<row, parts, object, req, acked, abandoned>> /\ Pipeline!PipelineStep
  BY DEF ProcessingStep, uploadVars
<1>2. /\ DOMAIN api' = Videos /\ DOMAIN video' = Videos
      /\ NoVideoYet => NoVideoYet'
      /\ OneVideo'
  BY <1>1, PipelineMakesNone DEF PathInv, NoVideoYet, OneVideo
<1>. QED
  BY <1>1, <1>2 DEF PathInv, PathTypes, RequestKnows, SessionKnows

\* All steps together.
LEMMA PathStep ==
  ASSUME PathInv, OneRequestAtATime, [Next]_vars
  PROVE  /\ PathInv'
         /\ row.status \in {"completed", "aborted"} => row'.status = row.status
<1>1. CASE UNCHANGED vars
  BY <1>1
     DEF vars, uploadVars, pipelineVars, PathInv, PathTypes, RequestKnows,
         SessionKnows, OneVideo, NoVideoYet
<1>. QED
  BY <1>1, PathCases, RequestStep, CompleteStep, ProcessingKeeps

\* The invariant of a client that sends one request at a time.
LEMMA PathInvariant == OneRequestAtATime => (Spec => []PathInv)
<1> SUFFICES ASSUME OneRequestAtATime
             PROVE  Spec => []PathInv
  OBVIOUS
<1>1. Init => PathInv
  BY DEF Init, Upload!Init, Upload!Idle, Upload!NoRow, Upload!Row,
         Upload!Statuses, Upload!Pcs, Pipeline!Init, Pipeline!NoVideo,
         PathInv, PathTypes, RequestKnows, SessionKnows, OneVideo, NoVideoYet
<1>2. PathInv /\ [Next]_vars => PathInv'
  BY PathStep
<1>. QED
  BY <1>1, <1>2, PTL DEF Spec

------------------------------------------------------------------------------
\* However often a client retries, and wherever its requests are cut off, an
\* upload yields at most one video.
THEOREM UploadMakesOneVideo == OneRequestAtATime => (Spec => []OneVideoPerUpload)
<1>1. PathInv => OneVideoPerUpload
  <2> DEFINE made == {v \in Videos : api[v].pc # "none"}
  <2> SUFFICES ASSUME PathInv
               PROVE  Cardinality(made) <= 1
    BY DEF OneVideoPerUpload
  <2>1. CASE made = {}
    BY <2>1, FS_EmptySet
  <2>2. CASE made # {}
    <3>1. PICK v \in Videos : made = {v}
      BY <2>2 DEF PathInv, OneVideo
    <3>. QED
      BY <3>1, FS_Singleton
  <2>. QED
    BY <2>1, <2>2
<1>. QED
  BY <1>1, PathInvariant, PTL

\* Every video has its source: a completed session over the whole object.
THEOREM VideosHaveSource == OneRequestAtATime => (Spec => []VideoHasSource)
<1>1. PathInv => VideoHasSource
  BY DEF PathInv, SessionKnows, NoVideoYet, VideoHasSource
<1>. QED
  BY <1>1, PathInvariant, PTL

\* What the client was told is received stays recorded.
THEOREM AckedStaysRecorded == OneRequestAtATime => (Spec => []SerialAckedIsRecorded)
<1>1. PathInv => SerialAckedIsRecorded
  BY DEF PathInv, SessionKnows, SerialAckedIsRecorded, Upload!AckedIsRecorded
<1>. QED
  BY <1>1, PathInvariant, PTL

\* A session that was completed or aborted stays so.
THEOREM EndedStaysEnded == OneRequestAtATime => (Spec => SerialTerminalIsFinal)
<1> SUFFICES ASSUME OneRequestAtATime
             PROVE  Spec => SerialTerminalIsFinal
  OBVIOUS
<1>1. PathInv /\ [Next]_vars =>
        [row.status \in {"completed", "aborted"} =>
           row'.status = row.status]_(Upload!vars)
  BY PathStep
<1>. QED
  BY <1>1, PathInvariant, PTL
     DEF Spec, SerialTerminalIsFinal, Upload!TerminalIsFinal

------------------------------------------------------------------------------
(* The path implements VideoLifecycle. What the proofs about MediaPipeline  *)
(* show they show of their own copy of it, the same as the path's.          *)

Facts == INSTANCE MediaPipeline_proofs

\* Written out, both copies take the same steps.
LEMMA SameSteps == (Pipeline!Init <=> Facts!Init) /\ (Pipeline!Next <=> Facts!Next)
BY DEF
  Pipeline!Record, Facts!Record, Pipeline!NoVideo, Facts!NoVideo,
  Pipeline!Outputs, Facts!Outputs, Pipeline!OutputIds, Facts!OutputIds,
  Pipeline!Job, Facts!Job, Pipeline!ApiPcs, Facts!ApiPcs, Pipeline!Api,
  Facts!Api, Pipeline!WorkerPcs, Facts!WorkerPcs, Pipeline!IdleWorker,
  Facts!IdleWorker, Pipeline!Editing, Facts!Editing, Pipeline!IdleEditor,
  Facts!IdleEditor, Pipeline!Init, Facts!Init, Pipeline!Exists, Facts!Exists,
  Pipeline!UpdateVideo, Facts!UpdateVideo, Pipeline!SetVideoStatus,
  Facts!SetVideoStatus, Pipeline!HasAll, Facts!HasAll, Pipeline!ApiGoto,
  Facts!ApiGoto, Pipeline!InsertVideo, Facts!InsertVideo, Pipeline!FindVideo,
  Facts!FindVideo, Pipeline!MarkQueued, Facts!MarkQueued, Pipeline!Dispatch,
  Facts!Dispatch, Pipeline!ApiInterrupt, Facts!ApiInterrupt, Pipeline!Holds,
  Facts!Holds, Pipeline!WorksOn, Facts!WorksOn, Pipeline!Released,
  Facts!Released, Pipeline!Acked, Facts!Acked, Pipeline!Reserve, Facts!Reserve,
  Pipeline!LeaseExpires, Facts!LeaseExpires, Pipeline!Ack, Facts!Ack,
  Pipeline!Nack, Facts!Nack, Pipeline!WorkerCrash, Facts!WorkerCrash,
  Pipeline!WorkerGoto, Facts!WorkerGoto, Pipeline!AlreadyDone,
  Facts!AlreadyDone, Pipeline!CheckReady, Facts!CheckReady, Pipeline!Load,
  Facts!Load, Pipeline!MarkProcessing, Facts!MarkProcessing, Pipeline!Transcode,
  Facts!Transcode, Pipeline!Persist, Facts!Persist, Pipeline!AllPersisted,
  Facts!AllPersisted, Pipeline!MarkReady, Facts!MarkReady,
  Pipeline!AttemptFails, Facts!AttemptFails, Pipeline!MarkFailed,
  Facts!MarkFailed, Pipeline!ProcessThrows, Facts!ProcessThrows,
  Pipeline!ReadForRename, Facts!ReadForRename, Pipeline!Rename, Facts!Rename,
  Pipeline!DeleteVideo, Facts!DeleteVideo, Pipeline!EnqueueStep,
  Facts!EnqueueStep, Pipeline!RunStep, Facts!RunStep, Pipeline!MemberStep,
  Facts!MemberStep, Pipeline!PipelineStep, Facts!PipelineStep, Pipeline!Next,
  Facts!Next

\* Both copies mean the same lifecycle.
LEMMA SameLifecycle ==
  /\ Pipeline!Lifecycle!Init <=> Facts!Lifecycle!Init
  /\ [Pipeline!Lifecycle!Next]_(Pipeline!Lifecycle!lifecycle)
       <=> [Facts!Lifecycle!Next]_(Facts!Lifecycle!lifecycle)
<1> USE DEF Pipeline!HasAll, Facts!HasAll, Pipeline!Outputs, Facts!Outputs
<1>1. Pipeline!Lifecycle!Init <=> Facts!Lifecycle!Init
  BY DEF Pipeline!Lifecycle!Init, Facts!Lifecycle!Init
<1>2. [Pipeline!Lifecycle!Next]_(Pipeline!Lifecycle!lifecycle)
        <=> [Facts!Lifecycle!Next]_(Facts!Lifecycle!lifecycle)
  BY DEF
    Pipeline!Lifecycle!Init, Facts!Lifecycle!Init, Pipeline!Lifecycle!Move,
    Facts!Lifecycle!Move, Pipeline!Lifecycle!Submit, Facts!Lifecycle!Submit,
    Pipeline!Lifecycle!Queue, Facts!Lifecycle!Queue, Pipeline!Lifecycle!Start,
    Facts!Lifecycle!Start, Pipeline!Lifecycle!Finish, Facts!Lifecycle!Finish,
    Pipeline!Lifecycle!Fail, Facts!Lifecycle!Fail, Pipeline!Lifecycle!Produce,
    Facts!Lifecycle!Produce, Pipeline!Lifecycle!Remove, Facts!Lifecycle!Remove,
    Pipeline!Lifecycle!Next, Facts!Lifecycle!Next, Pipeline!Lifecycle!lifecycle,
    Facts!Lifecycle!lifecycle
<1>. QED
  BY <1>1, <1>2

\* To the pipeline an upload is a member who inserts videos: the path is a
\* pipeline, so what holds of every pipeline holds of the path.
THEOREM PathIsPipeline == Spec => Pipeline!Spec
<1>1. Init => Pipeline!Init
  BY DEF Init
<1>2. [Next]_vars => [Pipeline!Next]_(Pipeline!vars)
  BY DEF Next, UploadStep, CompleteUpload, ProcessingStep, vars, pipelineVars,
         Pipeline!Next, Pipeline!vars
<1>. QED
  BY <1>1, <1>2, PTL DEF Spec, Pipeline!Spec

LEMMA SameSpecification == Pipeline!Spec => Facts!Spec
<1>1. [Pipeline!Next]_(Pipeline!vars) => [Facts!Next]_(Facts!vars)
  BY SameSteps DEF Pipeline!vars, Facts!vars
<1>. QED
  BY <1>1, SameSteps, PTL DEF Pipeline!Spec, Facts!Spec

\* And the sessions of the path are those which UploadSession_proofs is about.
Sessions == INSTANCE UploadSession_proofs

LEMMA SameCardinality == \A S : Upload!Cardinality(S) = Sessions!Cardinality(S)
  BY Zenon DEF Upload!Cardinality, Sessions!Cardinality

LEMMA SameRequests == (Upload!Init <=> Sessions!Init) /\ (Upload!Next <=> Sessions!Next)
<1> USE DEF Upload!NoRow, Sessions!NoRow, Upload!Idle, Sessions!Idle,
        Upload!Parts, Sessions!Parts, Upload!history, Sessions!history,
        Upload!At, Sessions!At, Upload!Goto, Sessions!Goto, Upload!Finish,
        Sessions!Finish, Upload!Start, Sessions!Start, Upload!CanReceive,
        Sessions!CanReceive, Upload!Received, Sessions!Received,
        Upload!IsComplete, Sessions!IsComplete, Upload!CanComplete,
        Sessions!CanComplete, Upload!CanAbort, Sessions!CanAbort,
        Upload!ToDrop, Sessions!ToDrop
<1>1. ASSUME NEW r \in Requests PROVE Upload!Begin(r) <=> Sessions!Begin(r)
  BY DEF Upload!Begin, Sessions!Begin
<1>2. ASSUME NEW r \in Requests PROVE Upload!UploadPart(r) <=> Sessions!UploadPart(r)
  BY DEF Upload!UploadPart, Sessions!UploadPart
<1>3. ASSUME NEW r \in Requests PROVE Upload!PutPart(r) <=> Sessions!PutPart(r)
  BY DEF Upload!PutPart, Sessions!PutPart
<1>4. ASSUME NEW r \in Requests PROVE Upload!SavePart(r) <=> Sessions!SavePart(r)
  BY DEF Upload!SavePart, Sessions!SavePart
<1>5. ASSUME NEW r \in Requests PROVE Upload!Complete(r) <=> Sessions!Complete(r)
  BY SameCardinality DEF Upload!Complete, Sessions!Complete
<1>6. ASSUME NEW r \in Requests PROVE Upload!Gather(r) <=> Sessions!Gather(r)
  BY DEF Upload!Gather, Sessions!Gather
<1>7. ASSUME NEW r \in Requests PROVE Upload!PutObject(r) <=> Sessions!PutObject(r)
  BY DEF Upload!PutObject, Sessions!PutObject
<1>8. ASSUME NEW r \in Requests PROVE Upload!DeletePart(r) <=> Sessions!DeletePart(r)
  BY DEF Upload!DeletePart, Sessions!DeletePart
<1>9. ASSUME NEW r \in Requests PROVE Upload!SaveCompleted(r) <=> Sessions!SaveCompleted(r)
  BY DEF Upload!SaveCompleted, Sessions!SaveCompleted
<1>10. ASSUME NEW r \in Requests PROVE Upload!CompleteReturns(r) <=> Sessions!CompleteReturns(r)
  BY DEF Upload!CompleteReturns, Sessions!CompleteReturns
<1>11. ASSUME NEW r \in Requests PROVE Upload!Abort(r) <=> Sessions!Abort(r)
  BY DEF Upload!Abort, Sessions!Abort
<1>12. ASSUME NEW r \in Requests PROVE Upload!DropPart(r) <=> Sessions!DropPart(r)
  BY DEF Upload!DropPart, Sessions!DropPart
<1>13. ASSUME NEW r \in Requests PROVE Upload!SaveAborted(r) <=> Sessions!SaveAborted(r)
  BY DEF Upload!SaveAborted, Sessions!SaveAborted
<1>14. ASSUME NEW r \in Requests PROVE Upload!Interrupt(r) <=> Sessions!Interrupt(r)
  BY DEF Upload!Interrupt, Sessions!Interrupt
<1>15. Upload!Init <=> Sessions!Init
  BY DEF Upload!Init, Sessions!Init
<1>. QED
  BY <1>1, <1>2, <1>3, <1>4, <1>5, <1>6, <1>7, <1>8, <1>9, <1>10, <1>11,
       <1>12, <1>13, <1>14, <1>15 DEF Upload!Next, Sessions!Next,
       Upload!ServiceStep, Sessions!ServiceStep, Upload!CompleteSteps,
       Sessions!CompleteSteps

LEMMA SamePromise ==
  /\ Sessions!Promise!Init <=> Upload!Promise!Init
  /\ [Sessions!Promise!Next]_(Sessions!Promise!promise)
       <=> [Upload!Promise!Next]_(Upload!Promise!promise)
<1> USE DEF Upload!Whole, Sessions!Whole, Upload!Parts, Sessions!Parts
<1>1. Sessions!Promise!Init <=> Upload!Promise!Init
  BY DEF Upload!Promise!Init, Sessions!Promise!Init
<1>2. [Sessions!Promise!Next]_(Sessions!Promise!promise)
        <=> [Upload!Promise!Next]_(Upload!Promise!promise)
  BY DEF
    Upload!Promise!Next, Sessions!Promise!Next, Upload!Promise!promise,
    Sessions!Promise!promise, Upload!Promise!Parts, Sessions!Promise!Parts,
    Upload!Promise!Begin, Sessions!Promise!Begin, Upload!Promise!Store,
    Sessions!Promise!Store, Upload!Promise!Receive, Sessions!Promise!Receive,
    Upload!Promise!Complete, Sessions!Promise!Complete, Upload!Promise!GiveUp,
    Sessions!Promise!GiveUp, Upload!Promise!Drop, Sessions!Promise!Drop,
    Upload!Promise!Abort, Sessions!Promise!Abort
<1>. QED
  BY <1>1, <1>2

\* To the session what follows an upload does nothing: its part of the path is a
\* session's behaviour.
LEMMA PathIsSession == Spec => Sessions!Spec
<1>1. Init => Sessions!Init
  BY SameRequests DEF Init
<1>2. [Next]_vars => [Sessions!Next]_(Sessions!vars)
  <2>1. [Next]_vars => [Upload!Next]_(Upload!vars)
    BY DEF Next, UploadStep, CompleteUpload, ProcessingStep, vars, uploadVars,
           Upload!Next, Upload!vars
  <2>. QED
    BY <2>1, SameRequests DEF Upload!vars, Sessions!vars
<1>. QED
  BY <1>1, <1>2, PTL DEF Spec, Sessions!Spec

\* For a client with one request at a time the session keeps its promise, whatever
\* becomes of its video.
THEOREM PathKeepsPromise == OneRequestAtATime => (Spec => SessionKeepsPromise)
<1> SUFFICES ASSUME OneRequestAtATime
             PROVE  Spec => SessionKeepsPromise
  OBVIOUS
<1>1. Sessions!Spec => Sessions!ImplementsPromise
  BY Sessions!SessionKeepsPromise, PathAssumption
     DEF OneRequestAtATime, Sessions!OneRequestAtATime
<1>2. Sessions!ImplementsPromise => SessionKeepsPromise
  BY SamePromise, PTL
     DEF Sessions!ImplementsPromise, Sessions!Promise!Spec, SessionKeepsPromise,
         Upload!ImplementsPromise, Upload!Promise!Spec
<1>. QED
  BY <1>1, <1>2, PathIsSession, PTL

\* What members see as ready is whole from end to end: the upload it was made of
\* is completed, every part of it is in the store, and so are the outputs.
ReadyIsWhole ==
  \A v \in Videos : video[v].status = "ready" =>
    /\ row.status = "completed"
    /\ object = Upload!Whole
    /\ Pipeline!HasAll(v, MinRenditions)

\* For a client with one request at a time every ready video is whole, with any
\* renames and with leases that end during a run.
THEOREM ReadyEndToEnd == OneRequestAtATime => (Spec => []ReadyIsWhole)
<1>1. Facts!Spec => []Facts!ReadyHasOutputs
  BY Facts!ReadyComplete, PathAssumption
<1>2. VideoHasSource /\ Facts!ReadyHasOutputs => ReadyIsWhole
  BY DEF VideoHasSource, ReadyIsWhole, Facts!ReadyHasOutputs, Facts!HasAll,
         Facts!Outputs, Pipeline!HasAll, Pipeline!Outputs
<1>. QED
  BY <1>1, <1>2, PathIsPipeline, SameSpecification, VideosHaveSource, PTL

\* The path implements the lifecycle members are promised, from the first part
\* on, as long as a lease outlasts the run it covers and nobody writes a video
\* from a stale record.
THEOREM PathImplements ==
  LeaseCoversRun /\ Editors = {} => (Spec => ImplementsLifecycle)
<1> SUFFICES ASSUME LeaseCoversRun, Editors = {}
             PROVE  Spec => ImplementsLifecycle
  OBVIOUS
<1>1. Facts!Spec => Facts!ImplementsLifecycle
  BY Facts!PipelineImplements, PathAssumption DEF Facts!Undisturbed
<1>2. Facts!ImplementsLifecycle => ImplementsLifecycle
  BY SameLifecycle, PTL
     DEF Facts!ImplementsLifecycle, Facts!Lifecycle!Spec, ImplementsLifecycle,
         Pipeline!ImplementsLifecycle, Pipeline!Lifecycle!Spec
<1>. QED
  BY <1>1, <1>2, PathIsPipeline, SameSpecification, PTL

=============================================================================
