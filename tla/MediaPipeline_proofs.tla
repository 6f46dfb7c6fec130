----------------------- MODULE MediaPipeline_proofs -----------------------
(***************************************************************************)
(* Proofs that MediaPipeline is type correct and that, for any number of   *)
(* videos, workers and renames, with leases that may run out at any time:  *)
(* a ready video has its outputs, no job is lost silently, a deleted video *)
(* leaves no outputs and stays deleted.                                    *)
(***************************************************************************)
EXTENDS MediaPipeline, TLAPS

\* A job exists, and a video row can exist, only once the API got that far.
ApiOrder ==
  \A v \in Videos :
    /\ Exists(v) => api[v].pc # "none"
    /\ job[v].state # "none" => api[v].pc = "done"

\* A job waits only while it may still be delivered.
DeliveriesLeft ==
  \A v \in Videos : job[v].state \in {"none", "waiting"} =>
    job[v].deliveries < MaxDeliveries

\* A run has stored the outputs it counts, unless the video was deleted, and a
\* handler that returned left its video settled.
WorkerKnows(w) ==
  worker[w].pc # "idle" =>
    LET v == worker[w].vid IN
      /\ api[v].pc = "done"
      /\ worker[w].pc = "persist" =>
           /\ worker[w].n >= MinRenditions
           /\ Exists(v) => \A o \in OutputIds :
                             o <= worker[w].k => stored[v][o] > 0
      /\ worker[w].pc = "ack" => v \in settled

\* A record that says ready was read from a video that has its outputs still,
\* unless it was deleted since.
EditorKnows(e) ==
  editor[e] # IdleEditor =>
    LET v == editor[e].vid IN
      /\ api[v].pc # "none"
      /\ editor[e].snap.status # "absent"
      /\ editor[e].snap.status = "ready" =>
           /\ v \in settled
           /\ Exists(v) => HasAll(v, MinRenditions)

ReadySettled == \A v \in Videos : video[v].status = "ready" => v \in settled

IInv ==
  /\ TypeOK
  /\ DeliveriesLeft
  /\ ApiOrder
  /\ \A w \in Workers : WorkerKnows(w)
  /\ \A e \in Editors : EditorKnows(e)
  /\ ReadySettled
  /\ NoSilentLoss
  /\ ReadyHasOutputs
  /\ NoOrphanOutputs

----------------------------------------------------------------------------
\* Every step is one of the actions below, or changes nothing.
LEMMA StepCases ==
  ASSUME [Next]_vars
  PROVE  \/ \E v \in Videos :
              \/ InsertVideo(v)
              \/ FindVideo(v)
              \/ MarkQueued(v)
              \/ Dispatch(v)
              \/ ApiInterrupt(v)
              \/ LeaseExpires(v)
              \/ DeleteVideo(v)
         \/ \E w \in Workers, v \in Videos : Reserve(w, v)
         \/ \E w \in Workers :
              \/ CheckReady(w)
              \/ Load(w)
              \/ MarkProcessing(w)
              \/ Transcode(w)
              \/ Persist(w)
              \/ MarkReady(w)
              \/ AttemptFails(w)
              \/ MarkFailed(w)
              \/ ProcessThrows(w)
              \/ Ack(w)
              \/ Nack(w)
              \/ WorkerCrash(w)
         \/ \E e \in Editors, v \in Videos : ReadForRename(e, v)
         \/ \E e \in Editors : Rename(e)
         \/ UNCHANGED vars
  BY DEF Next, PipelineStep, EnqueueStep, RunStep, MemberStep

\* The record of a slot that runs a job.
LEMMA BusyTyped ==
  ASSUME TypeOK, NEW w \in Workers, worker[w].pc # "idle"
  PROVE  worker[w] \in Busy
  BY DEF TypeOK, IdleWorker

\* Writing a record to a video row, and moving a request, a run or a job on,
\* keep the types.
LEMMA WriteTyped ==
  ASSUME TypeOK, NEW v \in Videos, NEW r \in Record, NEW s \in VideoStatus,
         SetVideoStatus(v, r, s)
  PROVE  video' \in [Videos -> Record]
<1>1. [r EXCEPT !.status = s] \in Record
  BY DEF Record
<1>. QED
  BY <1>1 DEF SetVideoStatus, UpdateVideo, TypeOK

LEMMA ApiGotoTyped ==
  ASSUME TypeOK, NEW v \in Videos, NEW p \in ApiPcs, ApiGoto(v, p)
  PROVE  api' \in [Videos -> Api]
  BY DEF ApiGoto, TypeOK, Api

LEMMA WorkerGotoTyped ==
  ASSUME TypeOK, NEW w \in Workers, worker[w].pc # "idle",
         NEW p \in WorkerPcs \ {"idle"}, WorkerGoto(w, p)
  PROVE  worker' \in [Workers -> Busy \union {IdleWorker}]
<1>1. [worker[w] EXCEPT !.pc = p] \in Busy
  BY BusyTyped DEF Busy
<1>. QED
  BY <1>1 DEF WorkerGoto, TypeOK

LEMMA ReleasedTyped ==
  ASSUME NEW j \in Job
  PROVE  Released(j) \in Job /\ Acked(j) \in Job
  BY DEF Released, Acked, Job

\* Types are preserved; a waiting job has a delivery left.
LEMMA TypeStep ==
  ASSUME TypeOK,
         DeliveriesLeft,
         [Next]_vars
  PROVE  TypeOK'
<1>1. ASSUME NEW v \in Videos, InsertVideo(v)
      PROVE  TypeOK'
  <2>1. video' \in [Videos -> Record]
    BY <1>1, PipelineAssumption DEF InsertVideo, TypeOK, Record, VideoStatus
  <2>2. api' \in [Videos -> Api]
    BY <1>1, ApiGotoTyped DEF InsertVideo, ApiPcs
  <2>. QED
    BY <1>1, <2>1, <2>2 DEF InsertVideo, TypeOK
<1>2. ASSUME NEW v \in Videos, FindVideo(v)
      PROVE  TypeOK'
  BY <1>2, PipelineAssumption
     DEF FindVideo, TypeOK, Exists, NoVideo, Record, VideoStatus, Api,
         ApiPcs, Job, Busy, WorkerPcs, IdleWorker, Editing, IdleEditor
<1>3. ASSUME NEW v \in Videos, MarkQueued(v)
      PROVE  TypeOK'
  <2>1. api[v].snap \in Record
    BY DEF TypeOK, Api
  <2>2. video' \in [Videos -> Record]
    BY <1>3, <2>1, WriteTyped DEF MarkQueued, VideoStatus
  <2>3. api' \in [Videos -> Api]
    BY <1>3, ApiGotoTyped DEF MarkQueued, ApiPcs
  <2>. QED
    BY <1>3, <2>1, <2>2, <2>3 DEF MarkQueued, TypeOK
<1>4. ASSUME NEW v \in Videos, Dispatch(v)
      PROVE  TypeOK'
  <2>1. job' \in [Videos -> Job]
    BY <1>4 DEF Dispatch, TypeOK, Job
  <2>2. api' \in [Videos -> Api]
    BY <1>4, ApiGotoTyped DEF Dispatch, ApiPcs
  <2>. QED
    BY <1>4, <2>1, <2>2 DEF Dispatch, TypeOK
<1>5. ASSUME NEW v \in Videos, ApiInterrupt(v)
      PROVE  TypeOK'
  <2>1. api' \in [Videos -> Api]
    BY <1>5, ApiGotoTyped DEF ApiInterrupt, ApiPcs
  <2>. QED
    BY <1>5, <2>1 DEF ApiInterrupt, TypeOK
<1>6. ASSUME NEW v \in Videos, LeaseExpires(v)
      PROVE  TypeOK'
  <2>1. job' \in [Videos -> Job]
    BY <1>6, ReleasedTyped DEF LeaseExpires, TypeOK
  <2>. QED
    BY <1>6, <2>1 DEF LeaseExpires, TypeOK
<1>7. ASSUME NEW v \in Videos, DeleteVideo(v)
      PROVE  TypeOK'
  BY <1>7, PipelineAssumption
     DEF DeleteVideo, TypeOK, Exists, NoVideo, Record, VideoStatus, Api,
         ApiPcs, Job, Busy, WorkerPcs, IdleWorker, Editing, IdleEditor
<1>8. ASSUME NEW w \in Workers, NEW v \in Videos, Reserve(w, v)
      PROVE  TypeOK'
  <2>1. job[v].deliveries + 1 \in 0..MaxDeliveries
    BY <1>8, PipelineAssumption DEF Reserve, DeliveriesLeft, TypeOK, Job
  <2>2. job' \in [Videos -> Job]
    BY <1>8, <2>1 DEF Reserve, TypeOK, Job
  <2>3. [pc |-> "check", vid |-> v, snap |-> NoVideo,
         attempt |-> 1, n |-> MinRenditions, k |-> 0] \in Busy
    BY PipelineAssumption
       DEF Busy, WorkerPcs, NoVideo, Record, VideoStatus
  <2>4. worker' \in [Workers -> Busy \union {IdleWorker}]
    BY <1>8, <2>3 DEF Reserve, TypeOK
  <2>. QED
    BY <1>8, <2>1, <2>2, <2>3, <2>4 DEF Reserve, TypeOK
<1>9. ASSUME NEW w \in Workers, CheckReady(w)
      PROVE  TypeOK'
  <2>1. worker' \in [Workers -> Busy \union {IdleWorker}]
    BY <1>9, WorkerGotoTyped DEF CheckReady, WorkerPcs
  <2>. QED
    BY <1>9, <2>1 DEF CheckReady, TypeOK
<1>10. ASSUME NEW w \in Workers, Load(w)
      PROVE  TypeOK'
  <2>1. worker[w] \in Busy
    BY <1>10, BusyTyped DEF Load
  <2>2. video[worker[w].vid] \in Record
    BY <2>1 DEF TypeOK, Busy
  <2>3. [worker[w] EXCEPT
           !.pc = IF Exists(worker[w].vid) THEN "mark" ELSE "nack",
           !.snap = video[worker[w].vid]] \in Busy
    BY <2>1, <2>2 DEF Busy, WorkerPcs
  <2>4. worker' \in [Workers -> Busy \union {IdleWorker}]
    BY <1>10, <2>3 DEF Load, TypeOK
  <2>. QED
    BY <1>10, <2>1, <2>2, <2>3, <2>4 DEF Load, TypeOK
<1>11. ASSUME NEW w \in Workers, MarkProcessing(w)
      PROVE  TypeOK'
  <2>1. worker[w].vid \in Videos /\ worker[w].snap \in Record
    BY <1>11, BusyTyped DEF MarkProcessing, Busy
  <2>2. video' \in [Videos -> Record]
    BY <1>11, <2>1, WriteTyped DEF MarkProcessing, VideoStatus
  <2>3. worker' \in [Workers -> Busy \union {IdleWorker}]
    BY <1>11, WorkerGotoTyped DEF MarkProcessing, WorkerPcs
  <2>. QED
    BY <1>11, <2>1, <2>2, <2>3 DEF MarkProcessing, TypeOK
<1>12. ASSUME NEW w \in Workers, Transcode(w)
      PROVE  TypeOK'
  <2>1. PICK n \in RenditionCounts :
          worker' = [worker EXCEPT ![w].pc = "persist", ![w].n = n, ![w].k = 0]
    BY <1>12 DEF Transcode
  <2>2. worker[w] \in Busy
    BY <1>12, BusyTyped DEF Transcode
  <2>3. [worker[w] EXCEPT !.pc = "persist", !.n = n, !.k = 0] \in Busy
    BY <2>2 DEF Busy, WorkerPcs
  <2>4. worker' \in [Workers -> Busy \union {IdleWorker}]
    BY <2>1, <2>3 DEF TypeOK
  <2>. QED
    BY <1>12, <2>1, <2>2, <2>3, <2>4 DEF Transcode, TypeOK
<1>13. ASSUME NEW w \in Workers, Persist(w)
      PROVE  TypeOK'
  <2>1. worker[w] \in Busy
    BY <1>13, BusyTyped DEF Persist
  <2>2. worker[w].k + 1 \in OutputIds
    BY <1>13, <2>1 DEF Persist, Busy, OutputIds
  <2>3. worker[w].k + 1 \in Nat
    BY <2>1 DEF Busy
  <2>4. stored' \in [Videos -> [OutputIds -> 0..MaxCopies]]
    BY <1>13, <2>1, <2>2, PipelineAssumption DEF Persist, TypeOK, Busy
  <2>5. [worker[w] EXCEPT !.k = worker[w].k + 1] \in Busy
    BY <2>1, <2>3 DEF Busy
  <2>6. worker' \in [Workers -> Busy \union {IdleWorker}]
    BY <1>13, <2>5 DEF Persist, TypeOK
  <2>. QED
    BY <1>13, <2>1, <2>2, <2>3, <2>4, <2>5, <2>6 DEF Persist, TypeOK
<1>14. ASSUME NEW w \in Workers, MarkReady(w)
      PROVE  TypeOK'
  <2>1. worker[w].vid \in Videos /\ worker[w].snap \in Record
    BY <1>14, BusyTyped DEF MarkReady, Busy
  <2>2. video' \in [Videos -> Record]
    BY <1>14, <2>1, WriteTyped DEF MarkReady, VideoStatus
  <2>3. worker' \in [Workers -> Busy \union {IdleWorker}]
    BY <1>14, WorkerGotoTyped DEF MarkReady, WorkerPcs
  <2>4. settled' \subseteq Videos
    BY <1>14, <2>1 DEF MarkReady, TypeOK
  <2>. QED
    BY <1>14, <2>1, <2>2, <2>3, <2>4 DEF MarkReady, TypeOK
<1>15. ASSUME NEW w \in Workers, AttemptFails(w)
      PROVE  TypeOK'
  <2>1. worker[w] \in Busy
    BY <1>15, BusyTyped DEF AttemptFails
  <2>2. worker[w].attempt < MaxAttempts =>
          worker[w].attempt + 1 \in 1..MaxAttempts
    BY <2>1, PipelineAssumption DEF Busy
  <2>3. \A a \in 1..MaxAttempts :
        [worker[w] EXCEPT !.pc = "transcode", !.attempt = a, !.k = 0] \in Busy
    BY <2>1 DEF Busy, WorkerPcs
  <2>4. [worker[w] EXCEPT !.pc = "markFailed", !.k = 0] \in Busy
    BY <2>1 DEF Busy, WorkerPcs
  <2>5. \/ worker[w].attempt < MaxAttempts
          /\ worker' = [worker EXCEPT ![w] = [worker[w] EXCEPT
               !.pc = "transcode", !.attempt = worker[w].attempt + 1, !.k = 0]]
       \/ worker' = [worker EXCEPT ![w] =
                        [worker[w] EXCEPT !.pc = "markFailed", !.k = 0]]
    BY <1>15 DEF AttemptFails, TypeOK
  <2>6. worker' \in [Workers -> Busy \union {IdleWorker}]
    BY <2>2, <2>3, <2>4, <2>5 DEF TypeOK
  <2>. QED
    BY <1>15, <2>1, <2>2, <2>3, <2>4, <2>5, <2>6 DEF AttemptFails, TypeOK
<1>16. ASSUME NEW w \in Workers, MarkFailed(w)
      PROVE  TypeOK'
  <2>1. worker[w].vid \in Videos /\ worker[w].snap \in Record
    BY <1>16, BusyTyped DEF MarkFailed, Busy
  <2>2. video' \in [Videos -> Record]
    BY <1>16, <2>1, WriteTyped DEF MarkFailed, VideoStatus
  <2>3. worker' \in [Workers -> Busy \union {IdleWorker}]
    BY <1>16, WorkerGotoTyped DEF MarkFailed, WorkerPcs
  <2>4. settled' \subseteq Videos
    BY <1>16, <2>1 DEF MarkFailed, TypeOK
  <2>. QED
    BY <1>16, <2>1, <2>2, <2>3, <2>4 DEF MarkFailed, TypeOK
<1>17. ASSUME NEW w \in Workers, ProcessThrows(w)
      PROVE  TypeOK'
  <2>1. worker' \in [Workers -> Busy \union {IdleWorker}]
    BY <1>17, WorkerGotoTyped DEF ProcessThrows, WorkerPcs
  <2>. QED
    BY <1>17, <2>1 DEF ProcessThrows, TypeOK
<1>18. ASSUME NEW w \in Workers, Ack(w)
      PROVE  TypeOK'
  <2>1. worker[w].vid \in Videos
    BY <1>18, BusyTyped DEF Ack, Busy
  <2>2. job' \in [Videos -> Job]
    BY <1>18, <2>1, ReleasedTyped DEF Ack, TypeOK
  <2>3. worker' \in [Workers -> Busy \union {IdleWorker}]
    BY <1>18 DEF Ack, TypeOK
  <2>. QED
    BY <1>18, <2>1, <2>2, <2>3 DEF Ack, TypeOK
<1>19. ASSUME NEW w \in Workers, Nack(w)
      PROVE  TypeOK'
  <2>1. worker[w].vid \in Videos
    BY <1>19, BusyTyped DEF Nack, Busy
  <2>2. job' \in [Videos -> Job]
    BY <1>19, <2>1, ReleasedTyped DEF Nack, TypeOK
  <2>3. worker' \in [Workers -> Busy \union {IdleWorker}]
    BY <1>19 DEF Nack, TypeOK
  <2>. QED
    BY <1>19, <2>1, <2>2, <2>3 DEF Nack, TypeOK
<1>20. ASSUME NEW w \in Workers, WorkerCrash(w)
      PROVE  TypeOK'
  BY <1>20, PipelineAssumption
     DEF WorkerCrash, TypeOK, Exists, NoVideo, Record, VideoStatus, Api,
         ApiPcs, Job, Busy, WorkerPcs, IdleWorker, Editing, IdleEditor
<1>21. ASSUME NEW e \in Editors, NEW v \in Videos, ReadForRename(e, v)
      PROVE  TypeOK'
  BY <1>21, PipelineAssumption
     DEF ReadForRename, TypeOK, Exists, NoVideo, Record, VideoStatus, Api,
         ApiPcs, Job, Busy, WorkerPcs, IdleWorker, Editing, IdleEditor
<1>22. ASSUME NEW e \in Editors, Rename(e)
      PROVE  TypeOK'
  BY <1>22, PipelineAssumption
     DEF Rename, UpdateVideo, TypeOK, Exists, NoVideo, Record, VideoStatus,
         Api, ApiPcs, Job, Busy, WorkerPcs, IdleWorker, Editing, IdleEditor
<1>23. CASE UNCHANGED vars
  BY <1>23
     DEF vars, TypeOK, Exists, NoVideo, Record, VideoStatus, Api, ApiPcs,
         Job, Busy, WorkerPcs, IdleWorker, Editing, IdleEditor
<1>24. QED
  BY StepCases, <1>1, <1>2, <1>3, <1>4, <1>5, <1>6, <1>7, <1>8, <1>9, <1>10,
     <1>11, <1>12, <1>13, <1>14, <1>15, <1>16, <1>17, <1>18, <1>19, <1>20,
     <1>21, <1>22, <1>23

\* Released and dispatched jobs keep a delivery in hand.
LEMMA DeliveriesStep ==
  ASSUME TypeOK,
         DeliveriesLeft,
         ApiOrder,
         [Next]_vars
  PROVE  DeliveriesLeft'
<1>1. ASSUME NEW v \in Videos, Dispatch(v)
      PROVE  DeliveriesLeft'
  <2>1. job[v].deliveries < MaxDeliveries
    BY <1>1 DEF Dispatch, ApiOrder, DeliveriesLeft
  <2>. QED
    BY <1>1, <2>1 DEF Dispatch, DeliveriesLeft, TypeOK, Job
<1>2. ASSUME NEW v \in Videos, LeaseExpires(v)
      PROVE  DeliveriesLeft'
  BY <1>2, PipelineAssumption
     DEF LeaseExpires, Released, DeliveriesLeft, TypeOK, Job
<1>3. ASSUME NEW w \in Workers, NEW v \in Videos, Reserve(w, v)
      PROVE  DeliveriesLeft'
  BY <1>3, PipelineAssumption DEF Reserve, DeliveriesLeft, TypeOK, Job
<1>4. ASSUME NEW w \in Workers, Ack(w)
      PROVE  DeliveriesLeft'
  <2>1. \A j \in Job : Acked(j).state = "acked"
    BY DEF Acked, Job
  <2>2. \A v \in Videos : job'[v] = job[v] \/ job'[v] = Acked(job[v])
    BY <1>4 DEF Ack, TypeOK
  <2>. QED
    BY <2>1, <2>2 DEF DeliveriesLeft, TypeOK
<1>5. ASSUME NEW w \in Workers, Nack(w)
      PROVE  DeliveriesLeft'
  BY <1>5, PipelineAssumption
     DEF Nack, Holds, Released, DeliveriesLeft, TypeOK, Job
<1>6. CASE UNCHANGED job
  BY <1>6 DEF DeliveriesLeft, TypeOK, Job
<1>7. \A v \in Videos :
         InsertVideo(v) \/ FindVideo(v) \/ MarkQueued(v) \/ ApiInterrupt(v)
         \/ DeleteVideo(v)
           => UNCHANGED job
  BY DEF InsertVideo, FindVideo, MarkQueued, ApiInterrupt, DeleteVideo
<1>8. \A w \in Workers :
         CheckReady(w) \/ Load(w) \/ MarkProcessing(w) \/ Transcode(w) \/
         Persist(w) \/ MarkReady(w) \/ AttemptFails(w) \/ MarkFailed(w) \/
         ProcessThrows(w) \/ WorkerCrash(w)
           => UNCHANGED job
  BY DEF CheckReady, Load, MarkProcessing, Transcode, Persist, MarkReady,
         AttemptFails, MarkFailed, ProcessThrows, WorkerCrash
<1>9. \A e \in Editors, v \in Videos :
         ReadForRename(e, v)
           => UNCHANGED job
  BY DEF ReadForRename
<1>10. \A e \in Editors :
         Rename(e)
           => UNCHANGED job
  BY DEF Rename
<1>11. QED
  BY StepCases, <1>1, <1>2, <1>3, <1>4, <1>5, <1>6, <1>7, <1>8, <1>9, <1>10
     DEF vars

\* The API comes first: nothing undoes what ApiOrder says.
LEMMA OrderStep ==
  ASSUME TypeOK,
         ApiOrder,
         \A w \in Workers : WorkerKnows(w),
         [Next]_vars
  PROVE  ApiOrder'
<1>1. ASSUME NEW v \in Videos, InsertVideo(v)
      PROVE  ApiOrder'
  BY <1>1
     DEF InsertVideo, ApiGoto, ApiOrder, Exists, NoVideo, TypeOK, Api, Job
<1>2. ASSUME NEW v \in Videos, FindVideo(v)
      PROVE  ApiOrder'
  BY <1>2 DEF FindVideo, ApiOrder, Exists, NoVideo, TypeOK, Api, Job
<1>3. ASSUME NEW v \in Videos, MarkQueued(v)
      PROVE  ApiOrder'
  BY <1>3
     DEF MarkQueued, SetVideoStatus, UpdateVideo, ApiGoto, ApiOrder,
         Exists, NoVideo, TypeOK, Api, Job
<1>4. ASSUME NEW v \in Videos, Dispatch(v)
      PROVE  ApiOrder'
  BY <1>4 DEF Dispatch, ApiGoto, ApiOrder, Exists, NoVideo, TypeOK, Api, Job
<1>5. ASSUME NEW v \in Videos, ApiInterrupt(v)
      PROVE  ApiOrder'
  BY <1>5
     DEF ApiInterrupt, ApiGoto, ApiOrder, Exists, NoVideo, TypeOK, Api, Job
<1>6. ASSUME NEW v \in Videos, LeaseExpires(v)
      PROVE  ApiOrder'
  BY <1>6
     DEF LeaseExpires, Released, ApiOrder, Exists, NoVideo, TypeOK, Api,
         Job
<1>7. ASSUME NEW v \in Videos, DeleteVideo(v)
      PROVE  ApiOrder'
  BY <1>7 DEF DeleteVideo, ApiOrder, Exists, NoVideo, TypeOK, Api, Job
<1>8. ASSUME NEW w \in Workers, NEW v \in Videos, Reserve(w, v)
      PROVE  ApiOrder'
  BY <1>8 DEF Reserve, ApiOrder, Exists, NoVideo, TypeOK, Api, Job
<1>9. ASSUME NEW w \in Workers, MarkProcessing(w)
      PROVE  ApiOrder'
  BY <1>9
     DEF MarkProcessing, SetVideoStatus, UpdateVideo, WorkerGoto, ApiOrder,
         Exists, NoVideo, TypeOK, Api, Job
<1>10. ASSUME NEW w \in Workers, MarkReady(w)
      PROVE  ApiOrder'
  BY <1>10
     DEF MarkReady, SetVideoStatus, UpdateVideo, WorkerGoto, AllPersisted,
         ApiOrder, Exists, NoVideo, TypeOK, Api, Job
<1>11. ASSUME NEW w \in Workers, MarkFailed(w)
      PROVE  ApiOrder'
  BY <1>11
     DEF MarkFailed, SetVideoStatus, UpdateVideo, WorkerGoto, ApiOrder,
         Exists, NoVideo, TypeOK, Api, Job
<1>12. ASSUME NEW w \in Workers, Ack(w)
      PROVE  ApiOrder'
  <2>1. api' = api /\ video' = video
    BY <1>12 DEF Ack
  <2>2. api[worker[w].vid].pc = "done"
    BY <1>12 DEF Ack, WorkerKnows
  <2>3. \A v \in Videos : v # worker[w].vid => job'[v] = job[v]
    BY <1>12 DEF Ack, TypeOK
  <2>. QED
    BY <2>1, <2>2, <2>3 DEF ApiOrder, Exists
<1>13. ASSUME NEW w \in Workers, Nack(w)
      PROVE  ApiOrder'
  BY <1>13
     DEF Nack, Holds, Released, ApiOrder, Exists, NoVideo, TypeOK, Api, Job
<1>14. ASSUME NEW e \in Editors, Rename(e)
      PROVE  ApiOrder'
  BY <1>14
     DEF Rename, UpdateVideo, ApiOrder, Exists, NoVideo, TypeOK, Api, Job
<1>15. CASE UNCHANGED <<video, job, api>>
  BY <1>15 DEF ApiOrder, Exists, NoVideo, TypeOK, Api, Job
<1>16. \A w \in Workers :
         CheckReady(w) \/ Load(w) \/ Transcode(w) \/ Persist(w) \/
         AttemptFails(w) \/ ProcessThrows(w) \/ WorkerCrash(w)
           => UNCHANGED <<video, job, api>>
  BY DEF CheckReady, Load, Transcode, Persist, AttemptFails, ProcessThrows,
         WorkerCrash
<1>17. \A e \in Editors, v \in Videos :
         ReadForRename(e, v)
           => UNCHANGED <<video, job, api>>
  BY DEF ReadForRename
<1>18. QED
  BY StepCases, <1>1, <1>2, <1>3, <1>4, <1>5, <1>6, <1>7, <1>8, <1>9, <1>10,
     <1>11, <1>12, <1>13, <1>14, <1>15, <1>16, <1>17 DEF vars

\* A run that has stored everything has stored enough renditions.
LEMMA PersistedEnough ==
  ASSUME NEW n \in Nat, n >= MinRenditions,
         NEW k \in Nat, k + 1 \notin Outputs(n)
  PROVE  \A i \in Outputs(MinRenditions) : i <= k /\ i \in OutputIds
  BY PipelineAssumption DEF Outputs, OutputIds

\* Storing an output removes none, and adds the one a run counts next.
LEMMA PersistGrows ==
  ASSUME TypeOK, NEW w \in Workers, Persist(w)
  PROVE  /\ worker[w] \in Busy
         /\ worker[w].k + 1 \in OutputIds
         /\ \A v \in Videos, i \in OutputIds :
              stored[v][i] > 0 => stored'[v][i] > 0
         /\ stored'[worker[w].vid][worker[w].k + 1] > 0
<1>1. worker[w] \in Busy
  BY BusyTyped DEF Persist
<1>2. worker[w].k + 1 \in OutputIds
  BY <1>1 DEF Persist, Busy, OutputIds
<1>3. worker[w].vid \in Videos
  BY <1>1 DEF Busy
<1>. QED
  BY <1>1, <1>2, <1>3, PipelineAssumption DEF Persist, TypeOK

\* Deleting a video touches no other.
LEMMA DeleteLocal ==
  ASSUME TypeOK, NEW v \in Videos, DeleteVideo(v)
  PROVE  /\ ~Exists(v)'
         /\ \A u \in Videos \ {v} :
              video'[u] = video[u] /\ stored'[u] = stored[u]
         /\ settled \subseteq settled'
  BY DEF DeleteVideo, TypeOK, Exists, NoVideo

\* Outputs every run stores are outputs.
LEMMA MinOutputs == Outputs(MinRenditions) \subseteq OutputIds
  BY DEF OutputIds

\* What a run has stored stays stored until the video is deleted.
LEMMA WorkersStep ==
  ASSUME IInv,
         NEW u \in Workers,
         [Next]_vars
  PROVE  WorkerKnows(u)'
<1>1. ASSUME NEW v \in Videos, InsertVideo(v)
      PROVE  WorkerKnows(u)'
  BY <1>1
     DEF InsertVideo, ApiGoto, WorkerKnows, IInv, ApiOrder, Exists, TypeOK,
         Api, Busy, IdleWorker, OutputIds
<1>2. ASSUME NEW v \in Videos, FindVideo(v)
      PROVE  WorkerKnows(u)'
  BY <1>2
     DEF FindVideo, WorkerKnows, IInv, ApiOrder, Exists, TypeOK, Api, Busy,
         IdleWorker, OutputIds
<1>3. ASSUME NEW v \in Videos, MarkQueued(v)
      PROVE  WorkerKnows(u)'
  BY <1>3
     DEF MarkQueued, SetVideoStatus, UpdateVideo, ApiGoto, WorkerKnows,
         IInv, ApiOrder, Exists, TypeOK, Api, Busy, IdleWorker, OutputIds
<1>4. ASSUME NEW v \in Videos, Dispatch(v)
      PROVE  WorkerKnows(u)'
  BY <1>4
     DEF Dispatch, ApiGoto, WorkerKnows, IInv, ApiOrder, Exists, TypeOK,
         Api, Busy, IdleWorker, OutputIds
<1>5. ASSUME NEW v \in Videos, ApiInterrupt(v)
      PROVE  WorkerKnows(u)'
  BY <1>5
     DEF ApiInterrupt, ApiGoto, WorkerKnows, IInv, ApiOrder, Exists,
         TypeOK, Api, Busy, IdleWorker, OutputIds
<1>6. ASSUME NEW v \in Videos, DeleteVideo(v)
      PROVE  WorkerKnows(u)'
  <2>1. worker' = worker /\ api' = api
    BY <1>6 DEF DeleteVideo
  <2>. SUFFICES ASSUME worker[u].pc # "idle"
                PROVE  WorkerKnows(u)'
    BY <2>1 DEF WorkerKnows
  <2>2. worker[u].vid \in Videos
    BY BusyTyped DEF IInv, Busy
  <2>. QED
    BY <1>6, <2>1, <2>2, DeleteLocal DEF WorkerKnows, IInv, Exists
<1>7. ASSUME NEW w \in Workers, NEW v \in Videos, Reserve(w, v)
      PROVE  WorkerKnows(u)'
  BY <1>7
     DEF Reserve, WorkerKnows, IInv, ApiOrder, Exists, TypeOK, Api, Busy,
         IdleWorker, OutputIds
<1>8. ASSUME NEW w \in Workers, CheckReady(w)
      PROVE  WorkerKnows(u)'
  <2>1. UNCHANGED <<video, stored, api, settled>>
    BY <1>8 DEF CheckReady
  <2>2. worker[w] \in Busy
    BY <1>8, BusyTyped DEF CheckReady, IInv
  <2>3. u # w => worker'[u] = worker[u]
    BY <1>8 DEF CheckReady, WorkerGoto, AlreadyDone, IInv, TypeOK
  <2>4. u = w => /\ worker'[u].vid = worker[u].vid
                 /\ worker'[u].pc # "persist"
                 /\ worker'[u].pc = "ack" => AlreadyDone(worker[u].vid)
    BY <1>8, <2>2 DEF CheckReady, WorkerGoto, AlreadyDone, IInv, TypeOK, Busy
  <2>. QED
    BY <1>8, <2>1, <2>2, <2>3, <2>4
       DEF CheckReady, WorkerKnows, IInv, ReadySettled, AlreadyDone, Exists,
           Busy
<1>9. ASSUME NEW w \in Workers, Load(w)
      PROVE  WorkerKnows(u)'
  <2>1. UNCHANGED <<video, stored, api, settled>>
    BY <1>9 DEF Load
  <2>2. worker[w] \in Busy
    BY <1>9, BusyTyped DEF Load, IInv
  <2>3. u # w => worker'[u] = worker[u]
    BY <1>9 DEF Load, IInv, TypeOK
  <2>4. u = w => /\ worker'[u].vid = worker[u].vid
                 /\ worker'[u].pc # "persist"
                 /\ worker'[u].pc = "ack" => AlreadyDone(worker[u].vid)
    BY <1>9, <2>2 DEF Load, AlreadyDone, IInv, TypeOK, Busy
  <2>. QED
    BY <1>9, <2>1, <2>2, <2>3, <2>4
       DEF Load, WorkerKnows, IInv, ReadySettled, AlreadyDone, Exists, Busy
<1>10. ASSUME NEW w \in Workers, MarkProcessing(w)
      PROVE  WorkerKnows(u)'
  BY <1>10
     DEF MarkProcessing, SetVideoStatus, UpdateVideo, WorkerGoto,
         WorkerKnows, IInv, ApiOrder, Exists, TypeOK, Api, Busy, IdleWorker,
         OutputIds
<1>11. ASSUME NEW w \in Workers, Transcode(w)
      PROVE  WorkerKnows(u)'
  <2>1. PICK n \in RenditionCounts :
          /\ n >= MinRenditions
          /\ worker' = [worker EXCEPT ![w] =
               [worker[w] EXCEPT !.pc = "persist", !.n = n, !.k = 0]]
    BY <1>11 DEF Transcode, IInv, TypeOK
  <2>2. worker[w] \in Busy
    BY <1>11, BusyTyped DEF Transcode, IInv
  <2>3. UNCHANGED <<video, stored, api, settled>>
    BY <1>11 DEF Transcode
  <2>4. u # w => worker'[u] = worker[u]
    BY <2>1 DEF IInv, TypeOK
  <2>5. u = w => /\ worker'[u].vid = worker[u].vid /\ worker'[u].pc = "persist"
                 /\ worker'[u].n = n /\ worker'[u].k = 0
    BY <2>1, <2>2 DEF IInv, TypeOK, Busy
  <2>6. \A i \in OutputIds : ~(i <= 0)
    BY PipelineAssumption DEF OutputIds, Outputs
  <2>. QED
    BY <1>11, <2>1, <2>2, <2>3, <2>4, <2>5, <2>6
       DEF Transcode, WorkerKnows, IInv, Exists, Busy
<1>12. ASSUME NEW w \in Workers, Persist(w)
      PROVE  WorkerKnows(u)'
  <2>1. /\ worker[w] \in Busy
        /\ worker[w].k + 1 \in OutputIds
        /\ \A v \in Videos, i \in OutputIds :
             stored[v][i] > 0 => stored'[v][i] > 0
        /\ stored'[worker[w].vid][worker[w].k + 1] > 0
    BY <1>12, PersistGrows DEF IInv
  <2>2. /\ worker[w].pc = "persist"
        /\ worker' = [worker EXCEPT ![w].k = worker[w].k + 1]
        /\ video' = video /\ api' = api /\ settled' = settled
    BY <1>12 DEF Persist
  <2>3. CASE u = w
    <3>1. worker'[u] = [worker[u] EXCEPT !.k = worker[u].k + 1]
      BY <2>2, <2>3 DEF IInv, TypeOK
    <3>2. /\ worker'[u].pc = "persist" /\ worker'[u].vid = worker[u].vid
          /\ worker'[u].n = worker[u].n /\ worker'[u].k = worker[u].k + 1
      BY <2>1, <2>2, <2>3, <3>1 DEF Busy
    <3>3. /\ worker[u].vid \in Videos /\ worker[u].k \in Nat
          /\ \A i \in OutputIds : i \in Nat
      BY <2>1, <2>3, PipelineAssumption DEF Busy, OutputIds, Outputs
    <3>4. \A i \in OutputIds :
            i <= worker[u].k + 1 => i <= worker[u].k \/ i = worker[u].k + 1
      BY <3>3
    <3>. QED
      BY <2>1, <2>2, <2>3, <3>2, <3>3, <3>4 DEF IInv, WorkerKnows, Exists
  <2>4. CASE u # w
    <3>1. worker'[u] = worker[u]
      BY <2>2, <2>4 DEF IInv, TypeOK
    <3>. SUFFICES ASSUME worker[u].pc # "idle"
                  PROVE  WorkerKnows(u)'
      BY <3>1 DEF WorkerKnows
    <3>2. worker[u].vid \in Videos
      BY BusyTyped DEF IInv, Busy
    <3>3. WorkerKnows(u)
      BY DEF IInv
    <3>4. ASSUME worker[u].pc = "persist", Exists(worker[u].vid),
                 NEW i \in OutputIds, i <= worker[u].k
          PROVE  stored'[worker[u].vid][i] > 0
      BY <2>1, <3>2, <3>3, <3>4 DEF WorkerKnows
    <3>5. worker'[u].pc = "persist" /\ Exists(worker[u].vid) =>
            \A i \in OutputIds :
              i <= worker[u].k => stored'[worker[u].vid][i] > 0
      BY <3>1, <3>4
    <3>6. Exists(worker[u].vid)' = Exists(worker[u].vid)
      BY <2>2 DEF Exists
    <3>7. /\ worker[u].k \in Nat /\ worker[u].n \in Nat
          /\ MinRenditions \in Nat
      BY BusyTyped, PipelineAssumption DEF IInv, Busy
    <3>8. \A i \in OutputIds : i \in Nat
      BY PipelineAssumption DEF OutputIds, Outputs
    <3>9. UNCHANGED <<api, settled>>
      BY <2>2
    <3>. QED
      BY <3>1, <3>3, <3>5, <3>6, <3>7, <3>8, <3>9 DEF WorkerKnows
  <2>. QED
    BY <2>3, <2>4
<1>13. ASSUME NEW w \in Workers, MarkReady(w)
      PROVE  WorkerKnows(u)'
  BY <1>13
     DEF MarkReady, SetVideoStatus, UpdateVideo, WorkerGoto, AllPersisted,
         WorkerKnows, IInv, ApiOrder, Exists, TypeOK, Api, Busy, IdleWorker,
         OutputIds
<1>14. ASSUME NEW w \in Workers, AttemptFails(w)
      PROVE  WorkerKnows(u)'
  BY <1>14
     DEF AttemptFails, WorkerKnows, IInv, ApiOrder, Exists, TypeOK, Api,
         Busy, IdleWorker, OutputIds
<1>15. ASSUME NEW w \in Workers, MarkFailed(w)
      PROVE  WorkerKnows(u)'
  BY <1>15
     DEF MarkFailed, SetVideoStatus, UpdateVideo, WorkerGoto, WorkerKnows,
         IInv, ApiOrder, Exists, TypeOK, Api, Busy, IdleWorker, OutputIds
<1>16. ASSUME NEW w \in Workers, ProcessThrows(w)
      PROVE  WorkerKnows(u)'
  BY <1>16
     DEF ProcessThrows, WorkerGoto, WorkerKnows, IInv, ApiOrder, Exists,
         TypeOK, Api, Busy, IdleWorker, OutputIds
<1>17. ASSUME NEW w \in Workers, Ack(w)
      PROVE  WorkerKnows(u)'
  BY <1>17
     DEF Ack, Holds, Acked, WorkerKnows, IInv, ApiOrder, Exists, TypeOK,
         Api, Busy, IdleWorker, OutputIds
<1>18. ASSUME NEW w \in Workers, Nack(w)
      PROVE  WorkerKnows(u)'
  BY <1>18
     DEF Nack, Holds, Released, WorkerKnows, IInv, ApiOrder, Exists,
         TypeOK, Api, Busy, IdleWorker, OutputIds
<1>19. ASSUME NEW w \in Workers, WorkerCrash(w)
      PROVE  WorkerKnows(u)'
  BY <1>19
     DEF WorkerCrash, WorkerKnows, IInv, ApiOrder, Exists, TypeOK, Api,
         Busy, IdleWorker, OutputIds
<1>20. ASSUME NEW e \in Editors, Rename(e)
      PROVE  WorkerKnows(u)'
  BY <1>20
     DEF Rename, UpdateVideo, WorkerKnows, IInv, ApiOrder, Exists, TypeOK,
         Api, Busy, IdleWorker, OutputIds
<1>21. CASE UNCHANGED <<video, stored, api, worker, settled>>
  BY <1>21
     DEF WorkerKnows, IInv, ApiOrder, Exists, TypeOK, Api, Busy,
         IdleWorker, OutputIds
<1>22. \A v \in Videos :
         LeaseExpires(v)
           => UNCHANGED <<video, stored, api, worker, settled>>
  BY DEF LeaseExpires
<1>23. \A e \in Editors, v \in Videos :
         ReadForRename(e, v)
           => UNCHANGED <<video, stored, api, worker, settled>>
  BY DEF ReadForRename
<1>24. QED
  BY StepCases, <1>1, <1>2, <1>3, <1>4, <1>5, <1>6, <1>7, <1>8, <1>9, <1>10,
     <1>11, <1>12, <1>13, <1>14, <1>15, <1>16, <1>17, <1>18, <1>19, <1>20,
     <1>21, <1>22, <1>23 DEF vars

\* A record read as ready stays true until the video is deleted.
LEMMA EditorsStep ==
  ASSUME IInv,
         NEW x \in Editors,
         [Next]_vars
  PROVE  EditorKnows(x)'
<1>1. ASSUME NEW v \in Videos, InsertVideo(v)
      PROVE  EditorKnows(x)'
  BY <1>1
     DEF InsertVideo, ApiGoto, EditorKnows, IInv, ApiOrder, ReadySettled,
         ReadyHasOutputs, HasAll, Exists, TypeOK, Api, Busy, IdleEditor,
         Editing, OutputIds
<1>2. ASSUME NEW v \in Videos, FindVideo(v)
      PROVE  EditorKnows(x)'
  BY <1>2
     DEF FindVideo, EditorKnows, IInv, ApiOrder, ReadySettled,
         ReadyHasOutputs, HasAll, Exists, TypeOK, Api, Busy, IdleEditor,
         Editing, OutputIds
<1>3. ASSUME NEW v \in Videos, MarkQueued(v)
      PROVE  EditorKnows(x)'
  BY <1>3
     DEF MarkQueued, SetVideoStatus, UpdateVideo, ApiGoto, EditorKnows,
         IInv, ApiOrder, ReadySettled, ReadyHasOutputs, HasAll, Exists, TypeOK,
         Api, Busy, IdleEditor, Editing, OutputIds
<1>4. ASSUME NEW v \in Videos, Dispatch(v)
      PROVE  EditorKnows(x)'
  BY <1>4
     DEF Dispatch, ApiGoto, EditorKnows, IInv, ApiOrder, ReadySettled,
         ReadyHasOutputs, HasAll, Exists, TypeOK, Api, Busy, IdleEditor,
         Editing, OutputIds
<1>5. ASSUME NEW v \in Videos, ApiInterrupt(v)
      PROVE  EditorKnows(x)'
  BY <1>5
     DEF ApiInterrupt, ApiGoto, EditorKnows, IInv, ApiOrder, ReadySettled,
         ReadyHasOutputs, HasAll, Exists, TypeOK, Api, Busy, IdleEditor,
         Editing, OutputIds
<1>6. ASSUME NEW v \in Videos, DeleteVideo(v)
      PROVE  EditorKnows(x)'
  <2>1. editor' = editor /\ api' = api
    BY <1>6 DEF DeleteVideo
  <2>. SUFFICES ASSUME editor[x] # IdleEditor
                PROVE  EditorKnows(x)'
    BY <2>1 DEF EditorKnows
  <2>2. editor[x].vid \in Videos
    BY DEF IInv, TypeOK, Editing
  <2>. QED
    BY <1>6, <2>1, <2>2, DeleteLocal DEF EditorKnows, IInv, HasAll, Exists
<1>7. ASSUME NEW w \in Workers, MarkProcessing(w)
      PROVE  EditorKnows(x)'
  BY <1>7
     DEF MarkProcessing, SetVideoStatus, UpdateVideo, WorkerGoto,
         EditorKnows, IInv, ApiOrder, ReadySettled, ReadyHasOutputs, HasAll,
         Exists, TypeOK, Api, Busy, IdleEditor, Editing, OutputIds
<1>8. ASSUME NEW w \in Workers, Persist(w)
      PROVE  EditorKnows(x)'
  <2>1. UNCHANGED <<video, api, editor, settled>>
    BY <1>8 DEF Persist
  <2>. SUFFICES ASSUME editor[x] # IdleEditor
                PROVE  EditorKnows(x)'
    BY <2>1 DEF EditorKnows
  <2>2. editor[x].vid \in Videos
    BY DEF IInv, TypeOK, Editing
  <2>. QED
    BY <1>8, <2>1, <2>2, PersistGrows, MinOutputs
       DEF EditorKnows, IInv, HasAll, Exists
<1>9. ASSUME NEW w \in Workers, MarkReady(w)
      PROVE  EditorKnows(x)'
  BY <1>9
     DEF MarkReady, SetVideoStatus, UpdateVideo, WorkerGoto, AllPersisted,
         EditorKnows, IInv, ApiOrder, ReadySettled, ReadyHasOutputs, HasAll,
         Exists, TypeOK, Api, Busy, IdleEditor, Editing, OutputIds
<1>10. ASSUME NEW w \in Workers, MarkFailed(w)
      PROVE  EditorKnows(x)'
  BY <1>10
     DEF MarkFailed, SetVideoStatus, UpdateVideo, WorkerGoto, EditorKnows,
         IInv, ApiOrder, ReadySettled, ReadyHasOutputs, HasAll, Exists, TypeOK,
         Api, Busy, IdleEditor, Editing, OutputIds
<1>11. ASSUME NEW e \in Editors, NEW v \in Videos, ReadForRename(e, v)
      PROVE  EditorKnows(x)'
  BY <1>11
     DEF ReadForRename, EditorKnows, IInv, ApiOrder, ReadySettled,
         ReadyHasOutputs, HasAll, Exists, TypeOK, Api, Busy, IdleEditor,
         Editing, OutputIds
<1>12. ASSUME NEW e \in Editors, Rename(e)
      PROVE  EditorKnows(x)'
  BY <1>12
     DEF Rename, UpdateVideo, EditorKnows, IInv, ApiOrder, ReadySettled,
         ReadyHasOutputs, HasAll, Exists, TypeOK, Api, Busy, IdleEditor,
         Editing, OutputIds
<1>13. CASE UNCHANGED <<video, stored, api, editor, settled>>
  BY <1>13
     DEF EditorKnows, IInv, ApiOrder, ReadySettled, ReadyHasOutputs,
         HasAll, Exists, TypeOK, Api, Busy, IdleEditor, Editing, OutputIds
<1>14. \A v \in Videos :
         LeaseExpires(v)
           => UNCHANGED <<video, stored, api, editor, settled>>
  BY DEF LeaseExpires
<1>15. \A w \in Workers :
         CheckReady(w) \/ Load(w) \/ Transcode(w) \/ AttemptFails(w) \/
         ProcessThrows(w) \/ Ack(w) \/ Nack(w) \/ WorkerCrash(w)
           => UNCHANGED <<video, stored, api, editor, settled>>
  BY DEF CheckReady, Load, Transcode, AttemptFails, ProcessThrows, Ack,
         Nack, WorkerCrash
<1>16. \A w \in Workers, v \in Videos :
         Reserve(w, v)
           => UNCHANGED <<video, stored, api, editor, settled>>
  BY DEF Reserve
<1>17. QED
  BY StepCases, <1>1, <1>2, <1>3, <1>4, <1>5, <1>6, <1>7, <1>8, <1>9, <1>10,
     <1>11, <1>12, <1>13, <1>14, <1>15, <1>16 DEF vars

\* ready and acknowledged both mean settled.
LEMMA SettledStep ==
  ASSUME IInv,
         [Next]_vars
  PROVE  ReadySettled' /\ NoSilentLoss'
<1>1. ASSUME NEW v \in Videos, InsertVideo(v)
      PROVE  ReadySettled' /\ NoSilentLoss'
  BY <1>1
     DEF InsertVideo, ApiGoto, ReadySettled, NoSilentLoss, WorkerKnows,
         EditorKnows, IInv, Exists, TypeOK, Job, NoVideo, Record, IdleEditor
<1>2. ASSUME NEW v \in Videos, MarkQueued(v)
      PROVE  ReadySettled' /\ NoSilentLoss'
  BY <1>2
     DEF MarkQueued, SetVideoStatus, UpdateVideo, ApiGoto, ReadySettled,
         NoSilentLoss, WorkerKnows, EditorKnows, IInv, Exists, TypeOK, Job,
         NoVideo, Record, IdleEditor
<1>3. ASSUME NEW v \in Videos, Dispatch(v)
      PROVE  ReadySettled' /\ NoSilentLoss'
  BY <1>3
     DEF Dispatch, ApiGoto, ReadySettled, NoSilentLoss, WorkerKnows,
         EditorKnows, IInv, Exists, TypeOK, Job, NoVideo, Record, IdleEditor
<1>4. ASSUME NEW v \in Videos, LeaseExpires(v)
      PROVE  ReadySettled' /\ NoSilentLoss'
  BY <1>4
     DEF LeaseExpires, Released, ReadySettled, NoSilentLoss, WorkerKnows,
         EditorKnows, IInv, Exists, TypeOK, Job, NoVideo, Record, IdleEditor
<1>5. ASSUME NEW v \in Videos, DeleteVideo(v)
      PROVE  ReadySettled' /\ NoSilentLoss'
  BY <1>5
     DEF DeleteVideo, ReadySettled, NoSilentLoss, WorkerKnows, EditorKnows,
         IInv, Exists, TypeOK, Job, NoVideo, Record, IdleEditor
<1>6. ASSUME NEW w \in Workers, NEW v \in Videos, Reserve(w, v)
      PROVE  ReadySettled' /\ NoSilentLoss'
  BY <1>6
     DEF Reserve, ReadySettled, NoSilentLoss, WorkerKnows, EditorKnows,
         IInv, Exists, TypeOK, Job, NoVideo, Record, IdleEditor
<1>7. ASSUME NEW w \in Workers, MarkProcessing(w)
      PROVE  ReadySettled' /\ NoSilentLoss'
  BY <1>7
     DEF MarkProcessing, SetVideoStatus, UpdateVideo, WorkerGoto,
         ReadySettled, NoSilentLoss, WorkerKnows, EditorKnows, IInv, Exists,
         TypeOK, Job, NoVideo, Record, IdleEditor
<1>8. ASSUME NEW w \in Workers, MarkReady(w)
      PROVE  ReadySettled' /\ NoSilentLoss'
  BY <1>8
     DEF MarkReady, SetVideoStatus, UpdateVideo, WorkerGoto, AllPersisted,
         ReadySettled, NoSilentLoss, WorkerKnows, EditorKnows, IInv, Exists,
         TypeOK, Job, NoVideo, Record, IdleEditor
<1>9. ASSUME NEW w \in Workers, MarkFailed(w)
      PROVE  ReadySettled' /\ NoSilentLoss'
  BY <1>9
     DEF MarkFailed, SetVideoStatus, UpdateVideo, WorkerGoto, ReadySettled,
         NoSilentLoss, WorkerKnows, EditorKnows, IInv, Exists, TypeOK, Job,
         NoVideo, Record, IdleEditor
<1>10. ASSUME NEW w \in Workers, Ack(w)
      PROVE  ReadySettled' /\ NoSilentLoss'
  BY <1>10
     DEF Ack, Holds, Acked, ReadySettled, NoSilentLoss, WorkerKnows,
         EditorKnows, IInv, Exists, TypeOK, Job, NoVideo, Record, IdleEditor
<1>11. ASSUME NEW w \in Workers, Nack(w)
      PROVE  ReadySettled' /\ NoSilentLoss'
  BY <1>11
     DEF Nack, Holds, Released, ReadySettled, NoSilentLoss, WorkerKnows,
         EditorKnows, IInv, Exists, TypeOK, Job, NoVideo, Record, IdleEditor
<1>12. ASSUME NEW e \in Editors, Rename(e)
      PROVE  ReadySettled' /\ NoSilentLoss'
  BY <1>12
     DEF Rename, UpdateVideo, ReadySettled, NoSilentLoss, WorkerKnows,
         EditorKnows, IInv, Exists, TypeOK, Job, NoVideo, Record, IdleEditor
<1>13. CASE UNCHANGED <<video, job, settled>>
  BY <1>13
     DEF ReadySettled, NoSilentLoss, WorkerKnows, EditorKnows, IInv,
         Exists, TypeOK, Job, NoVideo, Record, IdleEditor
<1>14. \A v \in Videos :
         FindVideo(v) \/ ApiInterrupt(v)
           => UNCHANGED <<video, job, settled>>
  BY DEF FindVideo, ApiInterrupt
<1>15. \A w \in Workers :
         CheckReady(w) \/ Load(w) \/ Transcode(w) \/ Persist(w) \/
         AttemptFails(w) \/ ProcessThrows(w) \/ WorkerCrash(w)
           => UNCHANGED <<video, job, settled>>
  BY DEF CheckReady, Load, Transcode, Persist, AttemptFails, ProcessThrows,
         WorkerCrash
<1>16. \A e \in Editors, v \in Videos :
         ReadForRename(e, v)
           => UNCHANGED <<video, job, settled>>
  BY DEF ReadForRename
<1>17. QED
  BY StepCases, <1>1, <1>2, <1>3, <1>4, <1>5, <1>6, <1>7, <1>8, <1>9, <1>10,
     <1>11, <1>12, <1>13, <1>14, <1>15, <1>16 DEF vars

\* ready means stored.
LEMMA ReadyStep ==
  ASSUME IInv,
         [Next]_vars
  PROVE  ReadyHasOutputs'
<1>1. ASSUME NEW v \in Videos, InsertVideo(v)
      PROVE  ReadyHasOutputs'
  BY <1>1
     DEF InsertVideo, ApiGoto, ReadyHasOutputs, WorkerKnows, EditorKnows,
         IInv, HasAll, Exists, TypeOK, NoVideo, Record, IdleEditor, OutputIds,
         Outputs
<1>2. ASSUME NEW v \in Videos, MarkQueued(v)
      PROVE  ReadyHasOutputs'
  BY <1>2
     DEF MarkQueued, SetVideoStatus, UpdateVideo, ApiGoto, ReadyHasOutputs,
         WorkerKnows, EditorKnows, IInv, HasAll, Exists, TypeOK, NoVideo,
         Record, IdleEditor, OutputIds, Outputs
<1>3. ASSUME NEW v \in Videos, DeleteVideo(v)
      PROVE  ReadyHasOutputs'
  BY <1>3
     DEF DeleteVideo, ReadyHasOutputs, WorkerKnows, EditorKnows, IInv,
         HasAll, Exists, TypeOK, NoVideo, Record, IdleEditor, OutputIds,
         Outputs
<1>4. ASSUME NEW w \in Workers, MarkProcessing(w)
      PROVE  ReadyHasOutputs'
  BY <1>4
     DEF MarkProcessing, SetVideoStatus, UpdateVideo, WorkerGoto,
         ReadyHasOutputs, WorkerKnows, EditorKnows, IInv, HasAll, Exists,
         TypeOK, NoVideo, Record, IdleEditor, OutputIds, Outputs
<1>5. ASSUME NEW w \in Workers, Persist(w)
      PROVE  ReadyHasOutputs'
  <2>1. video' = video
    BY <1>5 DEF Persist
  <2>. QED
    BY <1>5, <2>1, PersistGrows, MinOutputs DEF ReadyHasOutputs, IInv, HasAll
<1>6. ASSUME NEW w \in Workers, MarkReady(w)
      PROVE  ReadyHasOutputs'
  <2>1. worker[w] \in Busy /\ stored' = stored
    BY <1>6, BusyTyped DEF MarkReady, IInv
  <2>2. worker[w].n \in Nat /\ worker[w].k \in Nat
    BY <2>1, PipelineAssumption DEF Busy
  <2>3. Exists(worker[w].vid) => HasAll(worker[w].vid, MinRenditions)
    BY <1>6, <2>2, PersistedEnough
       DEF MarkReady, AllPersisted, IInv, WorkerKnows, HasAll
  <2>4. \A v \in Videos :
          video'[v] # video[v] => v = worker[w].vid /\ Exists(v)
    BY <1>6 DEF MarkReady, SetVideoStatus, UpdateVideo, IInv, TypeOK
  <2>. QED
    BY <2>1, <2>3, <2>4 DEF ReadyHasOutputs, IInv, HasAll
<1>7. ASSUME NEW w \in Workers, MarkFailed(w)
      PROVE  ReadyHasOutputs'
  BY <1>7
     DEF MarkFailed, SetVideoStatus, UpdateVideo, WorkerGoto,
         ReadyHasOutputs, WorkerKnows, EditorKnows, IInv, HasAll, Exists,
         TypeOK, NoVideo, Record, IdleEditor, OutputIds, Outputs
<1>8. ASSUME NEW e \in Editors, Rename(e)
      PROVE  ReadyHasOutputs'
  BY <1>8
     DEF Rename, UpdateVideo, ReadyHasOutputs, WorkerKnows, EditorKnows,
         IInv, HasAll, Exists, TypeOK, NoVideo, Record, IdleEditor, OutputIds,
         Outputs
<1>9. CASE UNCHANGED <<video, stored>>
  BY <1>9
     DEF ReadyHasOutputs, WorkerKnows, EditorKnows, IInv, HasAll, Exists,
         TypeOK, NoVideo, Record, IdleEditor, OutputIds, Outputs
<1>10. \A v \in Videos :
         FindVideo(v) \/ Dispatch(v) \/ ApiInterrupt(v) \/ LeaseExpires(v)
           => UNCHANGED <<video, stored>>
  BY DEF FindVideo, Dispatch, ApiInterrupt, LeaseExpires
<1>11. \A w \in Workers :
         CheckReady(w) \/ Load(w) \/ Transcode(w) \/ AttemptFails(w) \/
         ProcessThrows(w) \/ Ack(w) \/ Nack(w) \/ WorkerCrash(w)
           => UNCHANGED <<video, stored>>
  BY DEF CheckReady, Load, Transcode, AttemptFails, ProcessThrows, Ack,
         Nack, WorkerCrash
<1>12. \A w \in Workers, v \in Videos :
         Reserve(w, v)
           => UNCHANGED <<video, stored>>
  BY DEF Reserve
<1>13. \A e \in Editors, v \in Videos :
         ReadForRename(e, v)
           => UNCHANGED <<video, stored>>
  BY DEF ReadForRename
<1>14. QED
  BY StepCases, <1>1, <1>2, <1>3, <1>4, <1>5, <1>6, <1>7, <1>8, <1>9, <1>10,
     <1>11, <1>12, <1>13 DEF vars

\* Rows are stored for existing videos only, and go with them.
LEMMA OrphansStep ==
  ASSUME IInv,
         [Next]_vars
  PROVE  NoOrphanOutputs'
<1>1. ASSUME NEW v \in Videos, InsertVideo(v)
      PROVE  NoOrphanOutputs'
  BY <1>1
     DEF InsertVideo, ApiGoto, NoOrphanOutputs, IInv, ApiOrder, Exists,
         TypeOK, NoVideo, Record, Busy, Api
<1>2. ASSUME NEW v \in Videos, MarkQueued(v)
      PROVE  NoOrphanOutputs'
  BY <1>2
     DEF MarkQueued, SetVideoStatus, UpdateVideo, ApiGoto, NoOrphanOutputs,
         IInv, ApiOrder, Exists, TypeOK, NoVideo, Record, Busy, Api
<1>3. ASSUME NEW v \in Videos, DeleteVideo(v)
      PROVE  NoOrphanOutputs'
  BY <1>3
     DEF DeleteVideo, NoOrphanOutputs, IInv, ApiOrder, Exists, TypeOK,
         NoVideo, Record, Busy, Api
<1>4. ASSUME NEW w \in Workers, MarkProcessing(w)
      PROVE  NoOrphanOutputs'
  BY <1>4
     DEF MarkProcessing, SetVideoStatus, UpdateVideo, WorkerGoto,
         NoOrphanOutputs, IInv, ApiOrder, Exists, TypeOK, NoVideo, Record,
         Busy, Api
<1>5. ASSUME NEW w \in Workers, Persist(w)
      PROVE  NoOrphanOutputs'
  BY <1>5
     DEF Persist, NoOrphanOutputs, IInv, ApiOrder, Exists, TypeOK, NoVideo,
         Record, Busy, Api
<1>6. ASSUME NEW w \in Workers, MarkReady(w)
      PROVE  NoOrphanOutputs'
  BY <1>6
     DEF MarkReady, SetVideoStatus, UpdateVideo, WorkerGoto, AllPersisted,
         NoOrphanOutputs, IInv, ApiOrder, Exists, TypeOK, NoVideo, Record,
         Busy, Api
<1>7. ASSUME NEW w \in Workers, MarkFailed(w)
      PROVE  NoOrphanOutputs'
  BY <1>7
     DEF MarkFailed, SetVideoStatus, UpdateVideo, WorkerGoto,
         NoOrphanOutputs, IInv, ApiOrder, Exists, TypeOK, NoVideo, Record,
         Busy, Api
<1>8. ASSUME NEW e \in Editors, Rename(e)
      PROVE  NoOrphanOutputs'
  <2>1. stored' = stored
    BY <1>8 DEF Rename
  <2>2. \A v \in Videos : video'[v] # video[v] =>
          Exists(v) /\ video'[v].status = editor[e].snap.status
    BY <1>8 DEF Rename, UpdateVideo, IInv, TypeOK, Editing, Record
  <2>3. editor[e].snap.status # "absent"
    BY <1>8 DEF Rename, IInv, EditorKnows
  <2>. QED
    BY <2>1, <2>2, <2>3 DEF NoOrphanOutputs, IInv, Exists
<1>9. CASE UNCHANGED <<video, stored>>
  BY <1>9
     DEF NoOrphanOutputs, IInv, ApiOrder, Exists, TypeOK, NoVideo, Record,
         Busy, Api
<1>10. \A v \in Videos :
         FindVideo(v) \/ Dispatch(v) \/ ApiInterrupt(v) \/ LeaseExpires(v)
           => UNCHANGED <<video, stored>>
  BY DEF FindVideo, Dispatch, ApiInterrupt, LeaseExpires
<1>11. \A w \in Workers :
         CheckReady(w) \/ Load(w) \/ Transcode(w) \/ AttemptFails(w) \/
         ProcessThrows(w) \/ Ack(w) \/ Nack(w) \/ WorkerCrash(w)
           => UNCHANGED <<video, stored>>
  BY DEF CheckReady, Load, Transcode, AttemptFails, ProcessThrows, Ack,
         Nack, WorkerCrash
<1>12. \A w \in Workers, v \in Videos :
         Reserve(w, v)
           => UNCHANGED <<video, stored>>
  BY DEF Reserve
<1>13. \A e \in Editors, v \in Videos :
         ReadForRename(e, v)
           => UNCHANGED <<video, stored>>
  BY DEF ReadForRename
<1>14. QED
  BY StepCases, <1>1, <1>2, <1>3, <1>4, <1>5, <1>6, <1>7, <1>8, <1>9, <1>10,
     <1>11, <1>12, <1>13 DEF vars

\* The invariant holds initially.
LEMMA InvariantInit == Init => IInv
  BY PipelineAssumption
     DEF Init, IInv, TypeOK, DeliveriesLeft, ApiOrder, WorkerKnows,
         EditorKnows, ReadySettled, NoSilentLoss, ReadyHasOutputs,
         NoOrphanOutputs, Exists, NoVideo, Record, VideoStatus, Job, Api,
         ApiPcs, IdleWorker, IdleEditor

\* Every step preserves the invariant.
LEMMA InvariantStep == IInv /\ [Next]_vars => IInv'
<1>. SUFFICES ASSUME IInv, [Next]_vars
              PROVE  IInv'
  OBVIOUS
<1>1. TypeOK /\ DeliveriesLeft /\ ApiOrder /\ \A w \in Workers : WorkerKnows(w)
  BY DEF IInv
<1>2. TypeOK' /\ DeliveriesLeft' /\ ApiOrder'
  BY <1>1, TypeStep, DeliveriesStep, OrderStep
<1>3. \A w \in Workers : WorkerKnows(w)'
  BY WorkersStep
<1>4. \A e \in Editors : EditorKnows(e)'
  BY EditorsStep
<1>5. ReadySettled' /\ NoSilentLoss' /\ ReadyHasOutputs' /\ NoOrphanOutputs'
  BY SettledStep, ReadyStep, OrphansStep
<1>. QED
  BY <1>2, <1>3, <1>4, <1>5 DEF IInv

\* The invariant holds in every reachable state.
LEMMA Invariant == Spec => []IInv
  BY InvariantInit, InvariantStep, PTL DEF Spec

\* A row that a late status write or rename finds deleted stays deleted: only
\* the insertion, which the API makes first, brings a video into being.
LEMMA DeletedStep ==
  ASSUME TypeOK,
         NEW u \in Videos,
         api[u].pc # "none",
         ~Exists(u),
         [Next]_vars
  PROVE  ~Exists(u)'
<1>1. ASSUME NEW v \in Videos, InsertVideo(v)
      PROVE  ~Exists(u)'
  BY <1>1 DEF InsertVideo, ApiGoto, TypeOK, Exists, NoVideo
<1>2. ASSUME NEW v \in Videos, MarkQueued(v)
      PROVE  ~Exists(u)'
  BY <1>2
     DEF MarkQueued, SetVideoStatus, UpdateVideo, ApiGoto, TypeOK, Exists,
         NoVideo
<1>3. ASSUME NEW v \in Videos, DeleteVideo(v)
      PROVE  ~Exists(u)'
  BY <1>3 DEF DeleteVideo, TypeOK, Exists, NoVideo
<1>4. ASSUME NEW w \in Workers, MarkProcessing(w)
      PROVE  ~Exists(u)'
  BY <1>4
     DEF MarkProcessing, SetVideoStatus, UpdateVideo, WorkerGoto, TypeOK,
         Exists, NoVideo
<1>5. ASSUME NEW w \in Workers, MarkReady(w)
      PROVE  ~Exists(u)'
  BY <1>5
     DEF MarkReady, SetVideoStatus, UpdateVideo, WorkerGoto, AllPersisted,
         TypeOK, Exists, NoVideo
<1>6. ASSUME NEW w \in Workers, MarkFailed(w)
      PROVE  ~Exists(u)'
  BY <1>6
     DEF MarkFailed, SetVideoStatus, UpdateVideo, WorkerGoto, TypeOK,
         Exists, NoVideo
<1>7. ASSUME NEW e \in Editors, Rename(e)
      PROVE  ~Exists(u)'
  BY <1>7 DEF Rename, UpdateVideo, TypeOK, Exists, NoVideo
<1>8. CASE UNCHANGED video
  BY <1>8 DEF TypeOK, Exists, NoVideo
<1>9. \A v \in Videos :
         FindVideo(v) \/ Dispatch(v) \/ ApiInterrupt(v) \/ LeaseExpires(v)
           => UNCHANGED video
  BY DEF FindVideo, Dispatch, ApiInterrupt, LeaseExpires
<1>10. \A w \in Workers :
         CheckReady(w) \/ Load(w) \/ Transcode(w) \/ Persist(w) \/
         AttemptFails(w) \/ ProcessThrows(w) \/ Ack(w) \/ Nack(w) \/
         WorkerCrash(w)
           => UNCHANGED video
  BY DEF CheckReady, Load, Transcode, Persist, AttemptFails, ProcessThrows,
         Ack, Nack, WorkerCrash
<1>11. \A w \in Workers, v \in Videos :
         Reserve(w, v)
           => UNCHANGED video
  BY DEF Reserve
<1>12. \A e \in Editors, v \in Videos :
         ReadForRename(e, v)
           => UNCHANGED video
  BY DEF ReadForRename
<1>13. QED
  BY StepCases, <1>1, <1>2, <1>3, <1>4, <1>5, <1>6, <1>7, <1>8, <1>9, <1>10,
     <1>11, <1>12 DEF vars

----------------------------------------------------------------------------
\* Every variable keeps its type; in particular no job is delivered more than
\* MaxDeliveries times and no run makes more than MaxAttempts attempts.
THEOREM PipelineTypeCorrect == Spec => []TypeOK
  BY Invariant, PTL DEF IInv

\* A video shown as ready has its thumbnail, its preview and enough renditions
\* stored, for any number of workers, even when leases run out under them.
THEOREM ReadyComplete == Spec => []ReadyHasOutputs
  BY Invariant, PTL DEF IInv

\* The queue drops no job of a video that never reached an end.
THEOREM AckedSettled == Spec => []NoSilentLoss
  BY Invariant, PTL DEF IInv

\* A deleted video leaves no outputs, even those stored while it was deleted.
THEOREM CascadeComplete == Spec => []NoOrphanOutputs
  BY Invariant, PTL DEF IInv

\* No late write brings a deleted video back.
THEOREM DeletionFinal == Spec => DeletedStaysDeleted
<1>1. TypeOK /\ [Next]_vars =>
        [\A v \in Videos :
           api[v].pc # "none" /\ ~Exists(v) => ~Exists(v)']_vars
  BY DeletedStep
<1>. QED
  BY <1>1, PipelineTypeCorrect, PTL DEF Spec, DeletedStaysDeleted

----------------------------------------------------------------------------
(* The pipeline implements VideoLifecycle, if leases cover runs and nobody  *)
(* renames.                                                                 *)

\* A run has the lease of its job, so no two runs are of one video.
Exclusive ==
  \A w \in Workers : worker[w].pc # "idle" => Holds(w, worker[w].vid)

\* How far the API got bounds the status its video can have.
ApiStatus ==
  \A v \in Videos :
    /\ api[v].pc \in {"inserted", "found"} => video[v].status \in {"uploaded", "absent"}
    /\ api[v].pc = "found" => api[v].snap.status = "uploaded"
    /\ api[v].pc = "marked" => video[v].status \in {"queued", "absent"}
    /\ api[v].pc = "done" => video[v].status # "uploaded"

\* The status of a video under a run is the one the run read or wrote last,
\* unless the video was deleted.
RunKnows(w) ==
  LET status == video[worker[w].vid].status
  IN /\ worker[w].pc = "load" => status # "ready"
     /\ worker[w].pc = "mark" =>
          /\ status \in {worker[w].snap.status, "absent"}
          /\ worker[w].snap.status \in {"queued", "processing", "failed"}
     /\ worker[w].pc \in {"transcode", "persist", "markFailed"} =>
          status \in {"processing", "absent"}

LInv == IInv /\ Exclusive /\ ApiStatus /\ \A w \in Workers : RunKnows(w)

\* Leases cover their runs, and nobody renames.
Undisturbed == LeaseCoversRun /\ Editors = {}

\* Without members who rename nobody does.
LEMMA NoEditors ==
  ASSUME Undisturbed
  PROVE  /\ ~\E e \in Editors, v \in Videos : ReadForRename(e, v)
         /\ ~\E e \in Editors : Rename(e)
  BY DEF Undisturbed

\* What the steps of a run do to its record.
LEMMA RunRecord ==
  ASSUME IInv,
         NEW w \in Workers,
         worker[w].pc # "idle"
  PROVE  /\ worker[w] \in Busy /\ worker[w].vid \in Videos
         /\ api[worker[w].vid].pc = "done"
  BY BusyTyped DEF IInv, WorkerKnows, Busy

\* A lease ends only when its holder no longer works on the job, and a run that
\* ends gives up its own: no job gets a second run.
LEMMA ExclusiveStep ==
  ASSUME LInv,
         Undisturbed,
         [Next]_vars
  PROVE  Exclusive'
<1>1. ASSUME NEW v \in Videos,
             \/ InsertVideo(v) \/ FindVideo(v) \/ MarkQueued(v)
             \/ ApiInterrupt(v) \/ DeleteVideo(v)
      PROVE  Exclusive'
  BY <1>1
     DEF InsertVideo, FindVideo, MarkQueued, ApiInterrupt, DeleteVideo, LInv,
         Exclusive, Holds
<1>2. ASSUME NEW v \in Videos, Dispatch(v)
      PROVE  Exclusive'
  <2>1. job[v].state # "leased"
    BY <1>2 DEF Dispatch, LInv, IInv, ApiOrder
  <2>2. job' = [job EXCEPT ![v].state = "waiting"] /\ UNCHANGED worker
    BY <1>2 DEF Dispatch
  <2>. QED
    BY <2>1, <2>2 DEF LInv, Exclusive, Holds
<1>3. ASSUME NEW v \in Videos, LeaseExpires(v)
      PROVE  Exclusive'
  <2>1. \A w \in Workers : worker[w].pc # "idle" => worker[w].vid # v
    BY <1>3 DEF LeaseExpires, Undisturbed, WorksOn, LInv, Exclusive, Holds
  <2>. QED
    BY <1>3, <2>1 DEF LeaseExpires, LInv, Exclusive, Holds
<1>4. ASSUME NEW w \in Workers, NEW v \in Videos, Reserve(w, v)
      PROVE  Exclusive'
  <2>1. \A u \in Workers : worker[u].pc # "idle" => worker[u].vid # v
    BY <1>4 DEF Reserve, LInv, Exclusive, Holds
  <2>2. job[v] \in Job
    BY DEF LInv, IInv, TypeOK
  <2>3. /\ job'[v].state = "leased" /\ job'[v].holder = w
        /\ \A u \in Videos \ {v} : job'[u] = job[u]
    BY <1>4, <2>2 DEF Reserve, LInv, IInv, TypeOK
  <2>4. /\ worker'[w].vid = v
        /\ \A u \in Workers \ {w} : worker'[u] = worker[u]
    BY <1>4 DEF Reserve, LInv, IInv, TypeOK
  <2>. QED
    BY <2>1, <2>3, <2>4, RunRecord DEF LInv, Exclusive, Holds
<1>5. ASSUME NEW w \in Workers,
              CheckReady(w) \/ Load(w) \/ MarkProcessing(w) \/
              Transcode(w) \/ Persist(w) \/ MarkReady(w) \/
              AttemptFails(w) \/ MarkFailed(w) \/ ProcessThrows(w)
      PROVE  Exclusive'
  <2>1. worker[w].pc # "idle" /\ UNCHANGED job
    BY <1>5
       DEF CheckReady, Load, MarkProcessing, Transcode, Persist, MarkReady,
           AttemptFails, MarkFailed, ProcessThrows
  <2>2. worker[w] \in Busy /\ worker[w].vid \in Videos
    BY <2>1, RunRecord DEF LInv
  <2>3. /\ worker'[w].vid = worker[w].vid
        /\ \A u \in Workers \ {w} : worker'[u] = worker[u]
    <3>1. CASE CheckReady(w)
      BY <2>2, <3>1 DEF CheckReady, WorkerGoto
    <3>2. CASE Load(w)
      BY <2>2, <3>2 DEF Load, LInv, IInv, TypeOK
    <3>3. CASE MarkProcessing(w)
      BY <2>2, <3>3 DEF MarkProcessing, WorkerGoto
    <3>4. CASE Transcode(w)
      BY <2>2, <3>4 DEF Transcode, LInv, IInv, TypeOK
    <3>5. CASE Persist(w)
      BY <2>2, <3>5 DEF Persist
    <3>6. CASE MarkReady(w)
      BY <2>2, <3>6 DEF MarkReady, WorkerGoto
    <3>7. CASE AttemptFails(w)
      BY <2>2, <3>7 DEF AttemptFails, LInv, IInv, TypeOK
    <3>8. CASE MarkFailed(w)
      BY <2>2, <3>8 DEF MarkFailed, WorkerGoto
    <3>9. CASE ProcessThrows(w)
      BY <2>2, <3>9 DEF ProcessThrows, WorkerGoto
    <3>. QED
      BY <1>5, <3>1, <3>2, <3>3, <3>4, <3>5, <3>6, <3>7, <3>8, <3>9
  <2>. QED
    BY <2>1, <2>3 DEF LInv, Exclusive, Holds
<1>6. ASSUME NEW w \in Workers,
              Ack(w) \/ Nack(w) \/ WorkerCrash(w)
      PROVE  Exclusive'
  <2>1. /\ worker[w].pc # "idle" /\ worker' = [worker EXCEPT ![w] = IdleWorker]
        /\ \A v \in Videos \ {worker[w].vid} : job'[v] = job[v]
    BY <1>6 DEF Ack, Nack, WorkerCrash, LInv, IInv, TypeOK
  <2>2. \A u \in Workers \ {w} : worker[u].pc # "idle" => worker[u].vid # worker[w].vid
    BY <2>1 DEF LInv, Exclusive, Holds
  <2>3. worker'[w].pc = "idle" /\ \A u \in Workers \ {w} : worker'[u] = worker[u]
    BY <2>1 DEF IdleWorker, LInv, IInv, TypeOK
  <2>. QED
    BY <2>1, <2>2, <2>3, RunRecord DEF LInv, Exclusive, Holds
<1>7. CASE UNCHANGED vars
  BY <1>7 DEF vars, LInv, Exclusive, Holds
<1>. QED
  BY StepCases, NoEditors, <1>1, <1>2, <1>3, <1>4, <1>5, <1>6, <1>7

\* A status write changes the status of a video that is there.
LEMMA StatusWrite ==
  ASSUME TypeOK,
         NEW v \in Videos, NEW r \in Record, NEW s \in VideoStatus,
         SetVideoStatus(v, r, s)
  PROVE  /\ video'[v].status = IF Exists(v) THEN s ELSE "absent"
         /\ \A u \in Videos \ {v} : video'[u] = video[u]
  BY DEF SetVideoStatus, UpdateVideo, TypeOK, Exists

\* What a run writes to its video, and that nobody else's video changes.
LEMMA RunWrites ==
  ASSUME IInv,
         NEW w \in Workers
  PROVE  LET v == worker[w].vid
             Write(s) ==
               /\ worker[w] \in Busy /\ v \in Videos /\ api[v].pc = "done"
               /\ video'[v].status = IF Exists(v) THEN s ELSE "absent"
               /\ \A u \in Videos \ {v} : video'[u] = video[u]
         IN /\ MarkProcessing(w) => Write("processing")
            /\ MarkReady(w) => Write("ready")
            /\ MarkFailed(w) => Write("failed")
<1> DEFINE v == worker[w].vid
           Write(s) ==
             /\ worker[w] \in Busy /\ v \in Videos /\ api[v].pc = "done"
             /\ video'[v].status = IF Exists(v) THEN s ELSE "absent"
             /\ \A u \in Videos \ {v} : video'[u] = video[u]
<1>1. ASSUME worker[w].pc # "idle"
      PROVE  worker[w] \in Busy /\ v \in Videos /\ api[v].pc = "done"
             /\ worker[w].snap \in Record
  BY <1>1, RunRecord DEF Busy
<1>2. {"processing", "ready", "failed"} \subseteq VideoStatus
  BY DEF VideoStatus
<1>3. ASSUME MarkProcessing(w)
      PROVE  Write("processing")
  BY <1>1, <1>2, <1>3, StatusWrite DEF MarkProcessing, IInv
<1>4. ASSUME MarkReady(w)
      PROVE  Write("ready")
  BY <1>1, <1>2, <1>4, StatusWrite DEF MarkReady, IInv
<1>5. ASSUME MarkFailed(w)
      PROVE  Write("failed")
  BY <1>1, <1>2, <1>5, StatusWrite DEF MarkFailed, IInv
<1>. QED
  BY <1>3, <1>4, <1>5

\* The statuses follow the API request until it dispatches.
LEMMA ApiStatusStep ==
  ASSUME LInv,
         Undisturbed,
         [Next]_vars
  PROVE  ApiStatus'
<1>1. ASSUME NEW v \in Videos, InsertVideo(v)
      PROVE  ApiStatus'
  BY <1>1 DEF InsertVideo, ApiGoto, LInv, ApiStatus, IInv, TypeOK
<1>2. ASSUME NEW v \in Videos, FindVideo(v)
      PROVE  ApiStatus'
  BY <1>2 DEF FindVideo, Exists, LInv, ApiStatus
<1>3. ASSUME NEW v \in Videos, MarkQueued(v)
      PROVE  ApiStatus'
  <2>1. api[v].pc = "found" /\ api[v].snap \in Record /\ "queued" \in VideoStatus
    BY <1>3 DEF MarkQueued, LInv, IInv, TypeOK, Api, VideoStatus
  <2>2. /\ video'[v].status = IF Exists(v) THEN "queued" ELSE "absent"
        /\ \A u \in Videos \ {v} : video'[u] = video[u]
    BY <1>3, <2>1, StatusWrite DEF MarkQueued, LInv, IInv
  <2>3. api'[v].pc = "marked" /\ \A u \in Videos \ {v} : api'[u] = api[u]
    BY <1>3 DEF MarkQueued, ApiGoto, LInv, IInv, TypeOK
  <2>. QED
    BY <2>2, <2>3 DEF LInv, ApiStatus
<1>4. ASSUME NEW v \in Videos, Dispatch(v) \/ ApiInterrupt(v)
      PROVE  ApiStatus'
  BY <1>4
     DEF Dispatch, ApiInterrupt, ApiGoto, LInv, ApiStatus, IInv, TypeOK, Api
<1>5. ASSUME NEW v \in Videos, LeaseExpires(v)
      PROVE  ApiStatus'
  BY <1>5 DEF LeaseExpires, LInv, ApiStatus
<1>6. ASSUME NEW v \in Videos, DeleteVideo(v)
      PROVE  ApiStatus'
  BY <1>6 DEF DeleteVideo, NoVideo, LInv, ApiStatus
<1>7. ASSUME NEW w \in Workers, NEW v \in Videos, Reserve(w, v)
      PROVE  ApiStatus'
  BY <1>7 DEF Reserve, LInv, ApiStatus
<1>8. ASSUME NEW w \in Workers,
              MarkProcessing(w) \/ MarkReady(w) \/ MarkFailed(w)
      PROVE  ApiStatus'
  <2>1. UNCHANGED api
    BY <1>8 DEF MarkProcessing, MarkReady, MarkFailed
  <2>. QED
    BY <1>8, <2>1, RunWrites DEF LInv, ApiStatus
<1>9. ASSUME NEW w \in Workers,
              CheckReady(w) \/ Load(w) \/ Transcode(w) \/ Persist(w) \/
              AttemptFails(w) \/ ProcessThrows(w) \/ Ack(w) \/ Nack(w) \/
              WorkerCrash(w)
      PROVE  ApiStatus'
  BY <1>9
     DEF CheckReady, Load, Transcode, Persist, AttemptFails, ProcessThrows,
         Ack, Nack, WorkerCrash, LInv, ApiStatus
<1>10. CASE UNCHANGED vars
  BY <1>10 DEF vars, LInv, ApiStatus
<1>. QED
  BY StepCases, NoEditors, <1>1, <1>2, <1>3, <1>4, <1>5, <1>6, <1>7, <1>8,
     <1>9, <1>10

\* A run's own steps move its video on; nobody else's do, and a deletion is
\* allowed for.
LEMMA RunsStep ==
  ASSUME LInv,
         Undisturbed,
         [Next]_vars
  PROVE  \A q \in Workers : RunKnows(q)'
<1>1. ASSUME NEW v \in Videos, InsertVideo(v)
      PROVE  \A q \in Workers : RunKnows(q)'
  <2>1. UNCHANGED worker /\ \A u \in Videos \ {v} : video'[u] = video[u]
    BY <1>1 DEF InsertVideo
  <2>2. api[v].pc = "none"
    BY <1>1 DEF InsertVideo
  <2>. QED
    BY <2>1, <2>2, RunRecord DEF LInv, RunKnows
<1>2. ASSUME NEW v \in Videos, MarkQueued(v)
      PROVE  \A q \in Workers : RunKnows(q)'
  <2>1. UNCHANGED worker /\ \A u \in Videos \ {v} : video'[u] = video[u]
    BY <1>2 DEF MarkQueued, SetVideoStatus, UpdateVideo
  <2>2. api[v].pc = "found"
    BY <1>2 DEF MarkQueued
  <2>. QED
    BY <2>1, <2>2, RunRecord DEF LInv, RunKnows
<1>3. ASSUME NEW v \in Videos, DeleteVideo(v)
      PROVE  \A q \in Workers : RunKnows(q)'
  <2>1. /\ UNCHANGED worker /\ video'[v].status = "absent"
        /\ \A u \in Videos \ {v} : video'[u] = video[u]
    BY <1>3 DEF DeleteVideo, NoVideo, LInv, IInv, TypeOK
  <2>. QED
    BY <2>1, RunRecord DEF LInv, RunKnows
<1>4. ASSUME NEW v \in Videos,
             FindVideo(v) \/ Dispatch(v) \/ ApiInterrupt(v) \/ LeaseExpires(v)
      PROVE  \A q \in Workers : RunKnows(q)'
  BY <1>4 DEF FindVideo, Dispatch, ApiInterrupt, LeaseExpires, LInv, RunKnows
<1>5. ASSUME NEW w \in Workers, NEW v \in Videos, Reserve(w, v)
      PROVE  \A q \in Workers : RunKnows(q)'
  BY <1>5 DEF Reserve, LInv, RunKnows
<1>6. ASSUME NEW w \in Workers,
              CheckReady(w) \/ Load(w)
      PROVE  \A q \in Workers : RunKnows(q)'
  <2>1. worker[w].pc # "idle"
    BY <1>6 DEF CheckReady, Load
  <2>2. worker[w] \in Busy /\ worker[w].vid \in Videos /\ api[worker[w].vid].pc = "done"
    BY <2>1, RunRecord DEF LInv
  <2>3. CASE CheckReady(w)
    BY <2>2, <2>3 DEF CheckReady, WorkerGoto, AlreadyDone, LInv, RunKnows
  <2>4. CASE Load(w)
    <3>1. video[worker[w].vid].status \in VideoStatus \ {"ready", "uploaded"}
      BY <2>2, <2>4 DEF Load, LInv, ApiStatus, RunKnows, IInv, TypeOK, Record
    <3>. QED
      BY <2>2, <2>4, <3>1
         DEF Load, Exists, LInv, IInv, TypeOK, Busy, VideoStatus, RunKnows
  <2>. QED
    BY <1>6, <2>3, <2>4
<1>7. ASSUME NEW w \in Workers,
              MarkProcessing(w) \/ MarkReady(w) \/ MarkFailed(w)
      PROVE  \A q \in Workers : RunKnows(q)'
  <2>1. worker[w].pc # "idle"
    BY <1>7 DEF MarkProcessing, MarkReady, MarkFailed
  <2>2. /\ worker[w] \in Busy /\ worker[w].vid \in Videos
        /\ \A u \in Workers \ {w} :
             worker[u].pc # "idle" => worker[u].vid # worker[w].vid
    BY <2>1, RunRecord DEF LInv, Exclusive, Holds
  <2>3. \A u \in Workers \ {w} : worker'[u] = worker[u]
    BY <1>7
       DEF MarkProcessing, MarkReady, MarkFailed, WorkerGoto, LInv, IInv,
           TypeOK
  <2>4. /\ worker'[w].vid = worker[w].vid
        /\ worker'[w].pc = IF worker[w].pc = "mark" THEN "transcode" ELSE "ack"
    BY <1>7, <2>2
       DEF MarkProcessing, MarkReady, MarkFailed, WorkerGoto, LInv, IInv,
           TypeOK, Busy
  <2>5. \A u \in Videos \ {worker[w].vid} : video'[u] = video[u]
    BY <1>7, RunWrites DEF LInv
  <2>6. MarkProcessing(w) => video'[worker[w].vid].status \in {"processing", "absent"}
    BY RunWrites DEF LInv
  <2>7. worker[w].pc = "mark" => MarkProcessing(w)
    BY <1>7 DEF MarkReady, MarkFailed
  <2>8. \A u \in Workers \ {w} : RunKnows(u)'
    BY <2>2, <2>3, <2>5, RunRecord DEF LInv, RunKnows
  <2>. QED
    BY <2>4, <2>6, <2>7, <2>8 DEF RunKnows
<1>8. ASSUME NEW w \in Workers,
              Transcode(w) \/ Persist(w) \/ AttemptFails(w) \/
              ProcessThrows(w)
      PROVE  \A q \in Workers : RunKnows(q)'
  <2>1. worker[w].pc # "idle" /\ UNCHANGED video
    BY <1>8 DEF Transcode, Persist, AttemptFails, ProcessThrows
  <2>2. worker[w] \in Busy
    BY <2>1, RunRecord DEF LInv
  <2>3. \A u \in Workers \ {w} : worker'[u] = worker[u]
    BY <1>8
       DEF Transcode, Persist, AttemptFails, ProcessThrows, WorkerGoto, LInv,
           IInv, TypeOK
  <2>4. /\ worker'[w].vid = worker[w].vid
        /\ \/ worker'[w].pc = "nack"
           \/ /\ worker[w].pc \in {"transcode", "persist"}
              /\ worker'[w].pc \in {"transcode", "persist", "markFailed"}
    <3>1. CASE Transcode(w)
      BY <2>2, <3>1 DEF Transcode, LInv, IInv, TypeOK
    <3>2. CASE Persist(w)
      BY <2>2, <3>2 DEF Persist
    <3>3. CASE AttemptFails(w)
      BY <2>2, <3>3 DEF AttemptFails, LInv, IInv, TypeOK
    <3>4. CASE ProcessThrows(w)
      BY <2>2, <3>4 DEF ProcessThrows, WorkerGoto, LInv, IInv, TypeOK
    <3>. QED
      BY <1>8, <3>1, <3>2, <3>3, <3>4
  <2>. QED
    BY <2>1, <2>3, <2>4 DEF LInv, RunKnows
<1>9. ASSUME NEW w \in Workers,
              Ack(w) \/ Nack(w) \/ WorkerCrash(w)
      PROVE  \A q \in Workers : RunKnows(q)'
  <2>1. UNCHANGED video /\ worker' = [worker EXCEPT ![w] = IdleWorker]
    BY <1>9 DEF Ack, Nack, WorkerCrash
  <2>. QED
    BY <2>1 DEF LInv, IdleWorker, RunKnows
<1>10. CASE UNCHANGED vars
  BY <1>10 DEF vars, LInv, RunKnows
<1>. QED
  BY StepCases, NoEditors, <1>1, <1>2, <1>3, <1>4, <1>5, <1>6, <1>7, <1>8,
     <1>9, <1>10

\* A full set of outputs is at least one, so a video without rows has none.
LEMMA NoneIsNotAll ==
  ASSUME NEW v \in Videos,
         \A o \in OutputIds : stored[v][o] = 0
  PROVE  ~HasAll(v, MinRenditions)
<1>1. 1 \in Outputs(MinRenditions)
  BY PipelineAssumption DEF Outputs
<1>. QED
  BY <1>1, MinOutputs DEF HasAll

\* Rows that keep their statuses, and outputs that stay, are a stutter.
LEMMA Stutter ==
  ASSUME \A u \in Videos : video'[u].status = video[u].status,
         UNCHANGED stored
  PROVE  UNCHANGED Lifecycle!lifecycle
<1>1. \A u \in Videos : HasAll(u, MinRenditions)' = HasAll(u, MinRenditions)
  BY DEF HasAll
<1>. QED
  BY <1>1 DEF Lifecycle!lifecycle

\* One status changes.
LEMMA StatusMove ==
  ASSUME NEW v \in Videos,
         \A u \in Videos \ {v} : video'[u] = video[u],
         UNCHANGED stored
  PROVE  /\ [u \in Videos |-> video'[u].status] =
              [[u \in Videos |-> video[u].status] EXCEPT ![v] = video'[v].status]
         /\ [u \in Videos |-> HasAll(u, MinRenditions)'] =
              [u \in Videos |-> HasAll(u, MinRenditions)]
<1>1. \A u \in Videos : HasAll(u, MinRenditions)' = HasAll(u, MinRenditions)
  BY DEF HasAll
<1>. QED
  BY <1>1

\* Every step is a step of the lifecycle, or leaves statuses and completeness
\* as they are.
LEMMA LifecycleStep ==
  ASSUME LInv,
         Undisturbed,
         TypeOK',
         [Next]_vars
  PROVE  [Lifecycle!Next]_(Lifecycle!lifecycle)
<1>1. ASSUME NEW v \in Videos, InsertVideo(v)
      PROVE  [Lifecycle!Next]_(Lifecycle!lifecycle)
  <2>1. video[v].status = "absent" /\ video'[v].status = "uploaded"
    BY <1>1 DEF InsertVideo, Exists, LInv, IInv, ApiOrder, TypeOK
  <2>2. UNCHANGED stored /\ \A u \in Videos \ {v} : video'[u] = video[u]
    BY <1>1 DEF InsertVideo
  <2>3. Lifecycle!Submit(v)
    BY <2>1, <2>2, StatusMove DEF Lifecycle!Submit, Lifecycle!Move
  <2>. QED
    BY <2>3 DEF Lifecycle!Next
<1>2. ASSUME NEW v \in Videos, MarkQueued(v)
      PROVE  [Lifecycle!Next]_(Lifecycle!lifecycle)
  <2>1. api[v].pc = "found" /\ api[v].snap \in Record /\ "queued" \in VideoStatus
    BY <1>2 DEF MarkQueued, LInv, IInv, TypeOK, Api, VideoStatus
  <2>2. /\ video'[v].status = IF Exists(v) THEN "queued" ELSE "absent"
        /\ \A u \in Videos \ {v} : video'[u] = video[u]
    BY <1>2, <2>1, StatusWrite DEF MarkQueued, LInv, IInv
  <2>3. UNCHANGED stored
    BY <1>2 DEF MarkQueued
  <2>4. CASE Exists(v)
    <3>1. video[v].status = "uploaded"
      BY <2>1, <2>4 DEF LInv, ApiStatus, Exists
    <3>2. Lifecycle!Queue(v)
      BY <2>2, <2>3, <2>4, <3>1, StatusMove
         DEF Lifecycle!Queue, Lifecycle!Move
    <3>. QED
      BY <3>2 DEF Lifecycle!Next
  <2>5. CASE ~Exists(v)
    BY <2>2, <2>3, <2>5, Stutter DEF Exists
  <2>. QED
    BY <2>4, <2>5
<1>3. ASSUME NEW w \in Workers,
              MarkProcessing(w)
      PROVE  [Lifecycle!Next]_(Lifecycle!lifecycle)
  <2>0. PICK v \in Videos : v = worker[w].vid
    BY <1>3, RunWrites DEF LInv
  <2>1. /\ v \in Videos
        /\ video'[v].status = IF Exists(v) THEN "processing" ELSE "absent"
        /\ \A u \in Videos \ {v} : video'[u] = video[u]
    BY <1>3, <2>0, RunWrites DEF LInv
  <2>2. /\ UNCHANGED stored
        /\ video[v].status \in {"queued", "processing", "failed", "absent"}
    BY <1>3, <2>0 DEF MarkProcessing, LInv, RunKnows
  <2>3. CASE video[v].status \in {"queued", "failed"}
    <3>1. Lifecycle!Start(v)
      BY <2>1, <2>2, <2>3, StatusMove
         DEF Exists, Lifecycle!Start, Lifecycle!Move
    <3>. QED
      BY <2>1, <3>1 DEF Lifecycle!Next
  <2>4. CASE video[v].status \in {"processing", "absent"}
    BY <2>1, <2>2, <2>4, Stutter DEF Exists
  <2>. QED
    BY <2>2, <2>3, <2>4
<1>4. ASSUME NEW w \in Workers,
              MarkReady(w) \/ MarkFailed(w)
      PROVE  [Lifecycle!Next]_(Lifecycle!lifecycle)
  <2>0. PICK v \in Videos : v = worker[w].vid
    BY <1>4, RunWrites DEF LInv
  <2> DEFINE end == IF MarkReady(w) THEN "ready" ELSE "failed"
  <2>1. /\ v \in Videos /\ video'[v].status = IF Exists(v) THEN end ELSE "absent"
        /\ \A u \in Videos \ {v} : video'[u] = video[u]
    BY <1>4, <2>0, RunWrites DEF LInv
  <2>2. UNCHANGED stored /\ video[v].status \in {"processing", "absent"}
    BY <1>4, <2>0 DEF MarkReady, MarkFailed, LInv, RunKnows
  <2>3. MarkReady(w) /\ Exists(v) => HasAll(v, MinRenditions)
    <3>1. SUFFICES ASSUME MarkReady(w), Exists(v) PROVE HasAll(v, MinRenditions)
      OBVIOUS
    <3>2. worker[w] \in Busy /\ worker[w].pc = "persist" /\ worker[w].n >= MinRenditions
          /\ \A o \in OutputIds : o <= worker[w].k => stored[v][o] > 0
      BY <2>0, <3>1, RunRecord DEF MarkReady, LInv, IInv, WorkerKnows
    <3>3. /\ worker[w].n \in Nat /\ worker[w].k \in Nat
          /\ worker[w].k + 1 \notin Outputs(worker[w].n)
      BY <3>1, <3>2, PipelineAssumption DEF MarkReady, AllPersisted, Busy
    <3>. QED
      BY <3>2, <3>3, PersistedEnough DEF HasAll
  <2>4. CASE ~Exists(v)
    BY <2>1, <2>2, <2>4, Stutter DEF Exists
  <2>5. CASE Exists(v) /\ MarkReady(w)
    <3>1. Lifecycle!Finish(v)
      BY <2>1, <2>2, <2>3, <2>5, StatusMove
         DEF Exists, Lifecycle!Finish, Lifecycle!Move
    <3>. QED
      BY <2>1, <3>1 DEF Lifecycle!Next
  <2>6. CASE Exists(v) /\ ~MarkReady(w)
    <3>1. Lifecycle!Fail(v)
      BY <2>1, <2>2, <2>6, StatusMove
         DEF Exists, Lifecycle!Fail, Lifecycle!Move
    <3>. QED
      BY <2>1, <3>1 DEF Lifecycle!Next
  <2>. QED
    BY <2>4, <2>5, <2>6
<1>5. ASSUME NEW w \in Workers,
              Persist(w)
      PROVE  [Lifecycle!Next]_(Lifecycle!lifecycle)
  <2>0. PICK v \in Videos : v = worker[w].vid
    BY <1>5, RunRecord DEF Persist, LInv
  <2>1. v \in Videos /\ Exists(v) /\ UNCHANGED video /\ video[v].status = "processing"
    BY <1>5, <2>0 DEF Persist, Exists, LInv, RunKnows
  <2>2. \A u \in Videos \ {v} : stored'[u] = stored[u]
    BY <1>5, <2>0 DEF Persist
  <2>3. HasAll(v, MinRenditions) => HasAll(v, MinRenditions)'
    BY <1>5, <2>1, PersistGrows, MinOutputs DEF LInv, IInv, HasAll
  <2>4. \A u \in Videos \ {v} : HasAll(u, MinRenditions)' = HasAll(u, MinRenditions)
    BY <2>2 DEF HasAll
  <2>5. CASE HasAll(v, MinRenditions)' = HasAll(v, MinRenditions)
    BY <2>1, <2>4, <2>5 DEF Lifecycle!lifecycle
  <2>6. CASE HasAll(v, MinRenditions)' # HasAll(v, MinRenditions)
    <3>1. HasAll(v, MinRenditions)' = TRUE
      BY <2>3, <2>6 DEF HasAll
    <3>2. Lifecycle!Produce(v)
      BY <2>1, <2>4, <3>1 DEF Lifecycle!Produce
    <3>. QED
      BY <2>1, <3>2 DEF Lifecycle!Next
  <2>. QED
    BY <2>5, <2>6
<1>6. ASSUME NEW v \in Videos, DeleteVideo(v)
      PROVE  [Lifecycle!Next]_(Lifecycle!lifecycle)
  <2>1. video[v].status # "absent" /\ video'[v].status = "absent"
    BY <1>6, DeleteLocal DEF DeleteVideo, Exists, LInv, IInv
  <2>2. \A u \in Videos \ {v} : video'[u] = video[u] /\ stored'[u] = stored[u]
    BY <1>6, DeleteLocal DEF LInv, IInv
  <2>3. HasAll(v, MinRenditions)' = FALSE
    <3>1. \A o \in OutputIds : stored'[v][o] = 0
      BY <1>6 DEF DeleteVideo, TypeOK
    <3>2. 1 \in Outputs(MinRenditions)
      BY PipelineAssumption DEF Outputs
    <3>. QED
      BY <3>1, <3>2, MinOutputs DEF HasAll
  <2>4. \A u \in Videos \ {v} : HasAll(u, MinRenditions)' = HasAll(u, MinRenditions)
    BY <2>2 DEF HasAll
  <2>5. Lifecycle!Remove(v)
    BY <2>1, <2>2, <2>3, <2>4 DEF Lifecycle!Remove
  <2>. QED
    BY <2>5 DEF Lifecycle!Next
<1>7. ASSUME NEW v \in Videos,
             FindVideo(v) \/ Dispatch(v) \/ ApiInterrupt(v) \/ LeaseExpires(v)
      PROVE  [Lifecycle!Next]_(Lifecycle!lifecycle)
  BY <1>7, Stutter DEF FindVideo, Dispatch, ApiInterrupt, LeaseExpires
<1>8. ASSUME NEW w \in Workers, NEW v \in Videos, Reserve(w, v)
      PROVE  [Lifecycle!Next]_(Lifecycle!lifecycle)
  BY <1>8, Stutter DEF Reserve
<1>9. ASSUME NEW w \in Workers,
              CheckReady(w) \/ Load(w) \/ Transcode(w) \/ AttemptFails(w) \/
              ProcessThrows(w) \/ Ack(w) \/ Nack(w) \/ WorkerCrash(w)
      PROVE  [Lifecycle!Next]_(Lifecycle!lifecycle)
  BY <1>9, Stutter
     DEF CheckReady, Load, Transcode, AttemptFails, ProcessThrows, Ack, Nack,
         WorkerCrash
<1>10. CASE UNCHANGED vars
  BY Stutter, <1>10 DEF vars
<1>. QED
  BY StepCases, NoEditors, <1>1, <1>2, <1>3, <1>4, <1>5, <1>6, <1>7, <1>8,
     <1>9, <1>10

\* The invariant behind the refinement.
LEMMA LifecycleInvariant == Undisturbed => (Spec => []LInv)
<1> SUFFICES ASSUME Undisturbed
             PROVE  Spec => []LInv
  OBVIOUS
<1>1. Init => LInv
  <2>1. Init => Exclusive /\ ApiStatus /\ \A w \in Workers : RunKnows(w)
    BY DEF Init, IdleWorker, Exclusive, ApiStatus, RunKnows
  <2>. QED
    BY <2>1, InvariantInit DEF LInv
<1>2. LInv /\ [Next]_vars => LInv'
  BY InvariantStep, ExclusiveStep, ApiStatusStep, RunsStep DEF LInv
<1>. QED
  BY <1>1, <1>2, PTL DEF Spec

\* With leases that cover their runs and without renames, the pipeline, with its
\* queue, crashes and retries, implements the lifecycle members are promised.
THEOREM PipelineImplements == Undisturbed => (Spec => ImplementsLifecycle)
<1> SUFFICES ASSUME Undisturbed
             PROVE  Spec => ImplementsLifecycle
  OBVIOUS
<1>1. Init => Lifecycle!Init
  <2> SUFFICES ASSUME Init
               PROVE  Lifecycle!Init
    OBVIOUS
  <2>1. \A v \in Videos :
          video[v].status = "absent" /\ \A o \in OutputIds : stored[v][o] = 0
    BY DEF Init, NoVideo
  <2>2. \A v \in Videos : HasAll(v, MinRenditions) = FALSE
    BY <2>1, NoneIsNotAll DEF HasAll
  <2>. QED
    BY <2>1, <2>2 DEF Lifecycle!Init
<1>2. LInv /\ LInv' /\ [Next]_vars => [Lifecycle!Next]_(Lifecycle!lifecycle)
  BY LifecycleStep DEF LInv, IInv
<1>. QED
  BY <1>1, <1>2, LifecycleInvariant, PTL
     DEF Spec, ImplementsLifecycle, Lifecycle!Spec

============================================================================
