----------------------------- MODULE MediaPath -----------------------------
(***************************************************************************)
(* From the first part to a playable video: one upload session and the     *)
(* processing of the videos made from it, joined by the uploads.complete   *)
(* operation of the API (apps/api runtime container).  When UploadService  *)
(* hands back a completed session, the operation inserts a video row over  *)
(* the assembled object and enqueues it.                                   *)
(***************************************************************************)
EXTENDS Naturals, FiniteSets

CONSTANTS
  TotalParts, Requests,
  Videos, Workers, Editors, Titles, Untitled, MaxAttempts, MaxDeliveries,
  MinRenditions, RenditionCounts, MaxCopies, LeaseCoversRun, NoWorker

\* What the two parts assume of their constants.
ASSUME PathAssumption ==
  /\ TotalParts \in Nat \ {0}
  /\ Untitled \in Titles
  /\ MaxAttempts \in Nat \ {0}
  /\ MaxDeliveries \in Nat \ {0}
  /\ MinRenditions \in Nat \ {0}
  /\ RenditionCounts \subseteq Nat
  /\ MaxCopies \in Nat \ {0}
  /\ LeaseCoversRun \in BOOLEAN
  /\ NoWorker \notin Workers

VARIABLES
  row, parts, object, req, acked, abandoned,
  video, stored, job, api, worker, editor, settled

Upload == INSTANCE UploadSession
Pipeline == INSTANCE MediaPipeline

uploadVars == <<row, parts, object, req, acked, abandoned>>
pipelineVars == <<video, stored, job, api, worker, editor, settled>>
vars == <<uploadVars, pipelineVars>>

Init == Upload!Init /\ Pipeline!Init

UploadStep ==
  /\ \E r \in Requests : Upload!ServiceStep(r)
  /\ UNCHANGED pipelineVars

\* The operation resumes with the completed session: probing the duration may
\* fail without consequence, then the video is inserted under a fresh id.  (An
\* interruption before the insert is Upload!Interrupt.)
CompleteUpload(r, v) == Upload!CompleteReturns(r) /\ Pipeline!InsertVideo(v)

ProcessingStep == Pipeline!PipelineStep /\ UNCHANGED uploadVars

Next ==
  \/ UploadStep
  \/ \E r \in Requests, v \in Videos : CompleteUpload(r, v)
  \/ ProcessingStep

Spec == Init /\ [][Next]_vars

FairSpec == Spec /\ Pipeline!Fairness

TypeOK == Upload!TypeOK /\ Pipeline!TypeOK

----------------------------------------------------------------------------
(* Properties *)

\* One upload session yields at most one video, however often a client that
\* works on it with one request at a time retries, and wherever a crash cuts
\* a request off.
OneVideoPerUpload == Cardinality({v \in Videos : api[v].pc # "none"}) <= 1

\* Every video has its source: the session it was made from is completed and
\* the assembled object is in the store, so a worker can always fetch it.
VideoHasSource ==
  \A v \in Videos : video[v].status # "absent" =>
    row.status = "completed" /\ object = Upload!Whole

\* With one request at a time, a session never leaves completed or aborted...
SerialTerminalIsFinal == Upload!TerminalIsFinal

\* ... and every part the client was told is received stays recorded.
SerialAckedIsRecorded == Upload!AckedIsRecorded

\* For such a client the session is what it promises: what was received is kept
\* until the client gives up, and completed only when it is all there.
SessionKeepsPromise == Upload!ImplementsPromise

\* A dispatched video is eventually ready, failed or deleted, or its job is in
\* the dead-letter queue: no crash or expired lease strands it silently.
DispatchedSettles ==
  \A v \in Videos :
    api[v].pc = "done" ~> (v \in settled \/ job[v].state = "dead")

\* The path implements the lifecycle members are promised, as long as a lease
\* outlasts the run it covers and nobody writes a video from a stale record.
ImplementsLifecycle == Pipeline!ImplementsLifecycle

=============================================================================
