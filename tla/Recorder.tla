------------------------------ MODULE Recorder ------------------------------
(***************************************************************************)
(* The client-side Recorder (packages/recorder): one object that drives a  *)
(* capture, finalizes it on stop within a deadline, uploads the recording  *)
(* or keeps it in a local store while the client is offline, and uploads   *)
(* what it kept on each reconnect.                                         *)
(*                                                                         *)
(* The object is one thread: code between two awaits is one step.  Calls   *)
(* that are awaiting at the same time (starts, stops, flushes) interleave. *)
(* Capture, uploader, local store and connectivity are ports: a call on    *)
(* them answers, rejects, or may never answer.                             *)
(***************************************************************************)
EXTENDS Naturals

CONSTANTS
  Captures,           \* the calls of start(), each named by its recording
  Flushes,            \* slots for flushes in flight at once
  MaxUploadAttempts,  \* MAX_OFFLINE_UPLOAD_ATTEMPTS
  MaxUploads,         \* bound: uploads of a recording are counted up to this
  OneStartAtATime,    \* the client waits for start() before it calls it again
  NoCapture           \* handle === null

ASSUME RecorderAssumption ==
  /\ MaxUploadAttempts \in Nat \ {0}
  /\ MaxUploads \in Nat \ {0}
  /\ OneStartAtATime \in BOOLEAN
  /\ NoCapture \notin Captures

VARIABLES
  state,     \* lifecycle state of the recorder
  handle,    \* its capture handle and session, set and cleared together
  disposed,  \* the client has torn the recorder down
  capture,   \* per recording, what the capture environment is doing
  stop,      \* per recording, how far its stop() is
  stored,    \* recordings in the local store
  uploads,   \* per recording, how often it was uploaded
  flush,     \* per slot, how far flushStoredRecordings() is
  online     \* what the connectivity monitor reports

recorder == <<state, handle, disposed>>
vars == <<recorder, capture, stop, stored, uploads, flush, online>>

States == {"idle", "recording", "paused", "stopping"}
CaptureStates == {"none", "opening", "denied", "recording", "paused",
                  "finalizing", "finished", "disposed"}
StopPcs == {"none", "finalizing", "uploading", "storing",
            "uploaded", "stored-offline", "rejected", "gone"}
Flush == [pc: {"list", "upload", "remove"}, todo: SUBSET Captures,
          cur: Captures \union {NoCapture}, attempt: 1..MaxUploadAttempts]
NoFlush == [pc |-> "idle"]

TypeOK ==
  /\ state \in States
  /\ handle \in Captures \union {NoCapture}
  /\ disposed \in BOOLEAN
  /\ capture \in [Captures -> CaptureStates]
  /\ stop \in [Captures -> StopPcs]
  /\ stored \subseteq Captures
  /\ uploads \in [Captures -> 0..MaxUploads]
  /\ flush \in [Flushes -> Flush \union {NoFlush}]
  /\ online \in BOOLEAN

Init ==
  /\ state = "idle"
  /\ handle = NoCapture
  /\ disposed = FALSE
  /\ capture = [c \in Captures |-> "none"]
  /\ stop = [c \in Captures |-> "none"]
  /\ stored = {}
  /\ uploads = [c \in Captures |-> 0]
  /\ flush = [f \in Flushes |-> NoFlush]
  /\ online \in BOOLEAN

Reset == state' = "idle" /\ handle' = NoCapture
CaptureGoto(c, s) == capture' = [capture EXCEPT ![c] = s]
StopGoto(c, pc) == stop' = [stop EXCEPT ![c] = pc]
Upload(c) ==
  uploads' = [uploads EXCEPT ![c] = IF @ < MaxUploads THEN @ + 1 ELSE @]
Opening(c) == capture[c] = "opening"

----------------------------------------------------------------------------
(* start: check the state, then await the capture.  A client does not      *)
(* start a recorder it has torn down.                                      *)

Start(c) ==
  /\ ~disposed
  /\ state = "idle"
  /\ capture[c] = "none"
  /\ OneStartAtATime => \A d \in Captures : ~Opening(d)
  /\ CaptureGoto(c, "opening")
  /\ UNCHANGED <<recorder, stop, stored, uploads, flush, online>>

CaptureBegins(c) ==
  /\ Opening(c)
  /\ state' = "recording"
  /\ handle' = c
  /\ CaptureGoto(c, "recording")
  /\ UNCHANGED <<disposed, stop, stored, uploads, flush, online>>

\* A denied permission or any other failure: start() rejects, nothing is kept.
CaptureRejects(c) ==
  /\ Opening(c)
  /\ CaptureGoto(c, "denied")
  /\ UNCHANGED <<recorder, stop, stored, uploads, flush, online>>

Pause ==
  /\ state = "recording" /\ handle # NoCapture
  /\ state' = "paused"
  /\ CaptureGoto(handle, "paused")
  /\ UNCHANGED <<handle, disposed, stop, stored, uploads, flush, online>>

Resume ==
  /\ state = "paused" /\ handle # NoCapture
  /\ state' = "recording"
  /\ CaptureGoto(handle, "recording")
  /\ UNCHANGED <<handle, disposed, stop, stored, uploads, flush, online>>

----------------------------------------------------------------------------
(* stop: finalize within the deadline, then upload or store.               *)

Stop ==
  /\ state \in {"recording", "paused"} /\ handle # NoCapture
  /\ state' = "stopping"
  /\ CaptureGoto(handle, "finalizing")
  /\ StopGoto(handle, "finalizing")
  /\ UNCHANGED <<handle, disposed, stored, uploads, flush, online>>

\* Faulty variant: an answer after the deadline is still taken.
FinalizedLate(c) ==
  /\ stop[c] \in {"finalizing", "rejected"}
  /\ capture[c] \in {"finalizing", "disposed"}
  /\ Reset
  /\ CaptureGoto(c, "finished")
  /\ StopGoto(c, IF online THEN "uploading" ELSE "storing")
  /\ UNCHANGED <<disposed, stored, uploads, flush, online>>

\* The media is there.  (A capture that dispose() abandoned may still answer.)
Finalized(c) ==
  /\ stop[c] = "finalizing"
  /\ Reset
  /\ CaptureGoto(c, "finished")
  /\ StopGoto(c, IF online THEN "uploading" ELSE "storing")
  /\ UNCHANGED <<disposed, stored, uploads, flush, online>>

\* Faulty variant: the state is not reset.
FinalizeFailsStuck(c) ==
  /\ stop[c] = "finalizing"
  /\ CaptureGoto(c, "disposed")
  /\ StopGoto(c, "rejected")
  /\ UNCHANGED <<recorder, stored, uploads, flush, online>>

\* finalize() rejects or the deadline passes: the media is discarded.
FinalizeFails(c) ==
  /\ stop[c] = "finalizing"
  /\ Reset
  /\ CaptureGoto(c, "disposed")
  /\ StopGoto(c, "rejected")
  /\ UNCHANGED <<disposed, stored, uploads, flush, online>>

UploadNow(c) ==
  /\ stop[c] = "uploading"
  /\ Upload(c)
  /\ StopGoto(c, "uploaded")
  /\ UNCHANGED <<recorder, capture, stored, flush, online>>

\* An upload that fails falls back to the local store.
UploadNowFails(c) ==
  /\ stop[c] = "uploading"
  /\ StopGoto(c, "storing")
  /\ UNCHANGED <<recorder, capture, stored, uploads, flush, online>>

StoreOffline(c) ==
  /\ stop[c] = "storing"
  /\ stored' = stored \union {c}
  /\ StopGoto(c, "stored-offline")
  /\ UNCHANGED <<recorder, capture, uploads, flush, online>>

StoreFails(c) ==
  /\ stop[c] = "storing"
  /\ StopGoto(c, "rejected")
  /\ UNCHANGED <<recorder, capture, stored, uploads, flush, online>>

----------------------------------------------------------------------------
(* flushStoredRecordings: list once, then upload and remove one by one.    *)

FlushGoto(f, pc) == flush' = [flush EXCEPT ![f].pc = pc]
Doing(f, pc) == flush[f].pc = pc

\* The first of what is left, in whatever order the store listed it.
NextRecording(f, todo) ==
  IF todo = {}
    THEN flush' = [flush EXCEPT ![f] = NoFlush]
    ELSE \E c \in todo :
           flush' = [flush EXCEPT ![f] = [pc |-> "upload", todo |-> todo \ {c},
                                          cur |-> c, attempt |-> 1]]

StartFlush(f) ==
  /\ flush[f] = NoFlush
  /\ flush' = [flush EXCEPT ![f] = [pc |-> "list", todo |-> {},
                                    cur |-> NoCapture, attempt |-> 1]]

GoOffline ==
  /\ online
  /\ online' = FALSE
  /\ UNCHANGED <<recorder, capture, stop, stored, uploads, flush>>

\* Connectivity returns: a recorder that is still subscribed flushes.
Reconnect(f) ==
  /\ ~online
  /\ online' = TRUE
  /\ IF disposed THEN UNCHANGED flush ELSE StartFlush(f)
  /\ UNCHANGED <<recorder, capture, stop, stored, uploads>>

ListStored(f) ==
  /\ Doing(f, "list")
  /\ NextRecording(f, stored)
  /\ UNCHANGED <<recorder, capture, stop, stored, uploads, online>>

UploadStored(f) ==
  /\ Doing(f, "upload")
  /\ Upload(flush[f].cur)
  /\ FlushGoto(f, "remove")
  /\ UNCHANGED <<recorder, capture, stop, stored, online>>

\* Faulty variant: a recording that exhausts its attempts is removed.
UploadStoredDrops(f) ==
  /\ Doing(f, "upload")
  /\ IF flush[f].attempt < MaxUploadAttempts
       THEN flush' = [flush EXCEPT ![f].attempt = @ + 1]
       ELSE FlushGoto(f, "remove")
  /\ UNCHANGED <<recorder, capture, stop, stored, uploads, online>>

\* Faulty variant: one attempt too many.
UploadStoredFailsLate(f) ==
  /\ Doing(f, "upload")
  /\ IF flush[f].attempt <= MaxUploadAttempts
       THEN flush' = [flush EXCEPT ![f].attempt = @ + 1]
       ELSE NextRecording(f, flush[f].todo)
  /\ UNCHANGED <<recorder, capture, stop, stored, uploads, online>>

\* A failed attempt is repeated up to the limit, then the recording is left.
UploadStoredFails(f) ==
  /\ Doing(f, "upload")
  /\ IF flush[f].attempt < MaxUploadAttempts
       THEN flush' = [flush EXCEPT ![f].attempt = @ + 1]
       ELSE NextRecording(f, flush[f].todo)
  /\ UNCHANGED <<recorder, capture, stop, stored, uploads, online>>

RemoveStored(f) ==
  /\ Doing(f, "remove")
  /\ stored' = stored \ {flush[f].cur}
  /\ NextRecording(f, flush[f].todo)
  /\ UNCHANGED <<recorder, capture, stop, uploads, online>>

\* A rejected list or remove ends the flush.
FlushRejects(f) ==
  /\ Doing(f, "list") \/ Doing(f, "remove")
  /\ flush' = [flush EXCEPT ![f] = NoFlush]
  /\ UNCHANGED <<recorder, capture, stop, stored, uploads, online>>

----------------------------------------------------------------------------
(* The end of a recorder.                                                  *)

Dispose ==
  /\ ~disposed
  /\ disposed' = TRUE
  /\ Reset
  /\ IF handle = NoCapture THEN UNCHANGED capture
                           ELSE CaptureGoto(handle, "disposed")
  /\ UNCHANGED <<stop, stored, uploads, flush, online>>

\* The page goes away: captures end, calls in flight are forgotten, and only
\* the local store survives to the recorder of the next page.
Reload ==
  /\ Reset
  /\ disposed' = FALSE
  /\ capture' = [c \in Captures |->
       IF capture[c] \in {"opening", "recording", "paused", "finalizing"}
         THEN "disposed" ELSE capture[c]]
  /\ stop' = [c \in Captures |->
       IF stop[c] \in {"finalizing", "uploading", "storing"}
         THEN "gone" ELSE stop[c]]
  /\ flush' = [f \in Flushes |-> NoFlush]
  /\ UNCHANGED <<stored, uploads, online>>

----------------------------------------------------------------------------
ControlStep ==
  \/ \E c \in Captures : Start(c) \/ CaptureBegins(c) \/ CaptureRejects(c)
  \/ Pause \/ Resume \/ Stop

StopStep(c) ==
  \/ Finalized(c) \/ FinalizeFails(c)
  \/ UploadNow(c) \/ UploadNowFails(c) \/ StoreOffline(c) \/ StoreFails(c)

FlushStep(f) ==
  \/ Reconnect(f) \/ ListStored(f) \/ UploadStored(f) \/ UploadStoredFails(f)
  \/ RemoveStored(f) \/ FlushRejects(f)

Next ==
  \/ ControlStep
  \/ \E c \in Captures : StopStep(c)
  \/ \E f \in Flushes : FlushStep(f)
  \/ GoOffline \/ Dispose \/ Reload

Spec == Init /\ [][Next]_vars

\* The finalize deadline is a timer of the recorder: it fires.  No port is
\* under an obligation to answer.
FairSpec == Spec /\ \A c \in Captures : WF_vars(FinalizeFails(c))

----------------------------------------------------------------------------
(* Properties *)

\* What stop() tells the member holds from then on: a recording it reported as
\* uploaded was uploaded, one it reported as stored is in the local store until
\* it was uploaded, whatever flushes overlap, fail or are cut off by a reload.
ToldIsKept ==
  \A c \in Captures :
    /\ stop[c] = "uploaded" => uploads[c] > 0
    /\ stop[c] = "stored-offline" => c \in stored \/ uploads[c] > 0

\* The capture environment does what the recorder shows: a capture that runs or
\* is paused is the one the recorder holds, so that the member can stop it, and
\* nothing captures while the recorder says it is idle.
CaptureUnderControl ==
  \A c \in Captures : capture[c] \in {"recording", "paused"} =>
    handle = c /\ state = capture[c]

\* stop() never leaves the recorder unusable: within the deadline it accepts a
\* new recording, even when the environment never answers.
StoppingEnds == state = "stopping" ~> state # "stopping"

\* "One instance manages at most one active session at a time."
OneActiveCapture ==
  \A c, d \in Captures :
    capture[c] \in {"recording", "paused"}
      /\ capture[d] \in {"recording", "paused"} => c = d

=============================================================================
