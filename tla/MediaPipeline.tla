--------------------------- MODULE MediaPipeline ---------------------------
(***************************************************************************)
(* The processing of uploaded videos: the API enqueues a video, workers    *)
(* reserve its job from the queue, transcode the source, store the outputs *)
(* and set the video's status (packages/processing, apps/api media         *)
(* runtime); meanwhile members rename and delete videos                    *)
(* (packages/projects).                                                    *)
(*                                                                         *)
(* Nothing spans two statements in a transaction.  Whoever updates a video *)
(* row writes back every column of the record it read earlier: a status    *)
(* change carries the title it read, a rename the status.                  *)
(*                                                                         *)
(* The queue is the external @streetjs/queue over Redis: at-least-once     *)
(* delivery under a visibility lease, at most MaxDeliveries deliveries.    *)
(***************************************************************************)
EXTENDS Naturals

CONSTANTS
  Videos,           \* video ids
  Workers,          \* worker slots that reserve jobs
  Editors,          \* members' requests that rename videos
  Titles, Untitled, \* titles a video can have; the one it is created with
  MaxAttempts,      \* transcode attempts of one run (maxAttempts)
  MaxDeliveries,    \* deliveries of a job before it is dead-lettered
  MinRenditions,    \* renditions a valid output needs (MIN_ABR_RENDITIONS)
  RenditionCounts,  \* how many renditions a transcode may return
  MaxCopies,        \* bound: copies of one output are counted up to this
  LeaseCoversRun,   \* whether a lease outlasts every run of its holder
  NoWorker          \* holder of a job nobody has reserved

ASSUME PipelineAssumption ==
  /\ Untitled \in Titles
  /\ MaxAttempts \in Nat \ {0}
  /\ MaxDeliveries \in Nat \ {0}
  /\ MinRenditions \in Nat \ {0}
  /\ RenditionCounts \subseteq Nat
  /\ MaxCopies \in Nat \ {0}
  /\ LeaseCoversRun \in BOOLEAN
  /\ NoWorker \notin Workers

VARIABLES
  video,    \* the video rows: status and title
  stored,   \* per video and output, how many copies of its row are stored
  job,      \* per video, its job on the queue
  api,      \* per video, how far the enqueuing request is
  worker,   \* per slot, where the handler is and what it knows
  editor,   \* per rename request, the record it read
  settled   \* history: videos that reached ready or failed, or were deleted

vars == <<video, stored, job, api, worker, editor, settled>>

VideoStatus ==
  {"absent", "uploaded", "queued", "processing", "ready", "failed"}
Record == [status: VideoStatus, title: Titles]
NoVideo == [status |-> "absent", title |-> Untitled]

\* A run stores its outputs in this order: thumbnail, preview, renditions.
Outputs(n) == 1..(2 + n)
OutputIds == UNION {Outputs(n) : n \in RenditionCounts \union {MinRenditions}}

Job == [state: {"none", "waiting", "leased", "acked", "dead"},
        holder: Workers \union {NoWorker},
        deliveries: 0..MaxDeliveries]

ApiPcs == {"none", "inserted", "found", "marked", "done", "lost"}
Api == [pc: ApiPcs, snap: Record]

WorkerPcs == {"idle", "check", "load", "mark", "transcode", "persist",
              "markFailed", "ack", "nack"}
Busy == [pc: WorkerPcs \ {"idle"}, vid: Videos, snap: Record,
         attempt: 1..MaxAttempts, n: RenditionCounts \union {MinRenditions},
         k: Nat]
IdleWorker == [pc |-> "idle"]

Editing == [vid: Videos, snap: Record]
IdleEditor == [idle |-> TRUE]

TypeOK ==
  /\ video \in [Videos -> Record]
  /\ stored \in [Videos -> [OutputIds -> 0..MaxCopies]]
  /\ job \in [Videos -> Job]
  /\ api \in [Videos -> Api]
  /\ worker \in [Workers -> Busy \union {IdleWorker}]
  /\ editor \in [Editors -> Editing \union {IdleEditor}]
  /\ settled \subseteq Videos

Init ==
  /\ video = [v \in Videos |-> NoVideo]
  /\ stored = [v \in Videos |-> [o \in OutputIds |-> 0]]
  /\ job = [v \in Videos |->
              [state |-> "none", holder |-> NoWorker, deliveries |-> 0]]
  /\ api = [v \in Videos |-> [pc |-> "none", snap |-> NoVideo]]
  /\ worker = [w \in Workers |-> IdleWorker]
  /\ editor = [e \in Editors |-> IdleEditor]
  /\ settled = {}

----------------------------------------------------------------------------
(* The database.                                                           *)

Exists(v) == video[v].status # "absent"

\* Faulty variant: the soft update that deletes the row and inserts it again.
ReplaceVideo(v, record) == video' = [video EXCEPT ![v] = record]

\* An in-place UPDATE of all columns; it touches nothing when the row is gone.
UpdateVideo(v, record) ==
  video' = IF Exists(v) THEN [video EXCEPT ![v] = record] ELSE video

SetVideoStatus(v, record, status) ==
  UpdateVideo(v, [record EXCEPT !.status = status])

HasAll(v, n) == \A o \in Outputs(n) : stored[v][o] > 0

----------------------------------------------------------------------------
(* The API: create the video, then enqueue it.                             *)

ApiGoto(v, pc) == api' = [api EXCEPT ![v].pc = pc]

InsertVideo(v) ==
  /\ api[v].pc = "none"
  /\ video' = [video EXCEPT ![v] = [status |-> "uploaded", title |-> Untitled]]
  /\ ApiGoto(v, "inserted")
  /\ UNCHANGED <<stored, job, worker, editor, settled>>

FindVideo(v) ==
  /\ api[v].pc = "inserted"
  /\ Exists(v)
  /\ api' = [api EXCEPT ![v] = [pc |-> "found", snap |-> video[v]]]
  /\ UNCHANGED <<video, stored, job, worker, editor, settled>>

MarkQueued(v) ==
  /\ api[v].pc = "found"
  /\ SetVideoStatus(v, api[v].snap, "queued")
  /\ ApiGoto(v, "marked")
  /\ UNCHANGED <<stored, job, worker, editor, settled>>

Dispatch(v) ==
  /\ api[v].pc = "marked"
  /\ job' = [job EXCEPT ![v].state = "waiting"]
  /\ ApiGoto(v, "done")
  /\ UNCHANGED <<video, stored, worker, editor, settled>>

\* NOT_FOUND, a rejected call or the death of the API process ends the request.
ApiInterrupt(v) ==
  /\ api[v].pc \in {"inserted", "found", "marked"}
  /\ ApiGoto(v, "lost")
  /\ UNCHANGED <<video, stored, job, worker, editor, settled>>

----------------------------------------------------------------------------
(* The queue (external).                                                   *)

Holds(w, v) == job[v].state = "leased" /\ job[v].holder = w
WorksOn(w, v) == worker[w].pc # "idle" /\ worker[w].vid = v

\* A job that comes back is delivered again until its deliveries are used up.
Released(j) ==
  [j EXCEPT
     !.state = IF j.deliveries < MaxDeliveries THEN "waiting" ELSE "dead",
     !.holder = NoWorker]

Acked(j) == [j EXCEPT !.state = "acked", !.holder = NoWorker]

Reserve(w, v) ==
  /\ worker[w].pc = "idle"
  /\ job[v].state = "waiting"
  /\ job' = [job EXCEPT ![v].state = "leased",
                        ![v].holder = w,
                        ![v].deliveries = @ + 1]
  /\ worker' = [worker EXCEPT ![w] =
                  [pc |-> "check", vid |-> v, snap |-> NoVideo,
                   attempt |-> 1, n |-> MinRenditions, k |-> 0]]
  /\ UNCHANGED <<video, stored, api, editor, settled>>

LeaseExpires(v) ==
  /\ job[v].state = "leased"
  /\ LeaseCoversRun => ~WorksOn(job[v].holder, v)
  /\ job' = [job EXCEPT ![v] = Released(@)]
  /\ UNCHANGED <<video, stored, api, worker, editor, settled>>

\* The handler returned: its job is removed.  When the lease has moved on, the
\* queue may or may not let the late acknowledgement through.
Ack(w) ==
  /\ worker[w].pc = "ack"
  /\ LET v == worker[w].vid IN
       \/ job' = [job EXCEPT ![v] = Acked(@)]
       \/ ~Holds(w, v) /\ UNCHANGED job
  /\ worker' = [worker EXCEPT ![w] = IdleWorker]
  /\ UNCHANGED <<video, stored, api, editor, settled>>

\* The handler threw: the queue retries or dead-letters the job.
Nack(w) ==
  /\ worker[w].pc = "nack"
  /\ LET v == worker[w].vid IN
       job' = IF Holds(w, v) THEN [job EXCEPT ![v] = Released(@)] ELSE job
  /\ worker' = [worker EXCEPT ![w] = IdleWorker]
  /\ UNCHANGED <<video, stored, api, editor, settled>>

WorkerCrash(w) ==
  /\ worker[w].pc # "idle"
  /\ worker' = [worker EXCEPT ![w] = IdleWorker]
  /\ UNCHANGED <<video, stored, job, api, editor, settled>>

----------------------------------------------------------------------------
(* The worker: handler and MediaPipeline.process, one awaited call a step. *)

WorkerGoto(w, pc) == worker' = [worker EXCEPT ![w].pc = pc]

\* Faulty variant: a video somebody began to process counts as done, too.
AlreadyStarted(v) == video[v].status \in {"processing", "ready"}

\* A redelivered job of a video that is ready is acknowledged at once.
AlreadyDone(v) == video[v].status = "ready"

CheckReady(w) ==
  /\ worker[w].pc = "check"
  /\ WorkerGoto(w, IF AlreadyDone(worker[w].vid) THEN "ack" ELSE "load")
  /\ UNCHANGED <<video, stored, job, api, editor, settled>>

Load(w) ==
  /\ worker[w].pc = "load"
  /\ LET v == worker[w].vid IN
       worker' = [worker EXCEPT ![w].pc = IF Exists(v) THEN "mark" ELSE "nack",
                                ![w].snap = video[v]]
  /\ UNCHANGED <<video, stored, job, api, editor, settled>>

MarkProcessing(w) ==
  /\ worker[w].pc = "mark"
  /\ SetVideoStatus(worker[w].vid, worker[w].snap, "processing")
  /\ WorkerGoto(w, "transcode")
  /\ UNCHANGED <<stored, job, api, editor, settled>>

\* Faulty variant: the output is not validated.
TranscodeUnvalidated(w) ==
  /\ worker[w].pc = "transcode"
  /\ \E n \in RenditionCounts :
       worker' = [worker EXCEPT ![w].pc = "persist", ![w].n = n, ![w].k = 0]
  /\ UNCHANGED <<video, stored, job, api, editor, settled>>

\* A transcode whose output has enough renditions goes on to be stored.
Transcode(w) ==
  /\ worker[w].pc = "transcode"
  /\ \E n \in RenditionCounts :
       /\ n >= MinRenditions
       /\ worker' = [worker EXCEPT ![w].pc = "persist", ![w].n = n, ![w].k = 0]
  /\ UNCHANGED <<video, stored, job, api, editor, settled>>

\* Insert the next output; its foreign key needs the video row.
Persist(w) ==
  /\ worker[w].pc = "persist"
  /\ worker[w].k + 1 \in Outputs(worker[w].n)
  /\ LET v == worker[w].vid
         o == worker[w].k + 1
     IN /\ Exists(v)
        /\ stored' = [stored EXCEPT ![v][o] =
                        IF @ < MaxCopies THEN @ + 1 ELSE @]
        /\ worker' = [worker EXCEPT ![w].k = o]
  /\ UNCHANGED <<video, job, api, editor, settled>>

\* Faulty variant: the renditions are not awaited.
AssetsPersisted(w) == worker[w].k >= 2

AllPersisted(w) == worker[w].k + 1 \notin Outputs(worker[w].n)

MarkReady(w) ==
  /\ worker[w].pc = "persist"
  /\ AllPersisted(w)
  /\ SetVideoStatus(worker[w].vid, worker[w].snap, "ready")
  /\ WorkerGoto(w, "ack")
  /\ settled' = settled \union {worker[w].vid}
  /\ UNCHANGED <<stored, job, api, editor>>

\* Faulty variant: one attempt too many.
AttemptFailsLate(w) ==
  /\ worker[w].pc \in {"transcode", "persist"}
  /\ worker' = IF worker[w].attempt <= MaxAttempts
                 THEN [worker EXCEPT ![w].pc = "transcode",
                                     ![w].attempt = @ + 1, ![w].k = 0]
                 ELSE [worker EXCEPT ![w].pc = "markFailed", ![w].k = 0]
  /\ UNCHANGED <<video, stored, job, api, editor, settled>>

\* The transcoder rejects, its output is invalid, an insert or the update to
\* ready fails: the loop tries again, rows already inserted stay.
AttemptFails(w) ==
  /\ worker[w].pc \in {"transcode", "persist"}
  /\ worker' = IF worker[w].attempt < MaxAttempts
                 THEN [worker EXCEPT ![w].pc = "transcode",
                                     ![w].attempt = @ + 1, ![w].k = 0]
                 ELSE [worker EXCEPT ![w].pc = "markFailed", ![w].k = 0]
  /\ UNCHANGED <<video, stored, job, api, editor, settled>>

MarkFailed(w) ==
  /\ worker[w].pc = "markFailed"
  /\ SetVideoStatus(worker[w].vid, worker[w].snap, "failed")
  /\ WorkerGoto(w, "ack")
  /\ settled' = settled \union {worker[w].vid}
  /\ UNCHANGED <<stored, job, api, editor>>

\* A database call outside the retry loop rejects: process() throws.
ProcessThrows(w) ==
  /\ worker[w].pc \in {"check", "load", "mark", "markFailed"}
  /\ WorkerGoto(w, "nack")
  /\ UNCHANGED <<video, stored, job, api, editor, settled>>

----------------------------------------------------------------------------
(* Members.                                                                *)

ReadForRename(e, v) ==
  /\ editor[e] = IdleEditor
  /\ Exists(v)
  /\ editor' = [editor EXCEPT ![e] = [vid |-> v, snap |-> video[v]]]
  /\ UNCHANGED <<video, stored, job, api, worker, settled>>

Rename(e) ==
  /\ editor[e] # IdleEditor
  /\ \E t \in Titles :
       UpdateVideo(editor[e].vid, [editor[e].snap EXCEPT !.title = t])
  /\ editor' = [editor EXCEPT ![e] = IdleEditor]
  /\ UNCHANGED <<stored, job, api, worker, settled>>

\* Faulty variant: the outputs are left behind.
DeleteVideoOnly(v) ==
  /\ Exists(v)
  /\ video' = [video EXCEPT ![v] = NoVideo]
  /\ settled' = settled \union {v}
  /\ UNCHANGED <<stored, job, api, worker, editor>>

\* The outputs go with the row: their foreign keys are ON DELETE CASCADE.
DeleteVideo(v) ==
  /\ Exists(v)
  /\ video' = [video EXCEPT ![v] = NoVideo]
  /\ stored' = [stored EXCEPT ![v] = [o \in OutputIds |-> 0]]
  /\ settled' = settled \union {v}
  /\ UNCHANGED <<job, api, worker, editor>>

----------------------------------------------------------------------------
EnqueueStep(v) ==
  FindVideo(v) \/ MarkQueued(v) \/ Dispatch(v) \/ ApiInterrupt(v)

RunStep(w) ==
  \/ CheckReady(w) \/ Load(w) \/ MarkProcessing(w) \/ Transcode(w)
  \/ Persist(w) \/ MarkReady(w) \/ AttemptFails(w) \/ MarkFailed(w)
  \/ ProcessThrows(w) \/ Ack(w) \/ Nack(w)

MemberStep ==
  \/ \E e \in Editors : Rename(e) \/ \E v \in Videos : ReadForRename(e, v)
  \/ \E v \in Videos : DeleteVideo(v)

PipelineStep ==
  \/ \E v \in Videos : EnqueueStep(v) \/ LeaseExpires(v)
  \/ \E w \in Workers, v \in Videos : Reserve(w, v)
  \/ \E w \in Workers : RunStep(w) \/ WorkerCrash(w)
  \/ MemberStep

Next == (\E v \in Videos : InsertVideo(v)) \/ PipelineStep

Spec == Init /\ [][Next]_vars

\* Workers poll and run, and Redis expires leases; members, crashes and the
\* API request (which a crash may end) are under no obligation.
Fairness ==
  /\ \A w \in Workers, v \in Videos : WF_vars(Reserve(w, v))
  /\ \A w \in Workers : WF_vars(RunStep(w))
  /\ \A v \in Videos : WF_vars(LeaseExpires(v))

FairSpec == Spec /\ Fairness

----------------------------------------------------------------------------
(* Properties *)

\* A video is shown as ready only while a thumbnail, a preview and at least
\* MinRenditions renditions of it are stored, whatever other workers, renames
\* from stale records and deletions interleave with the run that produced them.
ReadyHasOutputs ==
  \A v \in Videos : video[v].status = "ready" => HasAll(v, MinRenditions)

\* The queue forgets a job only when its video has been brought to ready or
\* failed, or was deleted: an acknowledgement never drops unfinished work, not
\* even one from a worker that a crash or an expired lease cut off.
NoSilentLoss ==
  \A v \in Videos : job[v].state = "acked" => v \in settled

\* A deleted video leaves no thumbnail, preview or rendition behind, even when
\* workers are storing its outputs at that moment.
NoOrphanOutputs ==
  \A v \in Videos : ~Exists(v) => \A o \in OutputIds : stored[v][o] = 0

\* A video that was deleted does not come back through a late status write of
\* a worker, of the enqueuing request or of a rename.
DeletedStaysDeleted ==
  [][\A v \in Videos : api[v].pc # "none" /\ ~Exists(v) => ~Exists(v)']_vars

\* The pipeline implements the lifecycle members are promised, as long as a
\* lease outlasts the run it covers and nobody writes a video from a stale
\* record.
Lifecycle == INSTANCE VideoLifecycle WITH
  status   <- [v \in Videos |-> video[v].status],
  complete <- [v \in Videos |-> HasAll(v, MinRenditions)]

ImplementsLifecycle == Lifecycle!Spec

\* Processing "persists exactly one thumbnail" for a video that becomes ready.
ExactlyOneThumbnail ==
  \A v \in Videos : video[v].status = "ready" => stored[v][1] = 1

\* setVideoStatus "preserves every other field": a status change by the API or
\* by a worker leaves the title a member gave the video as it is.
StatusWritesKeepTitle ==
  [][\A v \in Videos :
       (worker' # worker \/ api' # api) /\ Exists(v) /\ Exists(v)'
         => video'[v].title = video[v].title]_vars

=============================================================================
