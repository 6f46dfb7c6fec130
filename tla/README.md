# StreetStudio in TLA+

StreetStudio is a self-hosted asynchronous video platform: members record or
upload a video in parts, workers transcode it, and the organization's members
organize, share and discuss it. This directory models the parts of it whose
correctness depends on the order in which requests, workers, timers and crashes
happen. Everything is translated from the TypeScript under `src/`.

The server has a style that shapes all its hazards: services hold no locks and
open no transactions. A handler awaits one statement, keeps the record in a
local variable, awaits the next, and finally writes back *every* column of the
record it read first. Node runs one handler at a time between awaits, so **one
awaited call is one step** of a model, and all the handlers in flight
interleave between their steps.

## 1. Inventory

### Components, their state and what makes them correct

| Component (source) | State | Operations | Hard behaviour | Correct when |
|---|---|---|---|---|
| Upload sessions (`packages/uploads`) | `upload_sessions` row: status, received parts; part objects; assembled object | begin, uploadPart, complete, abort | parallel requests on one row snapshot; failure between object-store and database writes | completed row => whole object stored; no acknowledged byte is lost; terminal is final |
| Media pipeline (`packages/processing`) | video status, output rows | enqueue, process (retry loop), persistOutputs | partial attempts, stale full-row writes, two workers on a video | ready => outputs stored; every dispatched video reaches an end |
| Queue and worker runtime (`apps/api/src/runtime/media`) | Redis job, lease, deliveries (external `@streetjs/queue`); map of waiters | reserve, ack, nack, lease reclaim | lease ends during a run, crash before ack, late ack | no job vanishes before its video is settled |
| Video records (`packages/projects/src/content.ts`) | video row; outputs refer to it `ON DELETE CASCADE` | update (rename), delete, move | rename or status write from an old record; delete under a running worker | deletion is final and leaves no orphan |
| API composition (`apps/api/src/runtime/container.ts`) | none of its own | uploads.complete = complete the session, insert a video, enqueue | crash between the calls | one video per upload, over a stored source |
| Organizations (`packages/organizations`, `auth/access-control.ts`) | organization, role, membership, invitation, team rows | createOrg, invite, accept, updateSettings, removeMember, assignRole | count-then-delete, delete-then-insert, cascades | an organization keeps an administrator and its members |
| Projects and folders (`packages/projects`) | tree of folders with stored depth, videos in folders | create, move, rename, delete | cycle and depth checks on a tree read earlier; cascades | the folders stay a forest of bounded depth; stored depth is the real one |
| Client recorder (`packages/recorder`) | active session, capture handle, offline store | start, pause, resume, stop, flush | awaits inside start/stop, finalize deadline, overlapping flushes | one capture at a time, no recording lost or sent twice |
| Chunk uploads (`packages/media/src/upload.ts`) | session, chunks, retry budget, retained chunks | start, putChunk, resume, expire | retries, offline retention | acknowledged chunks survive to completion |
| Share links, reviews (`packages/media/src/share.ts`, `review.ts`) | link with a count of failures, a lock, a revocation; review status | create, resolve, revoke, update | updates from stale records | a revoked link stays revoked; the passcode limit holds |
| Realtime presence (`packages/realtime`) | members per workspace and video, departure timers, typing | connect, disconnect, join, leave, timer fires | timer races a reconnect; awaits while leaving; a publication rejects | what was told is what is held; who returns stays present, who is gone leaves |
| Offline comments (`apps/web/src/services/offline/offline-comment-queue.ts`) | rows in IndexedDB, a sync timer, the running pass | queue, edit, retry, remove, processQueue | calls during a pass, edits from old rows, reloads, lost answers | no comment is lost before the server has it; none that is due is forgotten |
| Webhooks (`apps/api/src/webhooks`) | endpoints, deliveries | deliver with retries, delete endpoint | deletion during the retry loop | attempts are bounded and stop with the endpoint |
| Authentication (`packages/auth`) | sessions, lockout ledger, API keys | login, logout, verify, lock out | separate awaits for the check and the record | the ledger locks after the limit |
| Rate limiter (`apps/api/src/security/rate-limiter.ts`) | sliding window per key | check | window boundary | limit per window |

Listed in `PROJECT.json` and left aside, with reasons: the HTTP layer (stateless
routing), storage drivers (adapters over external stores, represented by their
contract), notifications and comments (single inserts), playback, timeline,
editor, search, analytics, AI, plugins, configuration, SDK, and the rest of the
web, desktop and extension clients.

### How they interact

    member --begin/uploadPart/abort--> UploadService --> row + object store
    member --complete--> container.completeUpload
               |- UploadService.complete  (assembled object, completed row)
               |- INSERT video 'uploaded'
               `- MediaPipeline.enqueue   (UPDATE 'queued', dispatch) --> queue
    queue --lease--> worker handler --> MediaPipeline.process
               |- UPDATE 'processing', transcode, INSERT outputs (<= 3 attempts)
               `- UPDATE 'ready' | 'failed', ack
    member --rename/delete--> ContentService --> the same video row

The joints are shared rows (the session row, the video row), the object store,
and the queue. No component calls back into another one, so composition is by
shared variables and by one joined step (the container's operation).
Organizations, folders, share links, webhooks, presence and the client's comment
queue write no row that another of them reads to decide what it does (the cascades
that end with an organization or a video end all that refers to it), so each is a
component of its own.

`PROJECT.json` lists the hazards, each at its line; those of the components
below carry the properties that would catch them, the others say why none does.

## 2. Modules

| Module | Models | Kind |
|---|---|---|
| `UploadSession` | one session of `packages/uploads`, with any number of requests in flight | component |
| `MediaPipeline` | `packages/processing`, the worker runtime, the queue, rename and delete of videos | component |
| `Recorder` | `packages/recorder`: capture, stop, offline store, flush on reconnect | component |
| `OrgMembership` | `packages/organizations`, `assignRole` of `packages/auth`: memberships, roles, invitations | component |
| `ContentTree` | folders of `packages/projects`: create, move, delete | component |
| `ShareLink` | share links of `packages/media` | component |
| `WebhookDelivery` | `apps/api/src/webhooks`: subscriptions and the delivery worker | component |
| `Presence` | `RealtimeGateway` of `packages/realtime` on one node | component |
| `CommentQueue` | the web client's offline comment queue | component |
| `SessionPromise` | what an upload session promises its client | abstract specification |
| `VideoLifecycle` | what members are promised about a video's status | abstract specification |
| `MediaPath` | `UploadSession` and `MediaPipeline` joined by `container.completeUpload` | composition |
| `MC*` | the instances for TLC | checking |
| `UploadSession_proofs`, `MediaPipeline_proofs`, `MediaPath_proofs`, `Recorder_proofs`, `OrgMembership_proofs`, `ContentTree_proofs`, `CommentQueue_proofs`, `Services_proofs` (of `ShareLink`, `Presence` and `WebhookDelivery`, which share no state) | theorems | proofs |

### UploadSession

`row` is the database row, `parts` and `object` the object store; the assembled
object is the *set of parts it was built from*, since the order of assembly is
fixed by the loop. A request (`req[r]`) holds the snapshot it read and the
next awaited call (`pc`). `UploadPart`, `Complete` and `Abort` read the row and
run the domain check (`CanReceive`, `CanComplete`, `CanAbort` are the methods of
`UploadSession` in `domain/upload-session.ts`); the further actions are the
awaits of the handlers in their order; `Interrupt` ends a request at any await,
for a rejected call and for a crash. `acked` and `abandoned` are history
variables: which parts the client was told are received, and whether an abort
was accepted. A call that rejects is taken not to have had its effect.

### MediaPipeline

`video[v]` is the row (status and title stand for all columns), `stored[v][o]`
counts the rows of output `o`: 1 is the thumbnail, 2 the preview, the rest the
renditions in the order in which `persistOutputs` inserts them. `api[v]` is the
request that created the video and enqueues it; its `snap` is the record
`enqueue` read and `setVideoStatus` writes back. `worker[w]` is a slot of a worker
process: `CheckReady` is the handler's redelivery check, `Load` to `MarkFailed`
are `process`, `Ack`/`Nack` what the queue's worker does when the handler
returns or throws. `UpdateVideo` is the repository's in-place `UPDATE` of all
columns, which touches nothing when the row is gone; `DeleteVideo` includes the
cascade. `settled` is a history variable.

The queue is external and modelled from how `street-queue.ts` configures and
uses it: a job is delivered to one holder at a time under a lease, comes back
when the lease ends or the handler throws, and is dead-lettered after
`MaxDeliveries`. A late `Ack` after the lease has moved on may or may not remove
the job; both are allowed. With `LeaseCoversRun = TRUE` a lease ends only when
its holder no longer works on the job.

The actions and operators under a comment "Faulty variant" are not part of any
specification. Each states a plausible mistake in the definition below it;
`PROJECT.json` pairs it with the property that fails when it takes that
definition's place.

### Recorder

The client library that makes the recordings which the uploader port sends to the
API. `state` and `handle` are the fields of the object (`session` is set and cleared
with `handle`). A call of `start` is named by the recording it makes, so
`capture[c]` says what the capture environment is doing for it and `stop[c]` how far
its `stop()` has come and what that call told the member. A flush holds the list it
read, the recording it works on and the attempt. Code between two awaits is one
step: the connectivity check belongs to the step in which the media arrives. The
ports may answer, reject or never answer; `Reload` ends the page, which forgets
everything but the local store. Two assumptions about the client are in the
guards: it does not start a recorder it has torn down, and, with
`OneStartAtATime`, it waits for a `start()` before the next. Recordings have
distinct identifiers: the default generator counts from one in each page, so a
deployment has to give its own.

### OrgMembership

The rows are `organization`, `roles`, `membership` (a row per user, with an id so that
a write by id misses a newer row) and `invitation`. `request[r]` is a request with the
operation, the next awaited call and what it has read. `CreateOrg` to `CreateFounder`
are the four inserts of `createOrg`; `Accept*` and `*Accepted` are `acceptInvitation`;
`FindRemoved`, `CountAdministrators`, `DeleteMembership` are `removeMember`;
`FindAssigned`, `SetRole`, `ReinsertMembership` are `assignRole`; `SaveSettings` and
`RestoreOrganization` are `updateSettings`. The gate on the actor reads two rows and
refuses; only *that* an administrator exists matters for the rest, so it is
a guard. Unique indexes and foreign keys refuse an insert (`CanInsert`).
`store` says which of the two store kinds the deployment has: `postgresOrgStore`
and `postgresRbacStore` update a row in place, `repositoryOrgStore` and
`repositoryRbacStore` delete and insert it, and since every row of an organization refers
to it `ON DELETE CASCADE`, saving its settings there takes them all. `container.ts:333`
builds the service over the repository stores; no route of this commit calls
`removeMember`, `assignRole`, `acceptInvitation` or `updateSettings`, which the
package offers and its tests exercise.
`removed` is history: the users removed and let in by no acceptance since. Any pending
invitation can do that, one from before the removal too (an acceptance cut off before it
marked its invitation leaves one). `overtaken` are those of them that were removed while a
role change had already read their row (`HoldsRow`): over the repository stores it goes on
to insert what it read, and the removed user is back, although `org-service.ts:36-38` says
that removal revokes access. `RemovedStaysOut` names this exception, and shows that it is
the only one.

### ContentTree

`folder[f]` is a row: parent and stored depth. `CreateFolder` and `MoveFolder` are a
request's reads and decision; `edit[e].todo` is the rows it goes on to write:
`InsertFolder`, or one `UpdateFolder` per row, the moved folder first, then each level
below. An `UPDATE` writes the parent and the depth that were read, misses a row that is
gone, and is refused when its parent is gone, which ends the request. `DeleteFolder`
takes what is below with it. `CutEdit` stops a request between two writes. The walk of
`moveFolder` collects children level by level; it ends only in a forest, so the
action needs one below the moved folder. `Above(t, f)`, what lies over `f`, is the
least set with the parent of `f` that holds the parent of each of its folders: what
a walk up the rows collects. Stated so it needs no recursion, and a proof
about it chooses a closed set where one about a walk would need induction.

### ShareLink

`link` is the row; `visit[v]` is a request that has decided to write, with its
copy of the row. `Evaluated` is the order of checks in `resolve` (revoked, expired,
locked, passcode), `BaseAttempts` its reset of the count behind an elapsed lock.
`DeleteLink` and `InsertLink` are the store's update. A request that only reads (a
denial, a correct passcode on a clean row) writes nothing and is left out. Clearing a
lock by time happens between requests: a request takes milliseconds, a lock fifteen
minutes.

### WebhookDelivery

`Deliver` takes the snapshot in any order (`audience`, and `delivery[d].queue`),
`LookUp` is the lookup before each attempt, `Post` the attempt with its answer or
timeout, `Finish` the recorded outcome. `StopWorker` ends the process, which keeps no
record of deliveries under way. `contacts`, `late` and `answers` are history: what
an endpoint saw. The worker is complete in the source but `container.ts` does not
start one.

### Presence

The six maps of `RealtimeGateway` are the first variables (the inverse index
`connectionsByMember` is `Connected`); `leaving[m]` is a `fireDeparture` that has
announced some workspaces (`gone`) and has some left. Everything else of
the gateway is synchronous up to the `publish` it ends in, and a step ends there too.
Whether the event is published or the call rejects is a choice of the step
(`Published`, `Rejected`): the map has changed either way, and nothing undoes it. In a
departure nothing catches the rejection (`BreakOff`): it ends with
presence and viewership as they were and no timer. (A Node process may also end on
that unhandled rejection; it then forgets every map, which is the initial state.)
A rejection is taken to be known at once. As in the code, `join`, `openVideo` and the
other calls ask for no open connection.

`announced` is what the other members were last told and `kept` where a member has
reason to be present: where it was when it connected and what it joined since.
`unsure` and `adrift` name what the properties cannot claim. `unsure` has the workspaces
whose last event was rejected, or was followed by a departure that broke off, or was a
join into a departure still announcing, which forgets the join when it ends; `adrift` the
members who called `join` or `openVideo` without a connection (a `join` even cancels the
pending timer) or whose departure broke off, until their last connection closes or a
departure ends. One bound: a departure timer does not fire while an earlier departure of
the same member still announces, which would take that one the timer's five seconds.
The gateway is complete in the source and its tests exercise it, but the API does not
construct one.

### CommentQueue

`entry` is the IndexedDB store; `sync` a running `processQueue` with its list; `call` the
member's edit or retry between its read and its write; `syncTimer` and `expiring` the
timers. One database access, or one request, with the code that follows its answer
is a step: IndexedDB serves a page's accesses in the order in which they are
made, so a call that only writes is one step at the time it is made. The network may
fail before or after the server accepted a comment. `Reload` keeps the rows only.
`overlooked` is history: a comment stored during a pass, by an edit of a row that
changed meanwhile, or before a reload. The member has one call in progress at a time,
which passes, timers, the network and reloads interleave with. Attempts are counted up
to `MaxRetries` only (`Counted`): from there on the code asks nothing of the count, and
its attempts are in fact not bounded, since a retry by hand has no limit. One timer in `expiring` stands for
those of a comment posted twice.

### SessionPromise, VideoLifecycle and MediaPath

`SessionPromise` has the status, the parts recorded as received, the parts whose bytes can be
read and whether the client gave up. Parts are lost only after that; a session completes
only with all parts received and kept; a session that ended stays so. The refinement
mapping, in `UploadSession`, takes the bytes from the assembled object once it is whole,
and from the part objects before.

`VideoLifecycle` has two variables per video, the status members see and whether
a full set of outputs is stored. `MediaPath` instantiates both components on one
state: `CompleteUpload` joins the return of `UploadService.complete` with the
insertion of the video, since no other statement lies between them (the duration
probe changes nothing). The refinement mapping to `VideoLifecycle`, in
`MediaPipeline`, reads `status` off the video row and `complete` off `HasAll`.

## 3. What is checked

| Run | Instance | Distinct states | Shows |
|---|---|---|---|
| `UploadRace` | 2 parts, 3 requests, symmetric | 94,971 | `CompletedHasObject`, `NoAcknowledgedByteLost` under every interleaving and interruption |
| `UploadTerminal` (violation) | 2 parts, 2 requests | | a late save takes a session out of a terminal status |
| `PipelineOverlap` | 1 video, 2 workers, 1 rename, 2 attempts, 3 deliveries, leases may end at any time | 716,834 | `ReadyHasOutputs`, `NoSilentLoss`, `NoOrphanOutputs`, `DeletedStaysDeleted` |
| `PipelineThumbnail` (violation) | 1 video, 1 worker, no rename | | a retried attempt stores the thumbnail twice |
| `PipelineRename` (violation) | 1 video, 1 worker, 1 rename | | a status write, here that of `enqueue`, undoes a rename made since it read the video |
| `RecorderOffline` | 2 recordings, 2 flushes, 2 attempts, one start at a time | 32,032 | `ToldIsKept`, `CaptureUnderControl`, `StoppingEnds` |
| `RecorderStarts` (violation) | 2 recordings, starts may overlap | | two captures run at once |
| `MediaPath` | 2 parts, 1 request at a time, 2 videos, 2 workers, 3 attempts, leases cover runs | 10,098 | one video per upload, over its source; dispatched videos settle; `SessionPromise` and `VideoLifecycle` are implemented |
| `Services` | the six services below, one per behaviour | 486,502 | 22 properties, listed below |
| `OrgRemovals` (violation) | 2 users, 2 requests, no interruption needed | | two removals leave no administrator |
| `FolderMoves` (violation) | 2 folders, 2 requests | | two moves make a cycle |
| `LinkRevoked` (violation) | 2 requests | | a late write of an old row undoes a revocation |

**The run `Services`.** Its specification chooses one service at the start and
lets only that one step, with the others at rest. As the services share no variable,
every reachable state of a service alone is reached, and a property of its variables
holds of the composition exactly if it holds here; the product of their states
would add nothing. The instances and what they show:

| Service | Instance | Distinct states | Shows |
|---|---|---|---|
| `OrgMembership` | 2 users, 2 requests (symmetric), 1 invitation, both store kinds; a user joins at most twice (`MaxJoins`; once over the repository stores) | 121,024 | `MembersHaveRoles`, `AcceptedMeansJoined`, `RemovedStaysOut`, `MemberUntilRemoved`, `LoneRemovalKeepsAdministrator` |
| `ContentTree` | 4 folders, 2 requests, cap 3; with 2 requests at once at most 2 folders were created (`Contended`) | 49,391 | `SerialForest`, `SerialDepths`; no stored depth reaches the cap |
| `ShareLink` | 2 requests, 5 attempts | 38,482 | `SerialFailuresLock`, `RevokedStaysDenied`; no count passes the limit |
| `WebhookDelivery` | 2 subscriptions, 1 delivery, 5 retries | 4,634 | `DeletionStops`, `OutcomesAccount` |
| `Presence` | 1 member, 2 connections, 2 workspaces, 1 video | 8,126 | `AnnouncedIsPresent`, `NoGhostPresence`, `ReturnedStaysPresent` |
| `CommentQueue` | 2 comments, one of them edited, 2 retries | 264,845 | `UnpostedIsKept`, `DueIsScheduled` |

Two users are the least for whom the last-administrator rule decides anything, and two
requests for a race; a second membership tells a row from its successor over the
postgres stores. A cap of 3 with 4 folders has moves that the cap refuses for the folder,
moves that it refuses for a descendant only, and depths on three levels; with this
cap a move below a descendant is refused by the cap already, so of the cycle check the
run tests the other half, a move onto the folder itself. Two folders are the
least that two moves can tangle, and what `Contended` leaves out is overlapping
creations and moves on larger trees. Members do not interact in `Presence` (every map is keyed by
member), so one shows all; two workspaces make a departure announce twice. Two comments
let one arrive while a pass posts the other. 5 attempts and 5 retries are the
code's constants; 2 retries of a comment stand for its default of 5
(`offline-comment-queue.ts:58`), and the cap of 3 for its depth of 10 (`content.ts:67`).

**Why these bounds.** Every race of `UploadSession` is between a request that
writes, one that completes and one that aborts, so three slots let all three
kinds be in flight at once; two parts are the least for which a receipt can
be overwritten and an assembly can be partial. Slots are reused, so sequences of
requests are unbounded. In `PipelineOverlap` the two workers are two holders of
one job, before and after its lease ends; three deliveries let the job come back
after both and still reach the dead-letter state; two attempts are the least
with a retry. `RenditionCounts = {2, 3}` has an output below
`MinRenditions` and one at it. `MaxCopies` caps the count of copies of an output.
Videos do not interact, so one is enough for the pipeline, and two show in
`MediaPath` that a second one is never made. In `RecorderOffline` two recordings let one be
recorded or stored while a flush works on a list that lacks it, and two flushes
overlap with different lists; `MaxUploads` caps the count of uploads, of which the
properties only tell none from some. Symmetry is used in the two runs
without liveness, over slots that nothing distinguishes. Deadlock is not
checked: a session that is over, and a video that is settled, have nothing left
to do.

**Fairness.** `StoppingEnds` assumes weak fairness of `FinalizeFails`, which stands
for the recorder's own deadline timer, and nothing of the environment.
`DispatchedSettles` assumes weak fairness of
`Reserve` and of a worker's run, since workers poll the queue and Node resumes a
handler whose await is answered (every await in `process` is answered or
rejected: the transcoder has a time limit), and of `LeaseExpires`, since Redis
reclaims a lease whose holder is gone. Nothing is assumed of members, of crashes
(a worker may crash in every run) or of the API request, which a crash may end
before it dispatches. So the property starts at the dispatch: a video inserted
but never dispatched stays `uploaded` or `queued`, which the code indeed never
repairs.

**Where assumptions restrict a claim.** `MediaPath` has one request at a time,
no renames and leases that cover runs. With two requests at once, two
completions both return a session and make two videos, and receipts are lost;
with a stale rename or an overlapping run, `ready` may be followed by another
status. `UploadRace` and `PipelineOverlap` make none of these assumptions, and
`ReadyHasOutputs`, `NoOrphanOutputs` and `CompletedHasObject` hold there.
`DispatchedSettles` counts a dead-lettered job as settled: its video may keep the status
`queued` or `processing`, since no code moves it.

**Exceptions by name.** Five properties hold but for cases that a history variable
names, each a thing the code really does: `MemberUntilRemoved` (`lost`: the gaps of
delete-and-insert), `RemovedStaysOut` (`overtaken`), `AnnouncedIsPresent` (`unsure`),
`NoGhostPresence` (`adrift`) and `DueIsScheduled` (`overlooked`). `ReturnedStaysPresent`
claims nothing (`kept` does not grow) while a departure that is already announcing runs
on, which does take the presence of a member who returns meanwhile. What the properties add is that nothing else
leads there; the notes of the hazards say which harm is excepted and not caught.

**Findings.** The seven violation runs, each against a sentence in the code's
own comments or tests: `upload-session.ts:151` (terminal), `pipeline.ts:419` (exactly one
thumbnail), `pipeline.ts:223` (every other field preserved), `recorder.ts:121` (one
active session), Property 78 of the organization tests (always an administrator),
`content.ts:393` (no cycles) and `share.ts:284` (every resolve denied after a
revocation). In `PipelineRename` the status write that takes the title back is the one of
`enqueue`; those of `process` write the record read at the start of the run in the same way. Beside each of the last three stands the property that does hold:
`LoneRemovalKeepsAdministrator`, `SerialForest`, `RevokedStaysDenied`.

## 4. What is proved

TLAPS proves, for *every* number of parts, requests, videos, workers, renames,
attempts, deliveries, recordings and flushes, users, invitations, folders, share-link
visits, members, connections, workspaces, comments, webhook subscriptions and
retries, and for every nesting cap:

| Theorem | Statement |
|---|---|
| `UploadSession_proofs!TypeCorrect` | `Spec => []TypeOK` |
| `UploadSession_proofs!CompletedSafe` | `Spec => []CompletedHasObject` |
| `UploadSession_proofs!AcknowledgedSafe` | `Spec => []NoAcknowledgedByteLost` |
| `UploadSession_proofs!SessionKeepsPromise` | `OneRequestAtATime` implies `Spec => ImplementsPromise` |
| `MediaPipeline_proofs!PipelineTypeCorrect` | `Spec => []TypeOK` |
| `MediaPipeline_proofs!ReadyComplete` | `Spec => []ReadyHasOutputs` |
| `MediaPipeline_proofs!AckedSettled` | `Spec => []NoSilentLoss` |
| `MediaPipeline_proofs!CascadeComplete` | `Spec => []NoOrphanOutputs` |
| `MediaPipeline_proofs!DeletionFinal` | `Spec => DeletedStaysDeleted` |
| `MediaPipeline_proofs!PipelineImplements` | `Undisturbed` implies `Spec => ImplementsLifecycle` |
| `MediaPath_proofs!UploadMakesOneVideo` | `OneRequestAtATime` implies `Spec => []OneVideoPerUpload` |
| `MediaPath_proofs!VideosHaveSource` | `OneRequestAtATime` implies `Spec => []VideoHasSource` |
| `MediaPath_proofs!AckedStaysRecorded` | `OneRequestAtATime` implies `Spec => []SerialAckedIsRecorded` |
| `MediaPath_proofs!EndedStaysEnded` | `OneRequestAtATime` implies `Spec => SerialTerminalIsFinal` |
| `MediaPath_proofs!PathIsPipeline` | `Spec => Pipeline!Spec` |
| `MediaPath_proofs!PathKeepsPromise` | `OneRequestAtATime` implies `Spec => SessionKeepsPromise` |
| `MediaPath_proofs!ReadyEndToEnd` | `OneRequestAtATime` implies `Spec => []ReadyIsWhole` |
| `MediaPath_proofs!PathImplements` | `LeaseCoversRun` and no editors imply `Spec => ImplementsLifecycle` |
| `Recorder_proofs!RecorderTypeCorrect` | `Spec => []TypeOK` |
| `Recorder_proofs!RecordingsKept` | `Spec => []ToldIsKept` |
| `Recorder_proofs!CapturesControlled` | `OneStartAtATime` implies `Spec => []CaptureUnderControl` |
| `OrgMembership_proofs!OrgTypeCorrect` | `OrgSpec => []OrgTypeOK` |
| `OrgMembership_proofs!RolesForMembers` | `OrgSpec => []MembersHaveRoles` |
| `OrgMembership_proofs!AcceptanceJoins` | `OrgSpec => []AcceptedMeansJoined` |
| `OrgMembership_proofs!RemovalRevokes` | `OrgSpec => []RemovedStaysOut` |
| `OrgMembership_proofs!MembersRemain` | `OrgSpec => []MemberUntilRemoved` |
| `OrgMembership_proofs!LoneRemovalSafe` | `OrgSpec => LoneRemovalKeepsAdministrator` |
| `ContentTree_proofs!TreeTypeCorrect` | `TreeSpec => []TreeTypeOK` |
| `ContentTree_proofs!NoOrphanFolders` | `TreeSpec => []ParentsExist` |
| `ContentTree_proofs!MovesKeepForest` | `TreeSpec => []SerialForest` |
| `ContentTree_proofs!DepthsStayTrue` | `TreeSpec => []SerialDepths` |
| `Services_proofs!HookTypeCorrect` | `HookSpec => []HookTypeOK` |
| `Services_proofs!DeletionStopsRequests` | `HookSpec => []DeletionStops` |
| `Services_proofs!ReportsAreTrue` | `HookSpec => []OutcomesAccount` |
| `Services_proofs!ShareTypeCorrect` | `ShareSpec => []ShareTypeOK` |
| `Services_proofs!SerialLockExact` | `ShareSpec => []SerialFailuresLock` |
| `Services_proofs!RevocationHolds` | `ShareSpec => []RevokedStaysDenied` |
| `Services_proofs!PresenceTypeCorrect` | `PresenceSpec => []PresenceTypeOK` |
| `Services_proofs!AnnouncementsHold` | `PresenceSpec => []AnnouncedIsPresent` |
| `Services_proofs!GhostsLeave` | `PresenceSpec => []NoGhostPresence` |
| `Services_proofs!ReturnersStay` | `PresenceSpec => []ReturnedStaysPresent` |
| `CommentQueue_proofs!QueueTypeCorrect` | `QueueSpec => []QueueTypeOK` |
| `CommentQueue_proofs!CommentsKept` | `QueueSpec => []UnpostedIsKept` |
| `CommentQueue_proofs!DueCommentsScheduled` | `QueueSpec => []DueIsScheduled` |

from `TotalPartsAssumption`, `PathAssumption`, `PipelineAssumption`, `RecorderAssumption`, `OrgAssumption`,
`TreeAssumption`, `AttemptsAssumption`, `RetriesAssumption`, `PeopleAssumption` and
`QueueAssumption` alone, which TLC evaluates on the instances. Every safety property that
a passing run checks is the property of one of these theorems. Where TLC needs a
bound that is a constant (`MaxCopies`, `MaxUploads`, `MaxJoins`, `Contended`), the theorem
holds for each of its values.

**Uploads.** The properties are not inductive: what makes `SaveCompleted` safe is
what its request did several awaits before, while others were deleting and
writing. The invariant adds `RequestKnows`, which says of each program counter
what the request that stands there has established *and no other can undo*: a
request past `PutObject` knows that the whole object is stored (the only writer
of the object writes a whole one), one about to save a receipt knows its part
was stored unless an abort or an assembly has taken it since.

**Promise.** With one request at a time (`OneRequestAtATime`; the races of `UploadTerminal` break
it) a session refines `SessionPromise`. `Standing` adds that the request's snapshot is the
row, that what it stored or read is still there, and that it assembles only a session with
all parts received; each save is then the step the promise has for it, and the deletion of
parts behind a whole object is a stutter.

**Pipeline.** `IInv` adds to `TypeOK` and the properties: `DeliveriesLeft` (a waiting
job has deliveries left, which keeps the counter typed), `ApiOrder` (no job, worker
or output exists before the API has dispatched, or inserted, the video),
`WorkerKnows` (a worker at `persist` has stored outputs `1..k` unless the video was
deleted since; one at `ack` has settled its video) and `EditorKnows` with
`ReadySettled` (a record read as ready can be written back only over stored outputs,
or over no row at all). The step theorem has a lemma per conjunct and, in each, a
step per action that can disturb it. `DeletionFinal` follows from `ApiOrder` and the
fact that an `UPDATE` never creates a row.

**Lifecycle.** The refinement holds while leases cover their runs and nobody renames
(`Undisturbed`); the overlapping runs of `PipelineOverlap` break it. The invariant
`LInv` adds to `IInv` that a run holds the lease of its job (`Exclusive`), so that no
two runs are of one video, that the API's progress bounds the status (`ApiStatus`),
and that the status under a run is the one it read or wrote last, unless the video was
deleted (`RunKnows`). Then each write of a status is a move of the lifecycle from the
status the run knows, and each insert of an output either completes the set or stutters.

**Path.** `PathInv` is about a client with one request at a time
(`OneRequestAtATime`): its request runs on the row as it is, so no save takes anything
back; a request that holds a completed session is the first to, and no video was made
yet. It needs nothing of leases or renames. `PathIsPipeline` says that every behaviour of the
path is one of the pipeline, with an upload in the place of the member who inserts
videos. `PathImplements` goes on from there: the pipeline's refinement theorem, taken
from an instance of its proofs at the path's constants, holds of the path once both
instances are shown to take the same steps (`SameSteps`, `SameLifecycle`).
`ReadyEndToEnd` joins the two halves the same way: a video shown as ready lies over a
completed session whose parts are all stored, and has its outputs.
`PathAssumption` restates the assumptions which those theorems were proved from.
`PathKeepsPromise` does the same for the session (`PathIsSession`, `SameRequests`,
`SamePromise`). `SerialTerminalIsFinal` is part of that promise, so no run checks it by itself.

**Recorder.** `ToldIsKept` needs `FlushKnows`: a flush about to remove a recording
has uploaded it. `CaptureUnderControl` is kept by `Control`: the object's fields agree
with the environment, nothing else is under way while a start awaits its capture
(`StartAlone`, where the assumption on the client is used), and a stop that finalizes is
that of the current session unless the recorder was torn down under it
(`FinalizesOwn`), so its reset cannot drop another recording's handle.

**Organizations.** `IInv` has five parts beside the types and properties. `Founding`
says that nothing but the one `createOrg` runs until its founder is recorded, and that
afterwards both roles are there or none, with no member left. `RequestsKnow` says what a
request has read or done and what stays true of it: one that marks an invitation has its
user in `joined`, one that writes a role has a row id that was given out and a seeded role.
`LostWithRoles` accounts for the cascade. `HoldersKnown` says that a role change which
holds the row of a removed user is counted in `overtaken`, so a reinsertion brings back
no other. `AloneKnows` follows a removal that overlaps nobody from its gate to its
deletion; the count is turned into another administrator by a lemma on cardinalities
(`MayRemoveLeaves`).

**Folders.** `TreeInv` has three layers. Always: types, `ParentsExist`, and what the
requests work on. Until two requests overlap (`Serial`): one request at most, a forest,
and the tree it read still there, so that the move it decided on is still possible or is
made (`MoveStands`), and the parent of a folder to insert still stands (`CreateStands`).
Until one is cut off as well (`Depths`): the depths are true but for those of the rows
still to write, and `todo` has the right ones (`MoveAccounts`). The lemmas on trees carry
it: a folder that goes under one outside its subtree makes no cycle (`MovedAcyclic`) and
takes its subtree along by the same distance (`MovedNesting`), removing a subtree or adding a
leaf leaves what is above the others. Each chooses a closed set, and the counts of
`Nesting` need the set of ids given out to be finite, which is part of the invariant.
The two exceptions are real: `FolderMoves` shows the overlap that makes a cycle, and a
move cut off between its writes leaves depths that are not true.

**Webhooks.** `HookInv` says of a delivery under way that its queue has each subscription
once, that what was sent to the first is what it counted and to the others nothing, and that
the snapshot is what it queues and what it settled. `DeletionStops` needs that a subscription
about to be posted to has seen no late request: the lookup before each attempt ends its
turn otherwise. That a snapshot in any order lists all live subscriptions is a fact on
finite sets (`Snapshot`), so the invariant keeps them finite.

**Share links.** `CountsFit` bounds the count in the row *and in every copy*, since any copy
may be written; `CopiesStored` and `SealHolds` say that after a revocation nobody
competed with, only revoked copies are left; `SerialTally` says where the right count is
while one request at a time deletes and inserts the row.

**Presence.** `AnnouncedIsPresent` speaks of the time between departures only.
`TellsPresence` extends it through one: outside `unsure`, what was announced is what is
held less what the departure has announced (`gone`), and what is announced still is in
its list (`left`). So nothing is left to tell when it forgets, and `gone` is what is in
doubt when it breaks off. `Returned` adds to `ReturnedStaysPresent` that a member whose
departure is armed or runs has nothing in `kept`: a connection and a join disarm the
timer, so that a departure which begins takes nothing from anybody.

**Comments.** `PassKnows` says what a pass holds: due rows, each with an attempt left, and
as current a comment it calls synced only when the server has it. `CallKnows` says the same of
an edit or retry, whose row is never a synced one. `Scheduled` extends `DueIsScheduled` to
the time during a pass: a due comment is in the pass's list, or makes the
pass schedule the next.

**Only model-checked:** `DispatchedSettles` and `StoppingEnds`: liveness under fairness is
beyond the prover.

## 5. Not modelled, and why

* Contents of messages, keys, titles and media; validation of identifiers;
  authorization beyond the gates above; the audit log and the status events of the
  pipeline, whose failures `emitStatus` isolates.
* The in-process waiter map of `enqueueAndAwait` and the in-memory queue driver,
  which serve single-process deployments.
* A rejected statement that was nevertheless executed.
* The content type of an upload, kept in a map of the process.
* Teams (inserts nothing else here reads); reviews, which follow `ShareLink`'s
  pattern without its counters.
* `moveVideo`: `content.ts:653-658` promises that the video keeps its comments,
  transcripts and permissions. Over the repository store (`content.ts:800-805`) it deletes
  and inserts the video row, and whatever refers to it `ON DELETE CASCADE` goes, in every
  move and without any interleaving, so there is nothing a model would add.
* Lockout ledger and rate limiter: a map of one process under synchronous code. The
  ledger has a race: an attempt that passed `isLocked` before the account was locked and
  then succeeds clears the lock with `reset`, against `lockout.ts:5-8`, which says that a
  lock lasts a fixed duration and that every further attempt is rejected. It is not
  modelled yet.
* The realtime backplane between nodes: `Presence` is one node. The realtime hub
  of the API is a synchronous fan-out without state of its own.
* In `CommentQueue`: failures of IndexedDB itself, and the messages of the service
  worker, which empties a store of another name that nothing fills. In
  `WebhookDelivery`: a recorder of outcomes that rejects.
* Chunk uploads of `packages/media`, `BackgroundSyncManager` and `websocket-manager` of
  the web client: stateful, and next in the plan.
* Most lines of the repository are pages, components, adapters, validation and single
  inserts. They hold no protocol that a model could check, so the mapped share of all
  lines stays small however much of the core is modelled.

## 6. Plan

Done: uploads, pipeline, recorder and their composition; organizations, folders, share
links, webhooks, presence and the offline comment queue, with a theorem for each of their
safety properties. Left, in this order:

1. `ChunkUpload` (`packages/media/src/upload.ts`): sessions, retry budget, chunks retained
   offline, expiry.
2. `BackgroundSync` and the reconnecting websocket of the web client.
3. Presence over several nodes, with the backplane's delays.
4. `AuthLockout`: the ledger under parallel attempts, with the race above.
