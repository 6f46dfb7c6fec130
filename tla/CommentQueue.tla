---------------------------- MODULE CommentQueue ----------------------------
(* The web client's OfflineCommentQueue: comments kept in IndexedDB and    *)
(* posted by processQueue, one at a time. Each database access and each    *)
(* request is a step, with the code that follows its answer: IndexedDB     *)
(* serves the accesses in the order in which they are made. The member     *)
(* queues, edits, retries and removes comments meanwhile, the network      *)
(* comes and goes, and the page reloads. The service worker empties        *)
(* another store, which nothing fills. Bound: one call of the member at a  *)
(* time.                                                                   *)
EXTENDS Naturals

CONSTANTS
  MaxComments,  \* bound: comments ever written
  Edited,       \* bound: the comments the member edits
  MaxRetries

ASSUME QueueAssumption == MaxComments \in Nat /\ MaxRetries \in Nat \ {0}

VARIABLES
  entry,      \* comment -> its row in IndexedDB, or Absent
  online,     \* navigator.onLine
  syncTimer,  \* whether a sync attempt is scheduled
  sync,       \* the running processQueue: isSyncing and its locals
  call,       \* the member's call in progress
  expiring,   \* comments posted, a removal timer of which runs
  written,    \* history: ids given out
  owed,       \* history: comments neither removed nor accepted by the server
  overlooked  \* history: stored too late for the pass, or before a reload

queueVars == <<entry, online, syncTimer, sync, call, expiring, written,
               owed, overlooked>>

Comments == 1..MaxComments  \* in the order they are written
Absent == [status |-> "absent", retryCount |-> 0]
Entry == [status: {"pending", "syncing", "synced", "failed"}, retryCount: 0..MaxRetries]
NoComments == [c \in Comments |-> Absent]
Queued(q) == {c \in Comments : q[c] # Absent}

(* What a pass takes up. *)
Due(e) == e.status = "pending" \/ (e.status = "failed" /\ e.retryCount < MaxRetries)

(* One attempt more. Bound: counts from MaxRetries on are not told apart,  *)
(* as Due does not; the code counts on, with each retry by hand.           *)
Counted(n) == IF n < MaxRetries THEN n + 1 ELSE MaxRetries

NoComment == 0
Copies == [Comments -> Entry \union {Absent}]
PassState == [at: {"idle", "next", "send", "save"}, todo: Copies,
              current: Comments \union {NoComment}, more: BOOLEAN]
CallState == [at: {"idle", "retry", "update"}, todo: Copies]
NoPass == [at |-> "idle", todo |-> NoComments, current |-> NoComment, more |-> FALSE]
NoCall == [at |-> "idle", todo |-> NoComments]
Passing == sync.at # "idle"

QueueInit ==
  /\ entry = NoComments
  /\ online \in BOOLEAN
  /\ syncTimer = FALSE
  /\ sync = NoPass
  /\ call = NoCall
  /\ expiring = {}
  /\ written = {}
  /\ owed = {}
  /\ overlooked = {}

---------------------------------------------------------------------------
(* The member's calls. A row stored while a pass runs is overlooked by it. *)
Put(c, e) == entry' = [entry EXCEPT ![c] = e]
Overlook(c, when) == overlooked' = IF when THEN overlooked \union {c} ELSE overlooked \ {c}

(* A sync attempt is due in retryDelayMs, unless one is already.           *)
ScheduleSync == syncTimer' = (syncTimer \/ online)

QueueComment(c) ==
  /\ call.at = "idle"
  /\ written = 1..c - 1
  /\ written' = written \union {c}
  /\ owed' = owed \union {c}
  /\ Put(c, [status |-> "pending", retryCount |-> 0])
  /\ Overlook(c, Passing)
  /\ ScheduleSync
  /\ UNCHANGED <<online, sync, call, expiring>>

RetryComment(c) ==
  /\ call.at = "idle"
  /\ entry[c].status = "failed"
  /\ call' = [at |-> "retry",
              todo |-> [NoComments EXCEPT ![c] = [entry[c] EXCEPT !.status = "pending"]]]
  /\ UNCHANGED <<entry, online, syncTimer, sync, expiring, written, owed, overlooked>>

(* updateComment reads the row, and writes it back with another body. *)
UpdateComment(c) ==
  /\ call.at = "idle"
  /\ c \in Edited
  /\ entry[c].status \notin {"absent", "synced"}
  /\ call' = [at |-> "update", todo |-> [NoComments EXCEPT ![c] = entry[c]]]
  /\ UNCHANGED <<entry, online, syncTimer, sync, expiring, written, owed, overlooked>>

Changed(c) == entry[c] # call.todo[c] \/ c \in overlooked

SaveCall ==
  /\ call.at \in {"retry", "update"}
  /\ \E c \in Queued(call.todo) :
       /\ Put(c, call.todo[c])
       /\ Overlook(c, Passing \/ (call.at = "update" /\ Changed(c)))
  /\ IF call.at = "retry" THEN ScheduleSync ELSE UNCHANGED syncTimer
  /\ call' = NoCall
  /\ UNCHANGED <<online, sync, expiring, written, owed>>

(* removeComment and clearAll. *)
RemoveComments(cs) ==
  /\ call.at = "idle"
  /\ cs \subseteq Queued(entry) /\ cs # {}
  /\ entry' = [c \in Comments |-> IF c \in cs THEN Absent ELSE entry[c]]
  /\ owed' = owed \ cs
  /\ UNCHANGED <<online, syncTimer, sync, call, expiring, written, overlooked>>

(* clearSynced removes the comments posted. *)
ClearSynced(c) ==
  /\ call.at = "idle"
  /\ entry[c].status = "synced"
  /\ Put(c, Absent)
  /\ UNCHANGED <<online, syncTimer, sync, call, expiring, written, owed, overlooked>>

(* Five seconds after it was posted, a comment is removed, whatever an     *)
(* edit has made of its row since.                                         *)
RemovalTimerFires(c) ==
  /\ c \in expiring
  /\ expiring' = expiring \ {c}
  /\ Put(c, Absent)
  /\ UNCHANGED <<online, syncTimer, sync, call, written, owed, overlooked>>

---------------------------------------------------------------------------
(* processQueue: returns at once while a pass runs or without a network,   *)
(* else it reads what is due.                                              *)
BeginPass ==
  IF Passing THEN UNCHANGED <<sync, overlooked>>
  ELSE /\ sync' = [NoPass EXCEPT !.at = "next",
                     !.todo = [c \in Comments |-> IF Due(entry[c]) THEN entry[c] ELSE Absent]]
       /\ overlooked' = {}

SyncTimerFires ==
  /\ syncTimer
  /\ syncTimer' = FALSE
  /\ IF online THEN BeginPass ELSE UNCHANGED <<sync, overlooked>>
  /\ UNCHANGED <<entry, online, call, expiring, written, owed>>

GoOnline ==
  /\ ~online
  /\ online' = TRUE
  /\ BeginPass
  /\ UNCHANGED <<entry, syncTimer, call, expiring, written, owed>>

GoOffline ==
  /\ online
  /\ online' = FALSE
  /\ UNCHANGED <<entry, syncTimer, sync, call, expiring, written, owed, overlooked>>

(* The next comment, in the order of the ids; its row is written as it was *)
(* read, even if the member has removed it.                                *)
MarkSyncing(c) ==
  LET e == [sync.todo[c] EXCEPT !.status = "syncing"]
  IN /\ sync.at = "next"
     /\ c \in Queued(sync.todo)
     /\ Put(c, e)
     /\ sync' = [sync EXCEPT !.at = "send", !.current = c, !.todo[c] = e]
     /\ UNCHANGED <<online, syncTimer, call, expiring, written, owed, overlooked>>

(* Faulty variant: the status of the response is not looked at. *)
AnsweredAtAll(accepted, answered) == answered

(* Whether syncComment resolves. *)
Succeeds(accepted, answered) == accepted /\ answered

(* syncComment: the server accepts the comment or not, and its answer      *)
(* arrives or not.                                                         *)
SyncComment ==
  LET c == sync.current
      e == sync.todo[c]
  IN /\ sync.at = "send"
     /\ \E accepted \in BOOLEAN, answered \in BOOLEAN :
          /\ (accepted \/ answered) => online
          /\ owed' = IF accepted THEN owed \ {c} ELSE owed
          /\ sync' = [sync EXCEPT !.at = "save", !.todo[c] =
                        IF Succeeds(accepted, answered) THEN [e EXCEPT !.status = "synced"]
                        ELSE [status |-> "failed", retryCount |-> Counted(e.retryCount)]]
     /\ UNCHANGED <<entry, online, syncTimer, call, expiring, written, overlooked>>

(* Faulty variant: the row is removed in five seconds whatever came of it. *)
SaveOutcomeExpiring ==
  LET c == sync.current
      e == sync.todo[c]
  IN /\ sync.at = "save"
     /\ Put(c, e)
     /\ sync' = [sync EXCEPT !.at = "next", !.current = NoComment, !.todo[c] = Absent,
                             !.more = @ \/ Due(e)]
     /\ expiring' = expiring \union {c}
     /\ UNCHANGED <<online, syncTimer, call, written, owed, overlooked>>

SaveOutcome ==
  LET c == sync.current
      e == sync.todo[c]
  IN /\ sync.at = "save"
     /\ Put(c, e)
     /\ sync' = [sync EXCEPT !.at = "next", !.current = NoComment, !.todo[c] = Absent,
                             !.more = @ \/ Due(e)]
     /\ expiring' = IF e.status = "synced" THEN expiring \union {c} ELSE expiring
     /\ UNCHANGED <<online, syncTimer, call, written, owed, overlooked>>

(* Faulty variant: what is left is left to the next occasion. *)
EndPassUnscheduled ==
  /\ sync.at = "next"
  /\ Queued(sync.todo) = {}
  /\ sync' = NoPass
  /\ UNCHANGED <<entry, online, syncTimer, call, expiring, written, owed, overlooked>>

EndPass ==
  /\ sync.at = "next"
  /\ Queued(sync.todo) = {}
  /\ sync' = NoPass
  /\ syncTimer' = (syncTimer \/ sync.more)
  /\ UNCHANGED <<entry, online, call, expiring, written, owed, overlooked>>

(* Nothing but the rows outlives the page; initialize starts no pass. *)
Reload ==
  /\ syncTimer' = FALSE
  /\ sync' = NoPass
  /\ call' = NoCall
  /\ expiring' = {}
  /\ overlooked' = Queued(entry)
  /\ UNCHANGED <<entry, online, written, owed>>

QueueNext ==
  \/ \E c \in Comments :
       \/ QueueComment(c) \/ RetryComment(c) \/ UpdateComment(c)
       \/ ClearSynced(c) \/ RemovalTimerFires(c) \/ MarkSyncing(c) \/ RemoveComments({c})
  \/ RemoveComments(Queued(entry))
  \/ SaveCall \/ SyncTimerFires \/ GoOnline \/ GoOffline
  \/ SyncComment \/ SaveOutcome \/ EndPass \/ Reload

QueueSpec == QueueInit /\ [][QueueNext]_queueVars

---------------------------------------------------------------------------
(* Rows are well formed, and so are the copies of them a pass or a call    *)
(* works on; a removal timer runs only for a comment the server accepted   *)
(* or the member removed.                                                  *)
QueueTypeOK ==
  /\ entry \in Copies
  /\ online \in BOOLEAN /\ syncTimer \in BOOLEAN
  /\ sync \in PassState
  /\ call \in CallState
  /\ expiring \subseteq written \ owed
  /\ owed \subseteq written

(* No comment is lost: until the server has accepted it, or the member     *)
(* removed it, it is in the store and not reported as synced, whatever     *)
(* calls, passes and reloads came in between.                              *)
UnpostedIsKept ==
  \A c \in owed :
    entry[c].status \in {"pending", "syncing", "failed"}

(* No comment waits for nothing: online, between passes, a sync attempt is *)
(* scheduled while one is due, unless it was stored during a pass, by an   *)
(* edit, or before a reload: those wait for the next attempt made for      *)
(* another reason.                                                         *)
DueIsScheduled ==
  (online /\ ~Passing /\ ~syncTimer) =>
    \A c \in Comments : Due(entry[c]) => c \in overlooked
=============================================================================
