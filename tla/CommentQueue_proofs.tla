------------------------ MODULE CommentQueue_proofs ------------------------
(***************************************************************************)
(* Theorems about CommentQueue, for any number of comments and any limit   *)
(* of retries: types, that no comment is lost before the server has it,    *)
(* and that none that is due waits without an attempt scheduled.           *)
(***************************************************************************)
EXTENDS CommentQueue, TLAPS

\* Rows and copies of rows are of comments written.
RowsKnown ==
  /\ written \subseteq Comments
  /\ \A c \in Comments : entry[c].status # "absent" => c \in written

\* What the member's call is to write back.
CallKnows ==
  \A c \in Comments :
    /\ call.todo[c].status # "absent" => c \in written
    /\ call.todo[c].status # "synced"

\* What a pass has before it: due rows, and the one it is posting, which is
\* synced only once the server has it.
PassKnows ==
  /\ Passing => \A c \in Comments :
       /\ sync.todo[c].status # "absent" => c \in written
       /\ (c # sync.current /\ sync.todo[c].status # "absent") => Due(sync.todo[c])
  /\ sync.at = "next" => sync.current = NoComment
  /\ sync.at \in {"send", "save"} => sync.current \in Comments
  /\ sync.at = "send" => sync.todo[sync.current].status = "syncing"
  /\ sync.at = "save" =>
       /\ sync.todo[sync.current].status \in {"synced", "failed"}
       /\ sync.todo[sync.current].status = "synced" => sync.current \notin owed

\* A due comment is before the pass, or makes it schedule the next; between
\* passes something is scheduled, or the network is away.
Scheduled ==
  \A c \in Comments : Due(entry[c]) =>
    \/ c \in overlooked
    \/ Passing /\ (sync.todo[c].status # "absent" \/ sync.more)
    \/ ~Passing /\ (syncTimer \/ ~online)

Known == QueueTypeOK /\ RowsKnown /\ CallKnows /\ PassKnows
IInv == Known /\ UnpostedIsKept /\ Scheduled

------------------------------------------------------------------------------
\* Every step is one of the actions or changes nothing.
LEMMA StepCases ==
  ASSUME [QueueNext]_queueVars
  PROVE  \/ \E c \in Comments : QueueComment(c)
         \/ \E c \in Comments : RetryComment(c)
         \/ \E c \in Comments : UpdateComment(c)
         \/ \E c \in Comments : ClearSynced(c)
         \/ \E c \in Comments : RemovalTimerFires(c)
         \/ \E c \in Comments : MarkSyncing(c)
         \/ \E cs \in SUBSET Comments : RemoveComments(cs)
         \/ SaveCall
         \/ SyncTimerFires
         \/ GoOnline
         \/ GoOffline
         \/ SyncComment
         \/ SaveOutcome
         \/ EndPass
         \/ Reload
         \/ UNCHANGED queueVars
  BY DEF QueueNext, Queued

\* Rows and the copies of them that calls and passes write.
LEMMA RowFacts ==
  /\ Absent.status = "absent" /\ Absent.retryCount = 0
  /\ \A e \in Entry : e # Absent /\ e.status # "absent" /\ e.retryCount \in 0..MaxRetries
  /\ NoComment \notin Comments
  /\ \A c \in Comments : NoComments[c] = Absent
  /\ NoComments \in Copies
  BY DEF Absent, Entry, NoComment, Comments, NoComments, Copies

\* A new comment and a failed attempt make rows of the right type.
LEMMA NewRows ==
  /\ [status |-> "pending", retryCount |-> 0] \in Entry
  /\ \A n \in 0..MaxRetries : [status |-> "failed", retryCount |-> Counted(n)] \in Entry
  BY QueueAssumption DEF Entry, Counted

\* A status changed leaves the count as it was.
LEMMA ChangedRow ==
  ASSUME NEW e \in Entry,
         NEW s \in {"pending", "syncing", "synced", "failed"}
  PROVE  LET row == [e EXCEPT !.status = s] IN
         row \in Entry /\ row.status = s /\ row.retryCount = e.retryCount
  BY DEF Entry

\* The steps of a pass, field by field.
LEMMA BeginEffect ==
  ASSUME Known,
         BeginPass
  PROVE  \/ Passing /\ UNCHANGED <<sync, overlooked>>
         \/ /\ ~Passing /\ overlooked' = {}
            /\ sync' \in PassState
            /\ sync'.at = "next" /\ sync'.current = NoComment /\ ~sync'.more
            /\ \A c \in Comments :
                 sync'.todo[c] = IF Due(entry[c]) THEN entry[c] ELSE Absent
<1> SUFFICES ASSUME ~Passing
             PROVE  /\ overlooked' = {}
                    /\ sync' \in PassState
                    /\ sync'.at = "next" /\ sync'.current = NoComment /\ ~sync'.more
                    /\ \A c \in Comments :
                         sync'.todo[c] = IF Due(entry[c]) THEN entry[c] ELSE Absent
  BY DEF BeginPass
<1> DEFINE todo == [c \in Comments |-> IF Due(entry[c]) THEN entry[c] ELSE Absent]
<1>1. todo \in Copies
  BY DEF Known, QueueTypeOK, Copies
<1>2. sync' = [NoPass EXCEPT !.at = "next", !.todo = todo] /\ overlooked' = {}
  BY DEF BeginPass
<1>3. NoPass \in PassState
      /\ NoPass.current = NoComment /\ ~NoPass.more
  BY RowFacts DEF NoPass, PassState
<1>4. \A c \in Comments : todo[c] = IF Due(entry[c]) THEN entry[c] ELSE Absent
  OBVIOUS
<1> HIDE DEF todo
<1>. QED
  BY <1>1, <1>2, <1>3, <1>4 DEF PassState

\* Marking a row changes its copy and its row alike.
LEMMA MarkEffect ==
  ASSUME Known,
         NEW c \in Comments,
         MarkSyncing(c)
  PROVE  \E e \in Entry :
           /\ e.status = "syncing"
           /\ entry' = [entry EXCEPT ![c] = e]
           /\ sync' \in PassState
           /\ sync'.at = "send" /\ sync'.current = c /\ sync'.more = sync.more
           /\ sync'.todo = [sync.todo EXCEPT ![c] = e]
           /\ sync.at = "next" /\ c \in written
<1> DEFINE e == [sync.todo[c] EXCEPT !.status = "syncing"]
<1>1. sync.at = "next" /\ sync.todo[c] \in Entry
  BY DEF MarkSyncing, Queued, Known, QueueTypeOK, PassState, Copies
<1>2. Due(sync.todo[c]) /\ c \in written
  BY <1>1, RowFacts DEF Known, PassKnows, Passing
<1>3. e \in Entry /\ e.status = "syncing" /\ e.retryCount = sync.todo[c].retryCount
  BY <1>1, ChangedRow
<1>4. /\ entry' = [entry EXCEPT ![c] = e]
      /\ sync' = [sync EXCEPT !.at = "send", !.current = c, !.todo[c] = e]
  BY DEF MarkSyncing, Put
<1> HIDE DEF e
<1>. QED
  BY <1>1, <1>2, <1>3, <1>4
     DEF Known, QueueTypeOK, PassState, Copies

\* The answer changes one copy: synced, or failed with one attempt more.
LEMMA SyncEffect ==
  ASSUME Known,
         SyncComment
  PROVE  \E e \in Entry :
           /\ e.status \in {"synced", "failed"}
           /\ e.status = "synced" => sync.current \notin owed'
           /\ owed' \subseteq owed
           /\ \A c \in owed \ owed' : c = sync.current
           /\ sync' \in PassState
           /\ sync'.at = "save" /\ sync'.current = sync.current /\ sync'.more = sync.more
           /\ sync'.todo = [sync.todo EXCEPT ![sync.current] = e]
           /\ sync.at = "send"
           /\ UNCHANGED <<entry, online, syncTimer, call, expiring, written, overlooked>>
<1> DEFINE c == sync.current
           e == sync.todo[c]
           next(accepted, answered) ==
             IF Succeeds(accepted, answered) THEN [e EXCEPT !.status = "synced"]
             ELSE [status |-> "failed", retryCount |-> Counted(e.retryCount)]
<1>1. sync.at = "send" /\ c \in Comments /\ e \in Entry /\ e.retryCount \in 0..MaxRetries
  BY RowFacts
     DEF SyncComment, Known, PassKnows, QueueTypeOK, PassState, Copies
<1>2. PICK accepted \in BOOLEAN, answered \in BOOLEAN :
        /\ owed' = IF accepted THEN owed \ {c} ELSE owed
        /\ sync' = [sync EXCEPT !.at = "save", !.todo[c] = next(accepted, answered)]
  BY DEF SyncComment
<1>3. /\ next(accepted, answered) \in Entry
      /\ next(accepted, answered).status \in {"synced", "failed"}
      /\ next(accepted, answered).status = "synced" => accepted
  BY <1>1, NewRows, ChangedRow DEF Succeeds
<1> HIDE DEF next, c
<1>4. /\ sync' \in PassState
      /\ sync'.at = "save" /\ sync'.current = sync.current /\ sync'.more = sync.more
      /\ sync'.todo = [sync.todo EXCEPT ![c] = next(accepted, answered)]
  BY <1>1, <1>2, <1>3 DEF Known, QueueTypeOK, PassState, Copies
<1>5. UNCHANGED <<entry, online, syncTimer, call, expiring, written, overlooked>>
  BY DEF SyncComment
<1>. QED
  BY <1>1, <1>2, <1>3, <1>4, <1>5 DEF c

\* Saving the outcome stores the copy and drops it from the pass.
LEMMA SaveEffect ==
  ASSUME Known,
         SaveOutcome
  PROVE  LET c == sync.current
             e == sync.todo[c]
         IN /\ sync.at = "save" /\ c \in Comments /\ e \in Entry
            /\ entry' = [entry EXCEPT ![c] = e]
            /\ sync' \in PassState
            /\ sync'.at = "next" /\ sync'.current = NoComment
            /\ sync'.more = (sync.more \/ Due(e))
            /\ sync'.todo = [sync.todo EXCEPT ![c] = Absent]
<1> DEFINE c == sync.current
           e == sync.todo[c]
<1>1. sync.at = "save" /\ c \in Comments /\ e \in Entry
  BY RowFacts
     DEF SaveOutcome, Known, PassKnows, QueueTypeOK, PassState, Copies
<1>2. /\ entry' = [entry EXCEPT ![c] = e]
      /\ sync' = [sync EXCEPT !.at = "next", !.current = NoComment, !.todo[c] = Absent,
                              !.more = @ \/ Due(e)]
  BY DEF SaveOutcome, Put
<1>3. Due(e) \in BOOLEAN
  BY DEF Due
<1> HIDE DEF c, e
<1>. QED
  BY <1>1, <1>2, <1>3 DEF c, e, Known, QueueTypeOK, PassState, Copies

\* What the member's calls keep until they write.
LEMMA CallEffect ==
  ASSUME Known,
         NEW c \in Comments,
         RetryComment(c) \/ UpdateComment(c)
  PROVE  \E e \in Entry :
           /\ e.status # "synced" /\ c \in written
           /\ call' \in CallState
           /\ call'.at \in {"retry", "update"}
           /\ call'.todo = [NoComments EXCEPT ![c] = e]
           /\ UNCHANGED <<entry, online, syncTimer, sync, expiring, written, owed, overlooked>>
<1>1. entry[c] \in Entry /\ c \in written
  BY RowFacts
     DEF RetryComment, UpdateComment, Known, QueueTypeOK, RowsKnown, Copies
<1>2. CASE RetryComment(c)
  <2> DEFINE e == [entry[c] EXCEPT !.status = "pending"]
  <2>1. e \in Entry /\ e.status = "pending"
    BY <1>1, <1>2, ChangedRow DEF RetryComment
  <2>2. call' = [at |-> "retry", todo |-> [NoComments EXCEPT ![c] = e]]
    BY <1>2 DEF RetryComment
  <2> HIDE DEF e
  <2>. QED
    <3>1. call' \in CallState /\ call'.at = "retry"
          /\ call'.todo = [NoComments EXCEPT ![c] = e]
      BY <2>1, <2>2, RowFacts DEF CallState, Copies
    <3>. QED
      BY <1>1, <1>2, <2>1, <3>1 DEF RetryComment
<1>3. CASE UpdateComment(c)
  BY <1>1, <1>3, RowFacts
     DEF UpdateComment, Known, RowsKnown, CallState, Copies
<1>. QED
  BY <1>2, <1>3

\* The member's call writes the one row it holds.
LEMMA SaveCallEffect ==
  ASSUME Known,
         SaveCall
  PROVE  \E c \in Comments :
           /\ call.todo[c] \in Entry
           /\ entry' = [entry EXCEPT ![c] = call.todo[c]]
           /\ Overlook(c, Passing \/ (call.at = "update" /\ Changed(c)))
           /\ call.at = "retry" => syncTimer' = (syncTimer \/ online)
           /\ call.at # "retry" => syncTimer' = syncTimer
           /\ call' \in CallState
           /\ \A d \in Comments : call'.todo[d] = Absent
           /\ call.at \in {"retry", "update"}
           /\ UNCHANGED <<online, sync, expiring, written, owed>>
<1>1. PICK c \in Queued(call.todo) :
        /\ Put(c, call.todo[c])
        /\ Overlook(c, Passing \/ (call.at = "update" /\ Changed(c)))
  BY DEF SaveCall
<1>2. c \in Comments /\ call.todo[c] \in Entry
  BY DEF Queued, Known, QueueTypeOK, CallState, Copies
<1>3. NoCall \in CallState /\ NoCall.todo = NoComments
  BY RowFacts DEF NoCall, CallState
<1>4. /\ call.at \in {"retry", "update"} /\ call' = NoCall
      /\ call.at = "retry" => syncTimer' = (syncTimer \/ online)
      /\ call.at # "retry" => syncTimer' = syncTimer
      /\ UNCHANGED <<online, sync, expiring, written, owed>>
  BY DEF SaveCall, ScheduleSync
<1>. QED
  BY <1>1, <1>2, <1>3, <1>4, RowFacts DEF Put

\* Types are preserved: what is posted has an attempt left to count.
LEMMA TypeStep ==
  ASSUME Known,
         [QueueNext]_queueVars
  PROVE  QueueTypeOK'
<1>1. ASSUME NEW c \in Comments, QueueComment(c)
      PROVE  QueueTypeOK'
  <2>1. written' = written \union {c} /\ owed' = owed \union {c} /\ expiring' = expiring
    BY <1>1 DEF QueueComment
  <2>2. c \notin written
    BY <1>1 DEF QueueComment
  <2>3. expiring' \subseteq written' \ owed' /\ owed' \subseteq written'
    BY <2>1, <2>2 DEF Known, QueueTypeOK
  <2>4. entry' \in Copies /\ syncTimer' \in BOOLEAN
    BY <1>1, NewRows
       DEF QueueComment, Put, ScheduleSync, Known, QueueTypeOK, Copies
  <2>. QED
    BY <1>1, <2>3, <2>4 DEF QueueComment, Known, QueueTypeOK
<1>2. ASSUME NEW c \in Comments, RetryComment(c)
      PROVE  QueueTypeOK'
  BY <1>2, CallEffect DEF Known, QueueTypeOK
<1>3. ASSUME NEW c \in Comments, UpdateComment(c)
      PROVE  QueueTypeOK'
  BY <1>3, CallEffect DEF Known, QueueTypeOK
<1>4. ASSUME NEW c \in Comments, ClearSynced(c)
      PROVE  QueueTypeOK'
  BY <1>4 DEF ClearSynced, Put, Known, QueueTypeOK, Copies
<1>5. ASSUME NEW c \in Comments, RemovalTimerFires(c)
      PROVE  QueueTypeOK'
  BY <1>5 DEF RemovalTimerFires, Put, Known, QueueTypeOK, Copies
<1>6. ASSUME NEW c \in Comments, MarkSyncing(c)
      PROVE  QueueTypeOK'
  <2>1. PICK e \in Entry :
          /\ e.status = "syncing"
          /\ entry' = [entry EXCEPT ![c] = e]
          /\ sync' \in PassState
          /\ sync'.at = "send" /\ sync'.current = c /\ sync'.more = sync.more
          /\ sync'.todo = [sync.todo EXCEPT ![c] = e]
          /\ sync.at = "next" /\ c \in written
    BY <1>6, MarkEffect
  <2>2. UNCHANGED <<online, syncTimer, call, expiring, written, owed, overlooked>>
    BY <1>6 DEF MarkSyncing
  <2>. QED
    BY <2>1, <2>2 DEF Known, QueueTypeOK, Copies
<1>7. ASSUME NEW cs \in SUBSET Comments, RemoveComments(cs)
      PROVE  QueueTypeOK'
  BY <1>7 DEF RemoveComments, Known, QueueTypeOK, Copies
<1>8. ASSUME SaveCall
      PROVE  QueueTypeOK'
  BY <1>8, SaveCallEffect DEF Known, QueueTypeOK, Copies
<1>9. ASSUME SyncTimerFires
      PROVE  QueueTypeOK'
  BY <1>9, BeginEffect DEF SyncTimerFires, Known, QueueTypeOK
<1>10. ASSUME GoOnline
       PROVE  QueueTypeOK'
  BY <1>10, BeginEffect DEF GoOnline, Known, QueueTypeOK
<1>11. ASSUME GoOffline
       PROVE  QueueTypeOK'
  BY <1>11 DEF GoOffline, Known, QueueTypeOK
<1>12. ASSUME SyncComment
       PROVE  QueueTypeOK'
  BY <1>12, SyncEffect DEF Known, QueueTypeOK
<1>13. ASSUME SaveOutcome
       PROVE  QueueTypeOK'
  <2> DEFINE k == sync.current
             e == sync.todo[k]
  <2>1. /\ sync.at = "save" /\ k \in Comments /\ e \in Entry
        /\ entry' = [entry EXCEPT ![k] = e]
        /\ sync' \in PassState
        /\ sync'.at = "next" /\ sync'.current = NoComment
        /\ sync'.more = (sync.more \/ Due(e))
        /\ sync'.todo = [sync.todo EXCEPT ![k] = Absent]
    BY <1>13, SaveEffect
  <2>2. /\ UNCHANGED <<online, syncTimer, call, written, owed, overlooked>>
        /\ expiring' = IF e.status = "synced" THEN expiring \union {k} ELSE expiring
    BY <1>13 DEF SaveOutcome
  <2>3. /\ e.status \in {"synced", "failed"} /\ (e.status = "synced" => k \notin owed)
        /\ k \in written
    BY <2>1 DEF Known, PassKnows, Passing
  <2> HIDE DEF e, k
  <2>. QED
    BY <2>1, <2>2, <2>3 DEF Known, QueueTypeOK, Copies
<1>14. ASSUME EndPass
       PROVE  QueueTypeOK'
  BY <1>14, RowFacts DEF EndPass, NoPass, Known, QueueTypeOK, PassState
<1>15. ASSUME Reload
       PROVE  QueueTypeOK'
  BY <1>15, RowFacts
     DEF Reload, NoPass, NoCall, Known, QueueTypeOK, PassState, CallState
<1>16. CASE UNCHANGED queueVars
  BY <1>16 DEF queueVars, Known, QueueTypeOK
<1>. QED
  BY StepCases, <1>1, <1>2, <1>3, <1>4, <1>5, <1>6, <1>7, <1>8, <1>9, <1>10,
     <1>11, <1>12, <1>13, <1>14, <1>15, <1>16

\* Rows stay known.
LEMMA RowsStep ==
  ASSUME Known,
         [QueueNext]_queueVars
  PROVE  RowsKnown'
<1>1. ASSUME NEW c \in Comments, QueueComment(c)
      PROVE  RowsKnown'
  <2> DEFINE new == [status |-> "pending", retryCount |-> 0]
  <2>1. entry' = [entry EXCEPT ![c] = new] /\ written' = written \union {c}
    BY <1>1 DEF QueueComment, Put
  <2> HIDE DEF new
  <2>. QED
    BY <2>1 DEF Known, RowsKnown
<1>2. ASSUME NEW c \in Comments, RetryComment(c)
      PROVE  RowsKnown'
  BY <1>2, CallEffect DEF Known, RowsKnown
<1>3. ASSUME NEW c \in Comments, UpdateComment(c)
      PROVE  RowsKnown'
  BY <1>3, CallEffect DEF Known, RowsKnown
<1>4. ASSUME NEW c \in Comments, ClearSynced(c)
      PROVE  RowsKnown'
  BY <1>4, RowFacts DEF ClearSynced, Put, Known, RowsKnown
<1>5. ASSUME NEW c \in Comments, RemovalTimerFires(c)
      PROVE  RowsKnown'
  BY <1>5, RowFacts DEF RemovalTimerFires, Put, Known, RowsKnown
<1>6. ASSUME NEW c \in Comments, MarkSyncing(c)
      PROVE  RowsKnown'
  <2>1. PICK e \in Entry :
          /\ e.status = "syncing"
          /\ entry' = [entry EXCEPT ![c] = e]
          /\ sync' \in PassState
          /\ sync'.at = "send" /\ sync'.current = c /\ sync'.more = sync.more
          /\ sync'.todo = [sync.todo EXCEPT ![c] = e]
          /\ sync.at = "next" /\ c \in written
    BY <1>6, MarkEffect
  <2>2. UNCHANGED <<online, syncTimer, call, expiring, written, owed, overlooked>>
    BY <1>6 DEF MarkSyncing
  <2>. QED
    BY <2>1, <2>2 DEF Known, RowsKnown
<1>7. ASSUME NEW cs \in SUBSET Comments, RemoveComments(cs)
      PROVE  RowsKnown'
  BY <1>7, RowFacts DEF RemoveComments, Known, RowsKnown
<1>8. ASSUME SaveCall
      PROVE  RowsKnown'
  <2>1. PICK c \in Comments :
          /\ call.todo[c] \in Entry
          /\ entry' = [entry EXCEPT ![c] = call.todo[c]]
          /\ Overlook(c, Passing \/ (call.at = "update" /\ Changed(c)))
          /\ call.at = "retry" => syncTimer' = (syncTimer \/ online)
          /\ call.at # "retry" => syncTimer' = syncTimer
          /\ call.at \in {"retry", "update"}
          /\ UNCHANGED <<online, sync, expiring, written, owed>>
    BY <1>8, SaveCallEffect
  <2>2. /\ c \in written
        /\ call.todo[c].status \in {"pending", "syncing", "failed"}
    BY <2>1 DEF Known, CallKnows, Entry
  <2>. QED
    BY <2>1, <2>2 DEF Known, RowsKnown
<1>9. ASSUME SyncTimerFires
      PROVE  RowsKnown'
  BY <1>9 DEF SyncTimerFires, Known, RowsKnown
<1>10. ASSUME GoOnline
       PROVE  RowsKnown'
  BY <1>10 DEF GoOnline, Known, RowsKnown
<1>11. ASSUME GoOffline
       PROVE  RowsKnown'
  BY <1>11 DEF GoOffline, Known, RowsKnown
<1>12. ASSUME SyncComment
       PROVE  RowsKnown'
  BY <1>12, SyncEffect DEF Known, RowsKnown
<1>13. ASSUME SaveOutcome
       PROVE  RowsKnown'
  <2> DEFINE k == sync.current
             e == sync.todo[k]
  <2>1. /\ sync.at = "save" /\ k \in Comments /\ e \in Entry
        /\ entry' = [entry EXCEPT ![k] = e]
        /\ sync' \in PassState
        /\ sync'.at = "next" /\ sync'.current = NoComment
        /\ sync'.more = (sync.more \/ Due(e))
        /\ sync'.todo = [sync.todo EXCEPT ![k] = Absent]
    BY <1>13, SaveEffect
  <2>2. /\ UNCHANGED <<online, syncTimer, call, written, owed, overlooked>>
        /\ expiring' = IF e.status = "synced" THEN expiring \union {k} ELSE expiring
    BY <1>13 DEF SaveOutcome
  <2>3. /\ e.status \in {"synced", "failed"} /\ (e.status = "synced" => k \notin owed)
        /\ k \in written
    BY <2>1 DEF Known, PassKnows, Passing
  <2> HIDE DEF e, k
  <2>. QED
    BY <2>1, <2>2, <2>3 DEF Known, RowsKnown
<1>14. ASSUME EndPass
       PROVE  RowsKnown'
  BY <1>14 DEF EndPass, Known, RowsKnown
<1>15. ASSUME Reload
       PROVE  RowsKnown'
  BY <1>15 DEF Reload, Known, RowsKnown
<1>16. CASE UNCHANGED queueVars
  BY <1>16 DEF queueVars, Known, RowsKnown
<1>. QED
  BY StepCases, <1>1, <1>2, <1>3, <1>4, <1>5, <1>6, <1>7, <1>8, <1>9, <1>10,
     <1>11, <1>12, <1>13, <1>14, <1>15, <1>16

\* What a call is to write stays known.
LEMMA CallStep ==
  ASSUME Known,
         [QueueNext]_queueVars
  PROVE  CallKnows'
<1>1. ASSUME NEW c \in Comments, QueueComment(c)
      PROVE  CallKnows'
  BY <1>1 DEF QueueComment, Known, CallKnows
<1>2. ASSUME NEW c \in Comments, RetryComment(c)
      PROVE  CallKnows'
  BY <1>2, CallEffect, RowFacts DEF CallKnows, Copies
<1>3. ASSUME NEW c \in Comments, UpdateComment(c)
      PROVE  CallKnows'
  BY <1>3, CallEffect, RowFacts DEF CallKnows, Copies
<1>4. ASSUME NEW c \in Comments, ClearSynced(c)
      PROVE  CallKnows'
  BY <1>4 DEF ClearSynced, Known, CallKnows
<1>5. ASSUME NEW c \in Comments, RemovalTimerFires(c)
      PROVE  CallKnows'
  BY <1>5 DEF RemovalTimerFires, Known, CallKnows
<1>6. ASSUME NEW c \in Comments, MarkSyncing(c)
      PROVE  CallKnows'
  BY <1>6 DEF MarkSyncing, Known, CallKnows
<1>7. ASSUME NEW cs \in SUBSET Comments, RemoveComments(cs)
      PROVE  CallKnows'
  BY <1>7 DEF RemoveComments, Known, CallKnows
<1>8. ASSUME SaveCall
      PROVE  CallKnows'
  BY <1>8, SaveCallEffect, RowFacts DEF CallKnows
<1>9. ASSUME SyncTimerFires
      PROVE  CallKnows'
  BY <1>9 DEF SyncTimerFires, Known, CallKnows
<1>10. ASSUME GoOnline
       PROVE  CallKnows'
  BY <1>10 DEF GoOnline, Known, CallKnows
<1>11. ASSUME GoOffline
       PROVE  CallKnows'
  BY <1>11 DEF GoOffline, Known, CallKnows
<1>12. ASSUME SyncComment
       PROVE  CallKnows'
  BY <1>12, SyncEffect DEF Known, CallKnows
<1>13. ASSUME SaveOutcome
       PROVE  CallKnows'
  BY <1>13 DEF SaveOutcome, Known, CallKnows
<1>14. ASSUME EndPass
       PROVE  CallKnows'
  BY <1>14 DEF EndPass, Known, CallKnows
<1>15. ASSUME Reload
       PROVE  CallKnows'
  BY <1>15, RowFacts DEF Reload, NoCall, CallKnows
<1>16. CASE UNCHANGED queueVars
  BY <1>16 DEF queueVars, Known, CallKnows
<1>. QED
  BY StepCases, <1>1, <1>2, <1>3, <1>4, <1>5, <1>6, <1>7, <1>8, <1>9, <1>10,
     <1>11, <1>12, <1>13, <1>14, <1>15, <1>16

\* A pass posts due rows, and calls synced what the server has.
LEMMA PassStep ==
  ASSUME Known,
         [QueueNext]_queueVars
  PROVE  PassKnows'
<1>1. ASSUME NEW c \in Comments, QueueComment(c)
      PROVE  PassKnows'
  BY <1>1 DEF QueueComment, Known, PassKnows, Passing
<1>2. ASSUME NEW c \in Comments, RetryComment(c)
      PROVE  PassKnows'
  BY <1>2 DEF RetryComment, Known, PassKnows, Passing
<1>3. ASSUME NEW c \in Comments, UpdateComment(c)
      PROVE  PassKnows'
  BY <1>3 DEF UpdateComment, Known, PassKnows, Passing
<1>4. ASSUME NEW c \in Comments, ClearSynced(c)
      PROVE  PassKnows'
  BY <1>4 DEF ClearSynced, Known, PassKnows, Passing
<1>5. ASSUME NEW c \in Comments, RemovalTimerFires(c)
      PROVE  PassKnows'
  BY <1>5 DEF RemovalTimerFires, Known, PassKnows, Passing
<1>6. ASSUME NEW c \in Comments, MarkSyncing(c)
      PROVE  PassKnows'
  <2>1. PICK e \in Entry :
          /\ e.status = "syncing"
          /\ entry' = [entry EXCEPT ![c] = e]
          /\ sync' \in PassState
          /\ sync'.at = "send" /\ sync'.current = c /\ sync'.more = sync.more
          /\ sync'.todo = [sync.todo EXCEPT ![c] = e]
          /\ sync.at = "next" /\ c \in written
    BY <1>6, MarkEffect
  <2>2. UNCHANGED <<online, syncTimer, call, expiring, written, owed, overlooked>>
    BY <1>6 DEF MarkSyncing
  <2>. QED
    BY <2>1, <2>2, RowFacts DEF Known, PassKnows, Passing, PassState, Copies
<1>7. ASSUME NEW cs \in SUBSET Comments, RemoveComments(cs)
      PROVE  PassKnows'
  BY <1>7 DEF RemoveComments, Known, PassKnows, Passing
<1>8. ASSUME SaveCall
      PROVE  PassKnows'
  BY <1>8, SaveCallEffect DEF Known, PassKnows, Passing
<1>9. ASSUME SyncTimerFires
      PROVE  PassKnows'
  <2>1. \/ UNCHANGED <<sync, overlooked>>
        \/ /\ sync'.at = "next" /\ sync'.current = NoComment
           /\ \A c \in Comments :
                sync'.todo[c] = IF Due(entry[c]) THEN entry[c] ELSE Absent
    BY <1>9, BeginEffect DEF SyncTimerFires
  <2>2. \A c \in Comments : Due(entry[c]) =>
          c \in written /\ entry[c].status # "absent"
    BY DEF Known, RowsKnown, Due
  <2>3. UNCHANGED <<written, owed>>
    BY <1>9, RowFacts DEF SyncTimerFires
  <2>. QED
    BY <2>1, <2>2, <2>3, RowFacts DEF Known, PassKnows, Passing
<1>10. ASSUME GoOnline
       PROVE  PassKnows'
  <2>1. \/ UNCHANGED <<sync, overlooked>>
        \/ /\ sync'.at = "next" /\ sync'.current = NoComment
           /\ \A c \in Comments :
                sync'.todo[c] = IF Due(entry[c]) THEN entry[c] ELSE Absent
    BY <1>10, BeginEffect DEF GoOnline
  <2>2. \A c \in Comments : Due(entry[c]) =>
          c \in written /\ entry[c].status # "absent"
    BY DEF Known, RowsKnown, Due
  <2>3. UNCHANGED <<written, owed>>
    BY <1>10, RowFacts DEF GoOnline
  <2>. QED
    BY <2>1, <2>2, <2>3, RowFacts DEF Known, PassKnows, Passing
<1>11. ASSUME GoOffline
       PROVE  PassKnows'
  BY <1>11 DEF GoOffline, Known, PassKnows, Passing
<1>12. ASSUME SyncComment
       PROVE  PassKnows'
  <2>1. PICK e \in Entry :
          /\ e.status \in {"synced", "failed"}
          /\ e.status = "synced" => sync.current \notin owed'
          /\ owed' \subseteq owed
          /\ sync' \in PassState
          /\ sync'.at = "save" /\ sync'.current = sync.current /\ sync'.more = sync.more
          /\ sync'.todo = [sync.todo EXCEPT ![sync.current] = e]
          /\ sync.at = "send"
          /\ UNCHANGED <<entry, online, syncTimer, call, expiring, written, overlooked>>
    BY <1>12, SyncEffect
  <2>2. sync.current \in Comments
    BY <2>1 DEF Known, PassKnows
  <2>. QED
    BY <2>1, <2>2 DEF Known, PassKnows, Passing, PassState, Copies
<1>13. ASSUME SaveOutcome
       PROVE  PassKnows'
  BY <1>13, RowFacts
     DEF SaveOutcome, Known, PassKnows, Passing, QueueTypeOK, PassState,
         Copies
<1>14. ASSUME EndPass
       PROVE  PassKnows'
  BY <1>14, RowFacts DEF EndPass, NoPass, PassKnows
<1>15. ASSUME Reload
       PROVE  PassKnows'
  BY <1>15, RowFacts DEF Reload, NoPass, PassKnows
<1>16. CASE UNCHANGED queueVars
  BY <1>16 DEF queueVars, Known, PassKnows, Passing
<1>. QED
  BY StepCases, <1>1, <1>2, <1>3, <1>4, <1>5, <1>6, <1>7, <1>8, <1>9, <1>10,
     <1>11, <1>12, <1>13, <1>14, <1>15, <1>16

\* Nothing but the server's answer makes a row synced.
LEMMA KeptStep ==
  ASSUME Known,
         UnpostedIsKept,
         [QueueNext]_queueVars
  PROVE  UnpostedIsKept'
<1>1. ASSUME NEW c \in Comments, QueueComment(c)
      PROVE  UnpostedIsKept'
  BY <1>1 DEF QueueComment, Put, Known, UnpostedIsKept, QueueTypeOK, Copies
<1>2. ASSUME NEW c \in Comments, RetryComment(c)
      PROVE  UnpostedIsKept'
  BY <1>2, CallEffect DEF UnpostedIsKept
<1>3. ASSUME NEW c \in Comments, UpdateComment(c)
      PROVE  UnpostedIsKept'
  BY <1>3, CallEffect DEF UnpostedIsKept
<1>4. ASSUME NEW c \in Comments, ClearSynced(c)
      PROVE  UnpostedIsKept'
  BY <1>4 DEF ClearSynced, Put, UnpostedIsKept
<1>5. ASSUME NEW c \in Comments, RemovalTimerFires(c)
      PROVE  UnpostedIsKept'
  BY <1>5 DEF RemovalTimerFires, Put, Known, UnpostedIsKept, QueueTypeOK
<1>6. ASSUME NEW c \in Comments, MarkSyncing(c)
      PROVE  UnpostedIsKept'
  <2>1. PICK e \in Entry :
          /\ e.status = "syncing"
          /\ entry' = [entry EXCEPT ![c] = e]
          /\ sync' \in PassState
          /\ sync'.at = "send" /\ sync'.current = c /\ sync'.more = sync.more
          /\ sync'.todo = [sync.todo EXCEPT ![c] = e]
          /\ sync.at = "next" /\ c \in written
    BY <1>6, MarkEffect
  <2>2. UNCHANGED <<online, syncTimer, call, expiring, written, owed, overlooked>>
    BY <1>6 DEF MarkSyncing
  <2>. QED
    BY <2>1, <2>2 DEF UnpostedIsKept
<1>7. ASSUME NEW cs \in SUBSET Comments, RemoveComments(cs)
      PROVE  UnpostedIsKept'
  <2>1. \A c \in owed' : c \notin cs /\ c \in owed
    BY <1>7 DEF RemoveComments
  <2>2. \A c \in Comments \ cs : entry'[c] = entry[c]
    BY <1>7 DEF RemoveComments
  <2>3. owed \subseteq Comments
    BY DEF Known, RowsKnown, QueueTypeOK
  <2>. QED
    BY <2>1, <2>2, <2>3 DEF UnpostedIsKept
<1>8. ASSUME SaveCall
      PROVE  UnpostedIsKept'
  <2>1. PICK c \in Comments :
          /\ call.todo[c] \in Entry
          /\ entry' = [entry EXCEPT ![c] = call.todo[c]]
          /\ Overlook(c, Passing \/ (call.at = "update" /\ Changed(c)))
          /\ call.at = "retry" => syncTimer' = (syncTimer \/ online)
          /\ call.at # "retry" => syncTimer' = syncTimer
          /\ call.at \in {"retry", "update"}
          /\ UNCHANGED <<online, sync, expiring, written, owed>>
    BY <1>8, SaveCallEffect
  <2>2. /\ c \in written
        /\ call.todo[c].status \in {"pending", "syncing", "failed"}
    BY <2>1 DEF Known, CallKnows, Entry
  <2>. QED
    BY <2>1, <2>2 DEF UnpostedIsKept
<1>9. ASSUME SyncTimerFires
      PROVE  UnpostedIsKept'
  BY <1>9 DEF SyncTimerFires, UnpostedIsKept
<1>10. ASSUME GoOnline
       PROVE  UnpostedIsKept'
  BY <1>10 DEF GoOnline, UnpostedIsKept
<1>11. ASSUME GoOffline
       PROVE  UnpostedIsKept'
  BY <1>11 DEF GoOffline, UnpostedIsKept
<1>12. ASSUME SyncComment
       PROVE  UnpostedIsKept'
  BY <1>12, SyncEffect DEF UnpostedIsKept
<1>13. ASSUME SaveOutcome
       PROVE  UnpostedIsKept'
  <2> DEFINE k == sync.current
             e == sync.todo[k]
  <2>1. /\ sync.at = "save" /\ k \in Comments /\ e \in Entry
        /\ entry' = [entry EXCEPT ![k] = e]
        /\ sync' \in PassState
        /\ sync'.at = "next" /\ sync'.current = NoComment
        /\ sync'.more = (sync.more \/ Due(e))
        /\ sync'.todo = [sync.todo EXCEPT ![k] = Absent]
    BY <1>13, SaveEffect
  <2>2. /\ UNCHANGED <<online, syncTimer, call, written, owed, overlooked>>
        /\ expiring' = IF e.status = "synced" THEN expiring \union {k} ELSE expiring
    BY <1>13 DEF SaveOutcome
  <2>3. /\ e.status \in {"synced", "failed"} /\ (e.status = "synced" => k \notin owed)
        /\ k \in written
    BY <2>1 DEF Known, PassKnows, Passing
  <2> HIDE DEF e, k
  <2>. QED
    BY <2>1, <2>2, <2>3 DEF UnpostedIsKept
<1>14. ASSUME EndPass
       PROVE  UnpostedIsKept'
  BY <1>14 DEF EndPass, UnpostedIsKept
<1>15. ASSUME Reload
       PROVE  UnpostedIsKept'
  BY <1>15 DEF Reload, UnpostedIsKept
<1>16. CASE UNCHANGED queueVars
  BY <1>16 DEF queueVars, UnpostedIsKept
<1>. QED
  BY StepCases, <1>1, <1>2, <1>3, <1>4, <1>5, <1>6, <1>7, <1>8, <1>9, <1>10,
     <1>11, <1>12, <1>13, <1>14, <1>15, <1>16

\* A due comment stays before a pass, or behind a timer.
LEMMA ScheduledStep ==
  ASSUME Known,
         Scheduled,
         [QueueNext]_queueVars
  PROVE  Scheduled'
<1>1. ASSUME NEW c \in Comments, QueueComment(c)
      PROVE  Scheduled'
  BY <1>1
     DEF QueueComment, Put, Overlook, ScheduleSync, Known, Scheduled, Passing,
         QueueTypeOK
<1>2. ASSUME NEW c \in Comments, RetryComment(c)
      PROVE  Scheduled'
  BY <1>2, CallEffect DEF Known, Scheduled, Passing, QueueTypeOK
<1>3. ASSUME NEW c \in Comments, UpdateComment(c)
      PROVE  Scheduled'
  BY <1>3, CallEffect DEF Known, Scheduled, Passing, QueueTypeOK
<1>4. ASSUME NEW c \in Comments, ClearSynced(c)
      PROVE  Scheduled'
  BY <1>4, RowFacts DEF ClearSynced, Put, Scheduled, Passing, Due
<1>5. ASSUME NEW c \in Comments, RemovalTimerFires(c)
      PROVE  Scheduled'
  BY <1>5, RowFacts DEF RemovalTimerFires, Put, Scheduled, Passing, Due
<1>6. ASSUME NEW c \in Comments, MarkSyncing(c)
      PROVE  Scheduled'
  <2>1. PICK e \in Entry :
          /\ e.status = "syncing"
          /\ entry' = [entry EXCEPT ![c] = e]
          /\ sync' \in PassState
          /\ sync'.at = "send" /\ sync'.current = c /\ sync'.more = sync.more
          /\ sync'.todo = [sync.todo EXCEPT ![c] = e]
          /\ sync.at = "next" /\ c \in written
    BY <1>6, MarkEffect
  <2>2. UNCHANGED <<online, syncTimer, call, expiring, written, owed, overlooked>>
    BY <1>6 DEF MarkSyncing
  <2>. QED
    BY <2>1, <2>2 DEF Scheduled, Passing, Due
<1>7. ASSUME NEW cs \in SUBSET Comments, RemoveComments(cs)
      PROVE  Scheduled'
  BY <1>7, RowFacts DEF RemoveComments, Scheduled, Passing, Due
<1>8. ASSUME SaveCall
      PROVE  Scheduled'
  <2>1. PICK c \in Comments :
          /\ call.todo[c] \in Entry
          /\ entry' = [entry EXCEPT ![c] = call.todo[c]]
          /\ Overlook(c, Passing \/ (call.at = "update" /\ Changed(c)))
          /\ call.at = "retry" => syncTimer' = (syncTimer \/ online)
          /\ call.at # "retry" => syncTimer' = syncTimer
          /\ call.at \in {"retry", "update"}
          /\ UNCHANGED <<online, sync, expiring, written, owed>>
    BY <1>8, SaveCallEffect
  <2>2. /\ c \in written
        /\ call.todo[c].status \in {"pending", "syncing", "failed"}
    BY <2>1 DEF Known, CallKnows, Entry
  <2>3. \A d \in Comments \ {c} : entry'[d] = entry[d]
    BY <2>1
  <2>. QED
    BY <2>1, <2>3
       DEF Overlook, Changed, Scheduled, Passing, Known, QueueTypeOK
<1>9. ASSUME SyncTimerFires
      PROVE  Scheduled'
  BY <1>9, BeginEffect DEF SyncTimerFires, Scheduled, Passing, Due
<1>10. ASSUME GoOnline
       PROVE  Scheduled'
  BY <1>10, BeginEffect DEF GoOnline, Scheduled, Passing, Due
<1>11. ASSUME GoOffline
       PROVE  Scheduled'
  BY <1>11 DEF GoOffline, Scheduled, Passing
<1>12. ASSUME SyncComment
       PROVE  Scheduled'
  BY <1>12, SyncEffect DEF Scheduled, Passing, PassState, Copies
<1>13. ASSUME SaveOutcome
       PROVE  Scheduled'
  <2> DEFINE k == sync.current
             e == sync.todo[k]
  <2>1. /\ sync.at = "save" /\ k \in Comments /\ e \in Entry
        /\ entry' = [entry EXCEPT ![k] = e]
        /\ sync' \in PassState
        /\ sync'.at = "next" /\ sync'.current = NoComment
        /\ sync'.more = (sync.more \/ Due(e))
        /\ sync'.todo = [sync.todo EXCEPT ![k] = Absent]
    BY <1>13, SaveEffect
  <2>2. /\ UNCHANGED <<online, syncTimer, call, written, owed, overlooked>>
        /\ expiring' = IF e.status = "synced" THEN expiring \union {k} ELSE expiring
    BY <1>13 DEF SaveOutcome
  <2>3. /\ e.status \in {"synced", "failed"} /\ (e.status = "synced" => k \notin owed)
        /\ k \in written
    BY <2>1 DEF Known, PassKnows, Passing
  <2> HIDE DEF e, k
  <2>. QED
    BY <2>1, <2>2, <2>3
       DEF Known, Scheduled, Passing, QueueTypeOK, PassState, Copies
<1>14. ASSUME EndPass
       PROVE  Scheduled'
  <2>1. NoPass.at = "idle" /\ \A c \in Comments : sync.todo[c].status = "absent"
    BY <1>14, RowFacts DEF NoPass, EndPass, Queued
  <2>. QED
    BY <1>14, <2>1 DEF EndPass, Scheduled, Passing
<1>15. ASSUME Reload
       PROVE  Scheduled'
  <2>1. \A c \in Comments : Due(entry[c]) => entry[c] # Absent
    BY RowFacts DEF Due
  <2>. QED
    BY <1>15, <2>1 DEF Reload, Queued, Scheduled
<1>16. CASE UNCHANGED queueVars
  BY <1>16 DEF queueVars, Scheduled, Passing
<1>. QED
  BY StepCases, <1>1, <1>2, <1>3, <1>4, <1>5, <1>6, <1>7, <1>8, <1>9, <1>10,
     <1>11, <1>12, <1>13, <1>14, <1>15, <1>16

\* Nothing is written at the start.
LEMMA InvariantInit == QueueInit => IInv
<1> SUFFICES ASSUME QueueInit PROVE IInv
  OBVIOUS
<1>1. QueueTypeOK
  BY RowFacts DEF QueueInit, QueueTypeOK, PassState, CallState, NoPass, NoCall
<1>2. \A c \in Comments : entry[c] = Absent /\ call.todo[c] = Absent /\ sync.todo[c] = Absent
  BY RowFacts DEF QueueInit, NoPass, NoCall
<1>3. sync.at = "idle" /\ ~Due(Absent)
  BY DEF QueueInit, NoPass, Due, Absent
<1>4. RowsKnown /\ CallKnows /\ PassKnows
  BY <1>2, <1>3, RowFacts DEF QueueInit, RowsKnown, CallKnows, PassKnows
<1>5. UnpostedIsKept /\ Scheduled
  BY <1>2, <1>3 DEF QueueInit, UnpostedIsKept, Scheduled
<1>. QED
  BY <1>1, <1>4, <1>5 DEF IInv, Known

\* Every step keeps what is known, every comment, and every schedule.
LEMMA InvariantStep == IInv /\ [QueueNext]_queueVars => IInv'
<1> SUFFICES ASSUME IInv, [QueueNext]_queueVars PROVE IInv'
  OBVIOUS
<1>1. Known'
  BY TypeStep, RowsStep, CallStep, PassStep DEF IInv, Known
<1>. QED
  BY <1>1, KeptStep, ScheduledStep DEF IInv

\* The whole is an invariant of every behaviour.
LEMMA QueueInvariant == QueueSpec => []IInv
  BY InvariantInit, InvariantStep, PTL DEF QueueSpec

\* Rows and the copies of them that calls and passes hold are well formed, and
\* a removal timer runs only for a comment that the server accepted or the
\* member removed.
THEOREM QueueTypeCorrect == QueueSpec => []QueueTypeOK
<1>1. IInv => QueueTypeOK
  BY DEF IInv, Known
<1>. QED
  BY <1>1, QueueInvariant, PTL

\* For any number of comments none is lost, through calls, passes and reloads
\* in any order, before the server has accepted it.
THEOREM CommentsKept == QueueSpec => []UnpostedIsKept
<1>1. IInv => UnpostedIsKept
  BY DEF IInv
<1>. QED
  BY <1>1, QueueInvariant, PTL

\* A due comment that no exception covers has an attempt scheduled.
THEOREM DueCommentsScheduled == QueueSpec => []DueIsScheduled
<1>1. IInv => DueIsScheduled
  BY DEF IInv, Scheduled, DueIsScheduled
<1>. QED
  BY <1>1, QueueInvariant, PTL

=============================================================================
