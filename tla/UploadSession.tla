--------------------------- MODULE UploadSession ---------------------------
(***************************************************************************)
(* One chunked upload session as the API serves it: the upload_sessions    *)
(* row, the part objects and the assembled object in the object store, and *)
(* the requests that work on them (packages/uploads).                      *)
(*                                                                         *)
(* UploadService holds no lock and opens no transaction.  Each request     *)
(* reads the row once, validates against that snapshot, touches the object *)
(* store, and finally overwrites the row with what it computed from the    *)
(* snapshot.  A step below is one awaited call, so the requests interleave *)
(* as they do in the server.                                               *)
(***************************************************************************)
EXTENDS Naturals, FiniteSets

CONSTANTS
  TotalParts,  \* parts the client announced for the session (totalParts)
  Requests     \* slots for requests in flight at once

ASSUME TotalPartsAssumption == TotalParts \in Nat \ {0}

VARIABLES
  row,        \* the upload_sessions row: its status and received parts
  parts,      \* part numbers whose bytes are in the object store
  object,     \* part numbers the assembled object was built from, {} if none
  req,        \* per slot: where the request is and what it read
  acked,      \* history: parts whose upload request returned success
  abandoned   \* history: some abort passed its status check

vars == <<row, parts, object, req, acked, abandoned>>
history == <<acked, abandoned>>

Parts == 1..TotalParts
Statuses == {"absent", "pending", "completed", "aborted"}
Row == [status: Statuses, received: SUBSET Parts]

\* pc: the next awaited call of the request; n: the part it concerns; got: the
\* parts complete() has read into memory.
Pcs == {"idle", "putPart", "savePart",
        "gather", "putObject", "deleteParts", "saveCompleted", "completed",
        "dropParts"}
Request == [pc: Pcs, snap: Row, n: 1..(TotalParts + 1), got: SUBSET Parts]

NoRow == [status |-> "absent", received |-> {}]
Idle == [pc |-> "idle", snap |-> NoRow, n |-> 1, got |-> {}]
Whole == Parts

TypeOK ==
  /\ row \in Row
  /\ parts \subseteq Parts
  /\ object \subseteq Parts
  /\ req \in [Requests -> Request]
  /\ acked \subseteq Parts
  /\ abandoned \in BOOLEAN

Init ==
  /\ row = NoRow
  /\ parts = {}
  /\ object = {}
  /\ req = [r \in Requests |-> Idle]
  /\ acked = {}
  /\ abandoned = FALSE

At(r, pc) == req[r].pc = pc
Goto(r, pc) == req' = [req EXCEPT ![r].pc = pc]
Finish(r) == req' = [req EXCEPT ![r] = Idle]

\* A handler reads the row once; all it decides later comes from this snapshot.
Start(r, pc, n) ==
  req' = [req EXCEPT ![r] = [pc |-> pc, snap |-> row, n |-> n, got |-> {}]]

----------------------------------------------------------------------------
(* Domain rules: what UploadSession's methods decide on a snapshot.        *)

\* Faulty variant: the part number is not checked.
CanReceiveUnchecked(s, n) == s.status = "pending"

CanReceive(s, n) == s.status = "pending" /\ n \in Parts
\* Faulty variant: the new receipt replaces the earlier ones.
ReceivedOnly(s, n) == [s EXCEPT !.received = {n}]

Received(s, n) == [s EXCEPT !.received = @ \union {n}]
IsComplete(s) == Cardinality(s.received) = TotalParts
CanComplete(s) == s.status = "pending" /\ IsComplete(s)
\* Faulty variant: a completed session can still be aborted.
CanAbortCompleted(s) == s.status \in {"pending", "completed"}

CanAbort(s) == s.status = "pending"

----------------------------------------------------------------------------
(* begin: insert the pending row.                                          *)

Begin(r) ==
  /\ At(r, "idle")
  /\ row.status = "absent"
  /\ row' = [status |-> "pending", received |-> {}]
  /\ UNCHANGED <<parts, object, req, history>>

(* uploadPart: read and validate; put the bytes; save the receipt.         *)

UploadPart(r) ==
  /\ At(r, "idle")
  /\ \E n \in 0..(TotalParts + 1) :
       CanReceive(row, n) /\ Start(r, "putPart", n)
  /\ UNCHANGED <<row, parts, object, history>>

PutPart(r) ==
  /\ At(r, "putPart")
  /\ parts' = parts \union {req[r].n}
  /\ Goto(r, "savePart")
  /\ UNCHANGED <<row, object, history>>

SavePart(r) ==
  /\ At(r, "savePart")
  /\ row' = Received(req[r].snap, req[r].n)
  /\ acked' = acked \union {req[r].n}
  /\ Finish(r)
  /\ UNCHANGED <<parts, object, abandoned>>

(* complete: read and validate; read the parts in order; write the         *)
(* assembled object; delete the parts; save the completed row.             *)

Complete(r) ==
  /\ At(r, "idle")
  /\ CanComplete(row)
  /\ Start(r, "gather", 1)
  /\ UNCHANGED <<row, parts, object, history>>

\* Faulty variant: a missing part is skipped.
GatherSkipping(r) ==
  /\ At(r, "gather")
  /\ LET n == req[r].n IN
       req' = [req EXCEPT ![r].pc  = IF n = TotalParts THEN "putObject"
                                                      ELSE "gather",
                          ![r].n   = IF n = TotalParts THEN 1 ELSE n + 1,
                          ![r].got = @ \union ({n} \intersect parts)]
  /\ UNCHANGED <<row, parts, object, history>>

\* A missing part ends the request with 404 and changes nothing.
Gather(r) ==
  /\ At(r, "gather")
  /\ LET n == req[r].n IN
       IF n \notin parts
         THEN Finish(r)
         ELSE req' = [req EXCEPT ![r].pc  = IF n = TotalParts THEN "putObject"
                                                             ELSE "gather",
                                 ![r].n = IF n = TotalParts THEN 1 ELSE n + 1,
                                 ![r].got = @ \union {n}]
  /\ UNCHANGED <<row, parts, object, history>>

\* Faulty variant: the write is not awaited, so a failed one goes unnoticed.
PutObjectUnawaited(r) ==
  /\ At(r, "putObject")
  /\ object' \in {object, req[r].got}
  /\ Goto(r, "deleteParts")
  /\ UNCHANGED <<row, parts, history>>

PutObject(r) ==
  /\ At(r, "putObject")
  /\ object' = req[r].got
  /\ Goto(r, "deleteParts")
  /\ UNCHANGED <<row, parts, history>>

DeletePart(r) ==
  /\ At(r, "deleteParts")
  /\ LET n == req[r].n IN
       /\ parts' = parts \ {n}
       /\ req' = [req EXCEPT ![r].pc = IF n = TotalParts THEN "saveCompleted"
                                                         ELSE "deleteParts",
                             ![r].n  = n + 1]
  /\ UNCHANGED <<row, object, history>>

\* Faulty variant: the session is saved as it was read.
SaveUncompleted(r) ==
  /\ At(r, "saveCompleted")
  /\ row' = req[r].snap
  /\ Goto(r, "completed")
  /\ UNCHANGED <<parts, object, history>>

SaveCompleted(r) ==
  /\ At(r, "saveCompleted")
  /\ row' = [req[r].snap EXCEPT !.status = "completed"]
  /\ Goto(r, "completed")
  /\ UNCHANGED <<parts, object, history>>

\* The result goes back to the uploads.complete operation of the API.
CompleteReturns(r) ==
  /\ At(r, "completed")
  /\ Finish(r)
  /\ UNCHANGED <<row, parts, object, history>>

(* abort: read and validate; delete the parts the snapshot names; save.    *)

Abort(r) ==
  /\ At(r, "idle")
  /\ CanAbort(row)
  /\ Start(r, "dropParts", 1)
  /\ abandoned' = TRUE
  /\ UNCHANGED <<row, parts, object, acked>>

\* The received parts of the snapshot that abort() has not deleted yet.
ToDrop(r) == {n \in req[r].snap.received : n >= req[r].n}

DropPart(r) ==
  /\ At(r, "dropParts")
  /\ \E n \in ToDrop(r) :
       /\ \A m \in ToDrop(r) : n <= m
       /\ parts' = parts \ {n}
       /\ req' = [req EXCEPT ![r].n = n + 1]
  /\ UNCHANGED <<row, object, history>>

SaveAborted(r) ==
  /\ At(r, "dropParts")
  /\ ToDrop(r) = {}
  /\ row' = [req[r].snap EXCEPT !.status = "aborted"]
  /\ Finish(r)
  /\ UNCHANGED <<parts, object, history>>

\* A rejected storage or database call, or the death of the process, ends the
\* request at any await; nothing it already wrote is undone.
Interrupt(r) ==
  /\ ~At(r, "idle")
  /\ Finish(r)
  /\ UNCHANGED <<row, parts, object, history>>

----------------------------------------------------------------------------
CompleteSteps(r) ==
  \/ Complete(r) \/ Gather(r) \/ PutObject(r) \/ DeletePart(r)
  \/ SaveCompleted(r)

\* Every step of the service except handing a completed session to its caller.
ServiceStep(r) ==
  \/ Begin(r)
  \/ UploadPart(r) \/ PutPart(r) \/ SavePart(r)
  \/ CompleteSteps(r)
  \/ Abort(r) \/ DropPart(r) \/ SaveAborted(r)
  \/ Interrupt(r)

Next == \E r \in Requests : ServiceStep(r) \/ CompleteReturns(r)

Spec == Init /\ [][Next]_vars

----------------------------------------------------------------------------
(* Properties *)

\* A session recorded as completed has its assembled object in the store, built
\* from every part: whatever interleaves with complete(), the row never claims
\* a recording that playback and processing cannot read.
CompletedHasObject == row.status = "completed" => object = Whole

\* complete() deletes the parts only after the assembled object is stored, and
\* uploadPart() acknowledges only stored bytes: unless the owner aborted, every
\* part the client was told is received, and every part the row records, is
\* still in the store, as a part or inside the object.
NoAcknowledgedByteLost ==
  ~abandoned => \/ object = Whole
                \/ acked \union row.received \subseteq parts

\* The domain model calls completed and aborted terminal: no request may move
\* a session out of them.
TerminalIsFinal ==
  [][row.status \in {"completed", "aborted"} => row'.status = row.status]_vars

\* uploadPart() "stores one part and records its receipt": a part the client
\* was told is received stays recorded while the session is pending.
AckedIsRecorded == row.status = "pending" => acked \subseteq row.received

\* As long as its client sends one request at a time, a session implements what
\* it promises: its bytes are those of the assembled object, once that is whole,
\* and of the parts before.
Promise == INSTANCE SessionPromise WITH
  status <- row.status,
  received <- row.received,
  kept <- IF object = Whole THEN Parts ELSE parts

ImplementsPromise == Promise!Spec

=============================================================================
