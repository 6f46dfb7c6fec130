------------------------ MODULE UploadSession_proofs ------------------------
(***************************************************************************)
(* Proofs that UploadSession is type correct and that, for any number of   *)
(* parts and of concurrent requests, a completed session has its object    *)
(* and no acknowledged byte is lost; and that for a client with one        *)
(* request at a time it implements SessionPromise.                         *)
(***************************************************************************)
EXTENDS UploadSession, FiniteSetTheorems, TLAPS

\* What a request at each await knows about the store.  A request only ever
\* runs on a snapshot that was pending.
RequestKnows(r) ==
  /\ ~At(r, "idle") => req[r].snap.status = "pending"
  /\ req[r].pc \in
       {"putPart", "savePart", "gather", "putObject", "deleteParts"}
       => req[r].n \in Parts
  /\ At(r, "gather") => req[r].got = 1..(req[r].n - 1)
  /\ At(r, "putObject") => req[r].got = Whole
  /\ req[r].pc \in {"deleteParts", "saveCompleted", "completed"}
       => object = Whole
  /\ At(r, "dropParts") => abandoned

\* The bytes behind the receipts a request holds but has not saved yet.
RequestBacked(r) ==
  /\ req[r].snap.received \subseteq parts
  /\ At(r, "savePart") => req[r].n \in parts

Backed ==
  ~abandoned => \/ object = Whole
                \/ /\ acked \subseteq parts
                   /\ row.received \subseteq parts
                   /\ \A r \in Requests : RequestBacked(r)

IInv ==
  /\ TypeOK
  /\ CompletedHasObject
  /\ \A r \in Requests : RequestKnows(r)
  /\ Backed

----------------------------------------------------------------------------
\* Every step is one of the actions, taken by one request, or changes nothing.
LEMMA StepCases ==
  ASSUME [Next]_vars
  PROVE  \/ \E r \in Requests :
              \/ Begin(r)
              \/ UploadPart(r)
              \/ PutPart(r)
              \/ SavePart(r)
              \/ Complete(r)
              \/ Gather(r)
              \/ PutObject(r)
              \/ DeletePart(r)
              \/ SaveCompleted(r)
              \/ CompleteReturns(r)
              \/ Abort(r)
              \/ DropPart(r)
              \/ SaveAborted(r)
              \/ Interrupt(r)
         \/ UNCHANGED vars
  BY DEF Next, ServiceStep, CompleteSteps

\* A request that is not running has the type of a request.
LEMMA IdleTyped == Idle \in Request
  BY TotalPartsAssumption DEF Idle, NoRow, Request, Row, Statuses, Pcs, Parts

\* Types are preserved, given that the requests keep their part numbers.
LEMMA TypeStep ==
  ASSUME TypeOK,
         \A r \in Requests : RequestKnows(r),
         [Next]_vars
  PROVE  TypeOK'
<1>1. ASSUME NEW r \in Requests, Begin(r)
      PROVE  TypeOK'
  BY <1>1, TotalPartsAssumption
     DEF Begin, RequestKnows, TypeOK, Row, Statuses, Request, Pcs, Idle, NoRow,
         Parts, At, history
<1>2. ASSUME NEW r \in Requests, UploadPart(r)
      PROVE  TypeOK'
  BY <1>2, TotalPartsAssumption
     DEF UploadPart, Start, CanReceive, RequestKnows, TypeOK, Row, Statuses,
         Request, Pcs, Idle, NoRow, Parts, At, history
<1>3. ASSUME NEW r \in Requests, PutPart(r)
      PROVE  TypeOK'
  <2>1. parts' \subseteq Parts
    BY <1>3 DEF PutPart, RequestKnows, At, TypeOK
  <2>2. req' \in [Requests -> Request]
    BY <1>3 DEF PutPart, Goto, TypeOK, Request, Pcs
  <2>. QED
    BY <1>3, <2>1, <2>2 DEF PutPart, TypeOK, history
<1>4. ASSUME NEW r \in Requests, SavePart(r)
      PROVE  TypeOK'
  BY <1>4, TotalPartsAssumption
     DEF SavePart, Received, Finish, RequestKnows, TypeOK, Row, Statuses,
         Request, Pcs, Idle, NoRow, Parts, At, history
<1>5. ASSUME NEW r \in Requests, Complete(r)
      PROVE  TypeOK'
  BY <1>5, TotalPartsAssumption
     DEF Complete, Start, RequestKnows, TypeOK, Row, Statuses, Request, Pcs,
         Idle, NoRow, Parts, At, history
<1>6. ASSUME NEW r \in Requests, Gather(r)
      PROVE  TypeOK'
  <2>1. req' \in [Requests -> Request]
    BY <1>6, TotalPartsAssumption
       DEF Gather, Finish, RequestKnows, TypeOK, Request, Row, Statuses, Pcs,
           Parts, At, Idle, NoRow
  <2>. QED
    BY <1>6, <2>1 DEF Gather, TypeOK, history
<1>7. ASSUME NEW r \in Requests, PutObject(r)
      PROVE  TypeOK'
  <2>1. object' \subseteq Parts
    BY <1>7 DEF PutObject, TypeOK, Request
  <2>2. req' \in [Requests -> Request]
    BY <1>7 DEF PutObject, Goto, TypeOK, Request, Pcs
  <2>. QED
    BY <1>7, <2>1, <2>2 DEF PutObject, TypeOK, history
<1>8. ASSUME NEW r \in Requests, DeletePart(r)
      PROVE  TypeOK'
  BY <1>8, TotalPartsAssumption
     DEF DeletePart, RequestKnows, TypeOK, Row, Statuses, Request, Pcs, Idle,
         NoRow, Parts, At, history
<1>9. ASSUME NEW r \in Requests, SaveCompleted(r)
      PROVE  TypeOK'
  <2>1. row' \in Row
    BY <1>9 DEF SaveCompleted, TypeOK, Request, Row, Statuses
  <2>2. req' \in [Requests -> Request]
    BY <1>9 DEF SaveCompleted, Goto, TypeOK, Request, Pcs
  <2>. QED
    BY <1>9, <2>1, <2>2 DEF SaveCompleted, TypeOK, history
<1>10. ASSUME NEW r \in Requests, CompleteReturns(r)
      PROVE  TypeOK'
  BY <1>10, TotalPartsAssumption
     DEF CompleteReturns, Finish, RequestKnows, TypeOK, Row, Statuses, Request,
         Pcs, Idle, NoRow, Parts, At, history
<1>11. ASSUME NEW r \in Requests, Abort(r)
      PROVE  TypeOK'
  BY <1>11, TotalPartsAssumption
     DEF Abort, Start, RequestKnows, TypeOK, Row, Statuses, Request, Pcs, Idle,
         NoRow, Parts, At, history
<1>12. ASSUME NEW r \in Requests, DropPart(r)
      PROVE  TypeOK'
  <2>1. PICK n \in ToDrop(r) : /\ parts' = parts \ {n}
                              /\ req' = [req EXCEPT ![r].n = n + 1]
    BY <1>12 DEF DropPart
  <2>2. n \in Parts
    BY DEF ToDrop, TypeOK, Request, Row
  <2>3. req' \in [Requests -> Request]
    BY <2>1, <2>2, TotalPartsAssumption DEF TypeOK, Request, Parts
  <2>. QED
    BY <1>12, <2>1, <2>3 DEF DropPart, TypeOK, history
<1>13. ASSUME NEW r \in Requests, SaveAborted(r)
      PROVE  TypeOK'
  <2>1. row' \in Row
    BY <1>13 DEF SaveAborted, TypeOK, Request, Row, Statuses
  <2>2. req' \in [Requests -> Request]
    BY <1>13, IdleTyped DEF SaveAborted, Finish, TypeOK
  <2>. QED
    BY <1>13, <2>1, <2>2 DEF SaveAborted, TypeOK, history
<1>14. ASSUME NEW r \in Requests, Interrupt(r)
      PROVE  TypeOK'
  BY <1>14, TotalPartsAssumption
     DEF Interrupt, Finish, RequestKnows, TypeOK, Row, Statuses, Request, Pcs,
         Idle, NoRow, Parts, At, history
<1>15. CASE UNCHANGED vars
  BY <1>15, TotalPartsAssumption
     DEF vars, RequestKnows, TypeOK, Row, Statuses, Request, Pcs, Idle, NoRow,
         Parts, At, history
<1>16. QED
  BY StepCases, <1>1, <1>2, <1>3, <1>4, <1>5, <1>6, <1>7, <1>8, <1>9, <1>10,
     <1>11, <1>12, <1>13, <1>14, <1>15

\* What a request knows stays true while others take steps.
LEMMA KnowsStep ==
  ASSUME TypeOK,
         \A r \in Requests : RequestKnows(r),
         [Next]_vars
  PROVE  (\A q \in Requests : RequestKnows(q))'
<1>1. ASSUME NEW r \in Requests, Begin(r)
      PROVE  (\A q \in Requests : RequestKnows(q))'
  BY <1>1 DEF Begin, RequestKnows, At, history
<1>2. ASSUME NEW r \in Requests, UploadPart(r)
      PROVE  (\A q \in Requests : RequestKnows(q))'
  BY <1>2, TotalPartsAssumption
     DEF UploadPart, Start, CanReceive, RequestKnows, TypeOK, Row, Statuses,
         Request, Pcs, Idle, NoRow, Parts, At, history, Whole
<1>3. ASSUME NEW r \in Requests, PutPart(r)
      PROVE  (\A q \in Requests : RequestKnows(q))'
  BY <1>3, TotalPartsAssumption
     DEF PutPart, Goto, RequestKnows, TypeOK, Row, Statuses, Request, Pcs,
         Idle, NoRow, Parts, At, history, Whole
<1>4. ASSUME NEW r \in Requests, SavePart(r)
      PROVE  (\A q \in Requests : RequestKnows(q))'
  BY <1>4, TotalPartsAssumption
     DEF SavePart, Received, Finish, RequestKnows, TypeOK, Row, Statuses,
         Request, Pcs, Idle, NoRow, Parts, At, history, Whole
<1>5. ASSUME NEW r \in Requests, Complete(r)
      PROVE  (\A q \in Requests : RequestKnows(q))'
  BY <1>5, TotalPartsAssumption
     DEF Complete, Start, CanComplete, RequestKnows, TypeOK, Row, Statuses,
         Request, Pcs, Idle, NoRow, Parts, At, history, Whole
<1>6. ASSUME NEW r \in Requests, Gather(r)
      PROVE  (\A q \in Requests : RequestKnows(q))'
  <2>1. SUFFICES ASSUME NEW q \in Requests PROVE RequestKnows(q)'
    OBVIOUS
  <2>2. CASE q # r
    <3>1. req'[q] = req[q] /\ UNCHANGED <<object, abandoned>>
      BY <1>6, <2>2 DEF Gather, Finish, TypeOK, history
    <3>. QED
      BY <3>1 DEF RequestKnows, At
  <2>3. CASE q = r
    <3>1. CASE req[r].n \notin parts
      <4>1. req'[r] = Idle
        BY <1>6, <3>1 DEF Gather, Finish, TypeOK
      <4>. QED
        BY <2>3, <4>1 DEF RequestKnows, Idle, At
    <3>2. CASE req[r].n \in parts
      <4>1. /\ req'[r].pc =
               IF req[r].n = TotalParts THEN "putObject" ELSE "gather"
            /\ req'[r].n = IF req[r].n = TotalParts THEN 1 ELSE req[r].n + 1
            /\ req'[r].got = req[r].got \union {req[r].n}
            /\ req'[r].snap = req[r].snap
        BY <1>6, <3>2 DEF Gather, TypeOK, Request
      <4>2. /\ req[r].snap.status = "pending"
            /\ req[r].n \in 1..TotalParts
            /\ req[r].got = 1..(req[r].n - 1)
        BY <1>6 DEF Gather, RequestKnows, At, Parts
      <4>3. req'[r].got = 1..req[r].n
        BY <4>1, <4>2, TotalPartsAssumption
      <4>4. CASE req[r].n = TotalParts
        BY <2>3, <4>1, <4>2, <4>3, <4>4 DEF RequestKnows, At, Whole, Parts
      <4>5. CASE req[r].n # TotalParts
        <5>1. /\ req'[r].n \in 1..TotalParts
              /\ req'[r].got = 1..(req'[r].n - 1)
          BY <4>1, <4>2, <4>3, <4>5, TotalPartsAssumption
        <5>. QED
          BY <2>3, <4>1, <4>2, <4>5, <5>1 DEF RequestKnows, At, Parts
      <4>. QED
        BY <4>4, <4>5
    <3>. QED
      BY <3>1, <3>2
  <2>. QED
    BY <2>2, <2>3
<1>7. ASSUME NEW r \in Requests, PutObject(r)
      PROVE  (\A q \in Requests : RequestKnows(q))'
  <2>1. SUFFICES ASSUME NEW q \in Requests PROVE RequestKnows(q)'
    OBVIOUS
  <2>2. CASE q # r
    <3>1. req'[q] = req[q] /\ UNCHANGED abandoned /\ object' = Whole
      BY <1>7, <2>2 DEF PutObject, Goto, RequestKnows, TypeOK, history
    <3>. QED
      BY <3>1 DEF RequestKnows, At
  <2>3. CASE q = r
    <3>1. /\ req'[r].pc = "deleteParts"
          /\ req'[r].n = req[r].n
          /\ req'[r].snap = req[r].snap
          /\ object' = Whole
      BY <1>7 DEF PutObject, Goto, RequestKnows, TypeOK, Request
    <3>2. req[r].n \in Parts /\ req[r].snap.status = "pending"
      BY <1>7 DEF PutObject, RequestKnows, At
    <3>. QED
      BY <2>3, <3>1, <3>2 DEF RequestKnows, At, Whole, Parts
  <2>. QED
    BY <2>2, <2>3
<1>8. ASSUME NEW r \in Requests, DeletePart(r)
      PROVE  (\A q \in Requests : RequestKnows(q))'
  BY <1>8, TotalPartsAssumption
     DEF DeletePart, RequestKnows, TypeOK, Row, Statuses, Request, Pcs, Idle,
         NoRow, Parts, At, history, Whole
<1>9. ASSUME NEW r \in Requests, SaveCompleted(r)
      PROVE  (\A q \in Requests : RequestKnows(q))'
  BY <1>9, TotalPartsAssumption
     DEF SaveCompleted, Goto, RequestKnows, TypeOK, Row, Statuses, Request,
         Pcs, Idle, NoRow, Parts, At, history, Whole
<1>10. ASSUME NEW r \in Requests, CompleteReturns(r)
      PROVE  (\A q \in Requests : RequestKnows(q))'
  BY <1>10, TotalPartsAssumption
     DEF CompleteReturns, Finish, RequestKnows, TypeOK, Row, Statuses, Request,
         Pcs, Idle, NoRow, Parts, At, history, Whole
<1>11. ASSUME NEW r \in Requests, Abort(r)
      PROVE  (\A q \in Requests : RequestKnows(q))'
  BY <1>11, TotalPartsAssumption
     DEF Abort, Start, CanAbort, RequestKnows, TypeOK, Row, Statuses, Request,
         Pcs, Idle, NoRow, Parts, At, history, Whole
<1>12. ASSUME NEW r \in Requests, DropPart(r)
      PROVE  (\A q \in Requests : RequestKnows(q))'
  BY <1>12, TotalPartsAssumption
     DEF DropPart, ToDrop, RequestKnows, TypeOK, Row, Statuses, Request, Pcs,
         Idle, NoRow, Parts, At, history, Whole
<1>13. ASSUME NEW r \in Requests, SaveAborted(r)
      PROVE  (\A q \in Requests : RequestKnows(q))'
  BY <1>13, TotalPartsAssumption
     DEF SaveAborted, Finish, RequestKnows, TypeOK, Row, Statuses, Request,
         Pcs, Idle, NoRow, Parts, At, history, Whole
<1>14. ASSUME NEW r \in Requests, Interrupt(r)
      PROVE  (\A q \in Requests : RequestKnows(q))'
  BY <1>14, TotalPartsAssumption
     DEF Interrupt, Finish, RequestKnows, TypeOK, Row, Statuses, Request, Pcs,
         Idle, NoRow, Parts, At, history, Whole
<1>15. CASE UNCHANGED vars
  BY <1>15, TotalPartsAssumption
     DEF vars, RequestKnows, TypeOK, Row, Statuses, Request, Pcs, Idle, NoRow,
         Parts, At, history, Whole
<1>16. QED
  BY StepCases, <1>1, <1>2, <1>3, <1>4, <1>5, <1>6, <1>7, <1>8, <1>9, <1>10,
     <1>11, <1>12, <1>13, <1>14, <1>15

\* A request saves a completed row only once the object is in the store, and
\* the object is never taken back.
LEMMA CompletedStep ==
  ASSUME TypeOK, CompletedHasObject,
         \A r \in Requests : RequestKnows(r),
         [Next]_vars
  PROVE  CompletedHasObject'
<1>1. ASSUME NEW r \in Requests, Begin(r)
      PROVE  CompletedHasObject'
  BY <1>1 DEF Begin, CompletedHasObject
<1>2. ASSUME NEW r \in Requests, UploadPart(r)
      PROVE  CompletedHasObject'
  BY <1>2 DEF UploadPart, CompletedHasObject
<1>3. ASSUME NEW r \in Requests, PutPart(r)
      PROVE  CompletedHasObject'
  BY <1>3 DEF PutPart, CompletedHasObject
<1>4. ASSUME NEW r \in Requests, SavePart(r)
      PROVE  CompletedHasObject'
  BY <1>4 DEF SavePart, Received, RequestKnows, At, CompletedHasObject
<1>5. ASSUME NEW r \in Requests, Complete(r)
      PROVE  CompletedHasObject'
  BY <1>5 DEF Complete, CompletedHasObject
<1>6. ASSUME NEW r \in Requests, Gather(r)
      PROVE  CompletedHasObject'
  BY <1>6 DEF Gather, CompletedHasObject
<1>7. ASSUME NEW r \in Requests, PutObject(r)
      PROVE  CompletedHasObject'
  BY <1>7 DEF PutObject, Whole, RequestKnows, At, CompletedHasObject
<1>8. ASSUME NEW r \in Requests, DeletePart(r)
      PROVE  CompletedHasObject'
  BY <1>8 DEF DeletePart, CompletedHasObject
<1>9. ASSUME NEW r \in Requests, SaveCompleted(r)
      PROVE  CompletedHasObject'
  BY <1>9 DEF SaveCompleted, RequestKnows, At, CompletedHasObject
<1>10. ASSUME NEW r \in Requests, CompleteReturns(r)
      PROVE  CompletedHasObject'
  BY <1>10 DEF CompleteReturns, CompletedHasObject
<1>11. ASSUME NEW r \in Requests, Abort(r)
      PROVE  CompletedHasObject'
  BY <1>11 DEF Abort, CompletedHasObject
<1>12. ASSUME NEW r \in Requests, DropPart(r)
      PROVE  CompletedHasObject'
  BY <1>12 DEF DropPart, CompletedHasObject
<1>13. ASSUME NEW r \in Requests, SaveAborted(r)
      PROVE  CompletedHasObject'
  BY <1>13 DEF SaveAborted, CompletedHasObject
<1>14. ASSUME NEW r \in Requests, Interrupt(r)
      PROVE  CompletedHasObject'
  BY <1>14 DEF Interrupt, CompletedHasObject
<1>15. CASE UNCHANGED vars
  BY <1>15 DEF vars, CompletedHasObject
<1>16. QED
  BY StepCases, <1>1, <1>2, <1>3, <1>4, <1>5, <1>6, <1>7, <1>8, <1>9, <1>10,
     <1>11, <1>12, <1>13, <1>14, <1>15

\* Every receipt in the row or in a snapshot keeps its bytes behind it.
LEMMA BackedStep ==
  ASSUME TypeOK, Backed,
         \A r \in Requests : RequestKnows(r),
         [Next]_vars
  PROVE  Backed'
<1> USE DEF Backed, RequestBacked
<1>1. ASSUME NEW r \in Requests, Begin(r)
      PROVE  Backed'
  BY <1>1 DEF Begin, RequestKnows, At, TypeOK, Request, Row, history
<1>2. ASSUME NEW r \in Requests, UploadPart(r)
      PROVE  Backed'
  BY <1>2
     DEF UploadPart, Start, RequestKnows, At, TypeOK, Request, Row, history
<1>3. ASSUME NEW r \in Requests, PutPart(r)
      PROVE  Backed'
  BY <1>3 DEF PutPart, Goto, RequestKnows, At, TypeOK, Request, Row, history
<1>4. ASSUME NEW r \in Requests, SavePart(r)
      PROVE  Backed'
  BY <1>4
     DEF SavePart, Received, Finish, Idle, NoRow, RequestKnows, At, TypeOK,
         Request, Row, history
<1>5. ASSUME NEW r \in Requests, Complete(r)
      PROVE  Backed'
  BY <1>5 DEF Complete, Start, RequestKnows, At, TypeOK, Request, Row, history
<1>6. ASSUME NEW r \in Requests, Gather(r)
      PROVE  Backed'
  BY <1>6
     DEF Gather, Finish, Idle, NoRow, RequestKnows, At, TypeOK, Request, Row,
         history
<1>7. ASSUME NEW r \in Requests, PutObject(r)
      PROVE  Backed'
  BY <1>7
     DEF PutObject, Goto, Whole, RequestKnows, At, TypeOK, Request, Row,
         history
<1>8. ASSUME NEW r \in Requests, DeletePart(r)
      PROVE  Backed'
  BY <1>8 DEF DeletePart, RequestKnows, At, TypeOK, Request, Row, history
<1>9. ASSUME NEW r \in Requests, SaveCompleted(r)
      PROVE  Backed'
  BY <1>9
     DEF SaveCompleted, Goto, RequestKnows, At, TypeOK, Request, Row, history
<1>10. ASSUME NEW r \in Requests, CompleteReturns(r)
      PROVE  Backed'
  BY <1>10
     DEF CompleteReturns, Finish, Idle, NoRow, RequestKnows, At, TypeOK,
         Request, Row, history
<1>11. ASSUME NEW r \in Requests, Abort(r)
      PROVE  Backed'
  BY <1>11 DEF Abort, Start, RequestKnows, At, TypeOK, Request, Row, history
<1>12. ASSUME NEW r \in Requests, DropPart(r)
      PROVE  Backed'
  BY <1>12 DEF DropPart, RequestKnows, At, TypeOK, Request, Row, history
<1>13. ASSUME NEW r \in Requests, SaveAborted(r)
      PROVE  Backed'
  BY <1>13
     DEF SaveAborted, Finish, Idle, NoRow, RequestKnows, At, TypeOK, Request,
         Row, history
<1>14. ASSUME NEW r \in Requests, Interrupt(r)
      PROVE  Backed'
  BY <1>14
     DEF Interrupt, Finish, Idle, NoRow, RequestKnows, At, TypeOK, Request,
         Row, history
<1>15. CASE UNCHANGED vars
  BY <1>15 DEF vars, At
<1>16. QED
  BY StepCases, <1>1, <1>2, <1>3, <1>4, <1>5, <1>6, <1>7, <1>8, <1>9, <1>10,
     <1>11, <1>12, <1>13, <1>14, <1>15

----------------------------------------------------------------------------
\* The conjunction IInv is an invariant: it holds initially and no step of any
\* request breaks it.
LEMMA Inductive == Spec => []IInv
<1>1. Init => IInv
  <2> SUFFICES ASSUME Init PROVE IInv
    OBVIOUS
  <2>1. TypeOK
    BY IdleTyped DEF Init, TypeOK, Row, Statuses, NoRow
  <2>2. CompletedHasObject
    BY DEF Init, CompletedHasObject, NoRow
  <2>3. \A r \in Requests : RequestKnows(r)
    BY DEF Init, RequestKnows, At, Idle
  <2>4. Backed
    BY DEF Init, Backed, RequestBacked, At, Idle, NoRow
  <2>. QED
    BY <2>1, <2>2, <2>3, <2>4 DEF IInv
<1>2. IInv /\ [Next]_vars => IInv'
  BY TypeStep, KnowsStep, CompletedStep, BackedStep DEF IInv
<1>. QED
  BY <1>1, <1>2, PTL DEF Spec

\* Every reachable state of the session, its objects and its requests is well
\* typed, for every number of parts and of concurrent requests.
THEOREM TypeCorrect == Spec => []TypeOK
<1>1. IInv => TypeOK
  BY DEF IInv
<1>. QED
  BY <1>1, Inductive, PTL

\* A completed session always has its whole object in the store.
THEOREM CompletedSafe == Spec => []CompletedHasObject
<1>1. IInv => CompletedHasObject
  BY DEF IInv
<1>. QED
  BY <1>1, Inductive, PTL

\* Without an abort, acknowledged parts keep their bytes for ever.
THEOREM AcknowledgedSafe == Spec => []NoAcknowledgedByteLost
<1>1. IInv => NoAcknowledgedByteLost
  BY DEF IInv, Backed, NoAcknowledgedByteLost
<1>. QED
  BY <1>1, Inductive, PTL
----------------------------------------------------------------------------
(* A client that sends one request at a time.                              *)

OneRequestAtATime == \A q, r \in Requests : q = r

\* The parts whose bytes can be read.
Kept == IF object = Whole THEN Parts ELSE parts

\* Its request runs on the row as it is; what it stored or read is still there,
\* and it completes only what was received in full.
RequestStands(r) ==
  /\ req[r].pc \notin {"idle", "completed"} => row.status = "pending" /\ req[r].snap = row
  /\ At(r, "savePart") => req[r].n \in Kept
  /\ req[r].pc \in {"gather", "putObject"} => req[r].got \subseteq parts
  /\ req[r].pc \in {"gather", "putObject", "deleteParts", "saveCompleted"}
       => row.received = Parts

Standing ==
  /\ row.status = "absent" => row.received = {}
  /\ \A r \in Requests : RequestStands(r)

SerialInv == IInv /\ Standing

\* As many receipts as parts are the receipts of all parts.
LEMMA CompleteMeansAll ==
  ASSUME row \in Row, IsComplete(row)
  PROVE  row.received = Parts
<1>1. IsFiniteSet(Parts) /\ Cardinality(Parts) = TotalParts
  BY TotalPartsAssumption, FS_Interval DEF Parts
<1>2. row.received \subseteq Parts
  BY DEF Row
<1>. QED
  BY <1>1, <1>2, FS_Subset DEF IsComplete

\* Each step of the one request keeps what it knows, and is one that the promise
\* allows, or none the client could tell.
LEMMA SerialStep ==
  ASSUME SerialInv, OneRequestAtATime, [Next]_vars
  PROVE  /\ Standing'
         /\ [Promise!Next]_(Promise!promise)
<1> DEFINE Allowed == [Promise!Next]_(Promise!promise)
<1>1. ASSUME NEW r \in Requests PROVE Requests = {r}
  BY DEF OneRequestAtATime
<1>2. /\ row \in Row /\ parts \subseteq Parts /\ object \subseteq Parts
      /\ req \in [Requests -> Request]
      /\ CompletedHasObject
      /\ Promise!Parts = Parts
      /\ row.status = "absent" => row.received = {}
      /\ \A r \in Requests : RequestKnows(r) /\ RequestStands(r)
  BY DEF SerialInv, Standing, IInv, TypeOK, Parts, Promise!Parts
<1> USE DEF Promise!Next, Promise!promise, Standing
<1>3. ASSUME NEW r \in Requests, Begin(r)
      PROVE  Standing' /\ Allowed
  BY <1>1, <1>2, <1>3 DEF Begin, At, history, RequestStands, Promise!Begin
<1>4. ASSUME NEW r \in Requests, UploadPart(r)
      PROVE  Standing' /\ Allowed
  BY <1>1, <1>2, <1>4
     DEF UploadPart, Start, CanReceive, At, history, RequestStands
<1>5. ASSUME NEW r \in Requests, PutPart(r)
      PROVE  Standing' /\ Allowed
  <2>1. /\ req[r].pc = "putPart" /\ req[r].n \in Parts /\ row.status = "pending"
        /\ parts' = parts \union {req[r].n} /\ UNCHANGED <<row, object, acked, abandoned>>
        /\ req' = [req EXCEPT ![r].pc = "savePart"]
    BY <1>2, <1>5 DEF PutPart, Goto, At, history, RequestKnows, RequestStands
  <2>2. Kept' = Kept \union {req[r].n}
    BY <2>1 DEF Kept, Whole
  <2>3. Standing'
    BY <1>1, <1>2, <2>1, <2>2 DEF At, RequestStands
  <2>4. Promise!Store(req[r].n)
    BY <2>1, <2>2 DEF Promise!Store, Kept
  <2>. QED
    BY <1>2, <2>1, <2>3, <2>4
<1>6. ASSUME NEW r \in Requests, SavePart(r)
      PROVE  Standing' /\ Allowed
  <2>1. /\ req[r].n \in Parts /\ row.status = "pending" /\ req[r].n \in Kept
        /\ row' = Received(row, req[r].n)
        /\ req' = [req EXCEPT ![r] = Idle]
        /\ UNCHANGED <<parts, object, abandoned>>
    BY <1>2, <1>6 DEF SavePart, Finish, At, RequestKnows, RequestStands
  <2>2. row'.status = row.status /\ row'.received = row.received \union {req[r].n}
    BY <1>2, <2>1 DEF Received, Row
  <2>3. Standing'
    BY <1>1, <1>2, <2>1, <2>2 DEF At, Idle, RequestStands
  <2>4. Promise!Receive(req[r].n)
    BY <2>1, <2>2 DEF Promise!Receive, Kept
  <2>. QED
    BY <1>2, <2>1, <2>3, <2>4
<1>7. ASSUME NEW r \in Requests, Complete(r)
      PROVE  Standing' /\ Allowed
  <2>1. row.received = Parts
    BY <1>2, <1>7, CompleteMeansAll DEF Complete, CanComplete
  <2>. QED
    BY <1>1, <1>2, <1>7, <2>1
       DEF Complete, Start, CanComplete, At, history, RequestStands
<1>8. ASSUME NEW r \in Requests, Gather(r)
      PROVE  Standing' /\ Allowed
  BY <1>1, <1>2, <1>8
     DEF Gather, Finish, Idle, At, history, Request, RequestStands
<1>9. ASSUME NEW r \in Requests, PutObject(r)
      PROVE  Standing' /\ Allowed
  <2>1. /\ req[r].pc = "putObject" /\ object' = Whole /\ parts = Parts
        /\ req' = [req EXCEPT ![r].pc = "deleteParts"]
        /\ UNCHANGED <<row, parts, acked, abandoned>>
    BY <1>2, <1>9
       DEF PutObject, Goto, At, history, Whole, RequestKnows, RequestStands
  <2>. QED
    BY <1>1, <1>2, <2>1 DEF At, RequestStands
<1>10. ASSUME NEW r \in Requests, DeletePart(r)
      PROVE  Standing' /\ Allowed
  <2>1. object = Whole
    BY <1>2, <1>10 DEF DeletePart, At, RequestKnows
  <2>. QED
    BY <1>1, <1>2, <1>10, <2>1
       DEF DeletePart, At, history, RequestStands
<1>11. ASSUME NEW r \in Requests, SaveCompleted(r)
      PROVE  Standing' /\ Allowed
  <2>1. /\ object = Whole /\ row.received = Parts /\ row.status = "pending"
        /\ row' = [row EXCEPT !.status = "completed"]
        /\ req' = [req EXCEPT ![r].pc = "completed"]
        /\ UNCHANGED <<parts, object, acked, abandoned>>
    BY <1>2, <1>11
       DEF SaveCompleted, Goto, At, history, RequestKnows, RequestStands
  <2>2. row'.status = "completed" /\ row'.received = row.received
    BY <1>2, <2>1 DEF Row
  <2>3. Promise!Complete
    BY <1>2, <2>1, <2>2 DEF Promise!Complete
  <2>4. Standing'
    BY <1>1, <1>2, <2>1 DEF At, RequestStands
  <2>. QED
    BY <2>3, <2>4
<1>12. ASSUME NEW r \in Requests, CompleteReturns(r)
      PROVE  Standing' /\ Allowed
  BY <1>1, <1>2, <1>12
     DEF CompleteReturns, Finish, Idle, At, history, RequestStands
<1>13. ASSUME NEW r \in Requests, Abort(r)
      PROVE  Standing' /\ Allowed
  BY <1>1, <1>2, <1>13
     DEF Abort, Start, CanAbort, At, RequestStands, Promise!GiveUp
<1>14. ASSUME NEW r \in Requests, DropPart(r)
      PROVE  Standing' /\ Allowed
  <2>1. PICK n \in ToDrop(r) : parts' = parts \ {n} /\ req' = [req EXCEPT ![r].n = n + 1]
    BY <1>14 DEF DropPart
  <2>2. /\ req[r].pc = "dropParts" /\ abandoned /\ row.status = "pending"
        /\ UNCHANGED <<row, object, acked, abandoned>>
    BY <1>2, <1>14 DEF DropPart, At, history, RequestKnows, RequestStands
  <2>3. n \in Parts
    BY <1>2 DEF ToDrop, Request, Row
  <2>4. Standing'
    BY <1>1, <1>2, <2>1, <2>2 DEF At, RequestStands
  <2>5. CASE object = Whole
    BY <2>1, <2>2, <2>4, <2>5
  <2>6. CASE object # Whole
    <3>1. Promise!Drop(n)
      BY <2>1, <2>2, <2>6 DEF Promise!Drop
    <3>. QED
      BY <1>2, <2>3, <2>4, <3>1
  <2>. QED
    BY <2>5, <2>6
<1>15. ASSUME NEW r \in Requests, SaveAborted(r)
      PROVE  Standing' /\ Allowed
  <2>1. /\ abandoned /\ row.status = "pending"
        /\ row' = [row EXCEPT !.status = "aborted"]
        /\ req' = [req EXCEPT ![r] = Idle]
        /\ UNCHANGED <<parts, object, acked, abandoned>>
    BY <1>2, <1>15
       DEF SaveAborted, Finish, At, history, RequestKnows, RequestStands
  <2>2. row'.status = "aborted" /\ row'.received = row.received
    BY <1>2, <2>1 DEF Row
  <2>3. Promise!Abort
    BY <2>1, <2>2 DEF Promise!Abort
  <2>4. Standing'
    BY <1>1, <1>2, <2>1 DEF At, Idle, RequestStands
  <2>. QED
    BY <2>3, <2>4
<1>16. ASSUME NEW r \in Requests, Interrupt(r)
      PROVE  Standing' /\ Allowed
  BY <1>1, <1>2, <1>16
     DEF Interrupt, Finish, Idle, At, history, RequestStands
<1>17. CASE UNCHANGED vars
  BY <1>2, <1>17 DEF vars, At, Kept, RequestStands
<1>. QED
  BY StepCases, <1>3, <1>4, <1>5, <1>6, <1>7, <1>8, <1>9, <1>10, <1>11, <1>12,
     <1>13, <1>14, <1>15, <1>16, <1>17

\* With one request at a time a session keeps its promise: no receipt and no part
\* is lost before the client gives up, what is completed is all there, and a session
\* that ended stays so, wherever requests are cut off.
THEOREM SessionKeepsPromise == OneRequestAtATime => (Spec => ImplementsPromise)
<1> SUFFICES ASSUME OneRequestAtATime
             PROVE  Spec => ImplementsPromise
  OBVIOUS
<1>1. Init => Promise!Init /\ Standing
  <2>1. Parts # {}
    BY TotalPartsAssumption DEF Parts
  <2>. QED
    BY <2>1 DEF Init, NoRow, Idle, Whole, At, Standing, RequestStands, Promise!Init
<1>2. IInv /\ Standing /\ [Next]_vars => Standing' /\ [Promise!Next]_(Promise!promise)
  BY SerialStep DEF SerialInv
<1>. QED
  BY <1>1, <1>2, Inductive, PTL DEF Spec, ImplementsPromise, Promise!Spec

=============================================================================
