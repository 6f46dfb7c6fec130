--------------------------- MODULE Recorder_proofs ---------------------------
(***************************************************************************)
(* Theorems about the Recorder, for any number of recordings and flushes:  *)
(* types, that what stop() told the member is kept, and, for a client that *)
(* waits for each start(), that no capture runs out of control.            *)
(***************************************************************************)
EXTENDS Recorder, TLAPS

\* A flush removes a recording only after it has uploaded it.
FlushKnows ==
  \A f \in Flushes :
    /\ flush[f].pc \in {"upload", "remove"} => flush[f].cur \in Captures
    /\ flush[f].pc = "remove" => uploads[flush[f].cur] > 0

Kept == ToldIsKept /\ FlushKnows

\* The recorder's own fields agree: it is idle exactly when it has no handle,
\* its state is that of its capture, and it is stopping while stop() finalizes.
FieldsAgree ==
  /\ state = "idle" <=> handle = NoCapture
  /\ state \in {"recording", "paused"} => capture[handle] = state
  /\ state = "stopping" => stop[handle] = "finalizing"

\* While a start awaits its capture nothing else is under way.
StartAlone ==
  \A c \in Captures : Opening(c) =>
    /\ state = "idle"
    /\ \A d \in Captures : stop[d] # "finalizing"
    /\ \A d \in Captures : Opening(d) => d = c

\* A stop that finalizes is the one of the current session, unless the
\* recorder was torn down under it; so its reset drops nobody else's handle.
FinalizesOwn ==
  \A c \in Captures : stop[c] = "finalizing" =>
    \/ handle = c /\ state = "stopping"
    \/ disposed /\ state = "idle"

Control == FieldsAgree /\ StartAlone /\ FinalizesOwn /\ CaptureUnderControl

------------------------------------------------------------------------------
\* Every step is one of the actions or changes nothing.
LEMMA StepCases ==
  ASSUME [Next]_vars
  PROVE  \/ \E c \in Captures :
              \/ Start(c)
              \/ CaptureBegins(c)
              \/ CaptureRejects(c)
              \/ Finalized(c)
              \/ FinalizeFails(c)
              \/ UploadNow(c)
              \/ UploadNowFails(c)
              \/ StoreOffline(c)
              \/ StoreFails(c)
         \/ \E f \in Flushes :
              \/ Reconnect(f)
              \/ ListStored(f)
              \/ UploadStored(f)
              \/ UploadStoredFails(f)
              \/ RemoveStored(f)
              \/ FlushRejects(f)
         \/ Pause
         \/ Resume
         \/ Stop
         \/ GoOffline
         \/ Dispose
         \/ Reload
         \/ UNCHANGED vars
  BY DEF Next, ControlStep, StopStep, FlushStep

\* Types are preserved; the flushes keep their attempts within the limit.
LEMMA TypeStep ==
  ASSUME TypeOK,
         FlushKnows,
         [Next]_vars
  PROVE  TypeOK'
<1>1. ASSUME NEW c \in Captures, Start(c)
      PROVE  TypeOK'
  BY <1>1 DEF Start, CaptureGoto, TypeOK, recorder, CaptureStates
<1>2. ASSUME NEW c \in Captures, CaptureBegins(c)
      PROVE  TypeOK'
  BY <1>2 DEF CaptureBegins, CaptureGoto, TypeOK, States, CaptureStates
<1>3. ASSUME NEW c \in Captures, CaptureRejects(c)
      PROVE  TypeOK'
  BY <1>3 DEF CaptureRejects, CaptureGoto, TypeOK, recorder, CaptureStates
<1>4. ASSUME NEW c \in Captures, Finalized(c)
      PROVE  TypeOK'
  BY <1>4
     DEF Finalized, Reset, CaptureGoto, StopGoto, TypeOK, States,
         CaptureStates, StopPcs
<1>5. ASSUME NEW c \in Captures, FinalizeFails(c)
      PROVE  TypeOK'
  BY <1>5
     DEF FinalizeFails, Reset, CaptureGoto, StopGoto, TypeOK, States,
         CaptureStates, StopPcs
<1>6. ASSUME NEW c \in Captures, UploadNow(c)
      PROVE  TypeOK'
  BY <1>6, RecorderAssumption
     DEF UploadNow, Upload, StopGoto, TypeOK, recorder, StopPcs
<1>7. ASSUME NEW c \in Captures, UploadNowFails(c)
      PROVE  TypeOK'
  BY <1>7 DEF UploadNowFails, StopGoto, TypeOK, recorder, StopPcs
<1>8. ASSUME NEW c \in Captures, StoreOffline(c)
      PROVE  TypeOK'
  BY <1>8 DEF StoreOffline, StopGoto, TypeOK, recorder, StopPcs
<1>9. ASSUME NEW c \in Captures, StoreFails(c)
      PROVE  TypeOK'
  BY <1>9 DEF StoreFails, StopGoto, TypeOK, recorder, StopPcs
<1>10. ASSUME NEW f \in Flushes, Reconnect(f)
       PROVE  TypeOK'
  BY <1>10, RecorderAssumption
     DEF Reconnect, StartFlush, TypeOK, recorder, Flush
<1>11. ASSUME NEW f \in Flushes, ListStored(f)
       PROVE  TypeOK'
  BY <1>11, RecorderAssumption
     DEF ListStored, NextRecording, TypeOK, recorder, Flush
<1>12. ASSUME NEW f \in Flushes, UploadStored(f)
       PROVE  TypeOK'
  BY <1>12, RecorderAssumption
     DEF UploadStored, Doing, Upload, FlushGoto, TypeOK, recorder, Flush,
         NoFlush, FlushKnows
<1>13. ASSUME NEW f \in Flushes, UploadStoredFails(f)
       PROVE  TypeOK'
  BY <1>13, RecorderAssumption
     DEF UploadStoredFails, Doing, NextRecording, TypeOK, recorder, Flush,
         NoFlush
<1>14. ASSUME NEW f \in Flushes, RemoveStored(f)
       PROVE  TypeOK'
  BY <1>14, RecorderAssumption
     DEF RemoveStored, Doing, NextRecording, TypeOK, recorder, Flush, NoFlush
<1>15. ASSUME NEW f \in Flushes, FlushRejects(f)
       PROVE  TypeOK'
  BY <1>15 DEF FlushRejects, TypeOK, recorder
<1>16. ASSUME Pause
       PROVE  TypeOK'
  BY <1>16 DEF Pause, CaptureGoto, TypeOK, States, CaptureStates
<1>17. ASSUME Resume
       PROVE  TypeOK'
  BY <1>17 DEF Resume, CaptureGoto, TypeOK, States, CaptureStates
<1>18. ASSUME Stop
       PROVE  TypeOK'
  BY <1>18
     DEF Stop, CaptureGoto, StopGoto, TypeOK, States, CaptureStates, StopPcs
<1>19. ASSUME GoOffline
       PROVE  TypeOK'
  BY <1>19 DEF GoOffline, TypeOK, recorder
<1>20. ASSUME Dispose
       PROVE  TypeOK'
  BY <1>20 DEF Dispose, Reset, CaptureGoto, TypeOK, States, CaptureStates
<1>21. ASSUME Reload
       PROVE  TypeOK'
  BY <1>21 DEF Reload, Reset, TypeOK, States, CaptureStates, StopPcs
<1>22. CASE UNCHANGED vars
  BY <1>22 DEF vars, TypeOK, recorder
<1>. QED
  BY StepCases, <1>1, <1>2, <1>3, <1>4, <1>5, <1>6, <1>7, <1>8, <1>9, <1>10,
     <1>11, <1>12, <1>13, <1>14, <1>15, <1>16, <1>17, <1>18, <1>19, <1>20,
     <1>21, <1>22

\* What stop() told is kept: recordings leave the local store only after they
\* were uploaded, and uploads are never taken back.
LEMMA KeptStep ==
  ASSUME TypeOK,
         Kept,
         [Next]_vars
  PROVE  Kept'
<1>1. ASSUME NEW c \in Captures, Start(c)
      PROVE  Kept'
  BY <1>1 DEF Start, Kept, ToldIsKept, FlushKnows
<1>2. ASSUME NEW c \in Captures, CaptureBegins(c)
      PROVE  Kept'
  BY <1>2 DEF CaptureBegins, Kept, ToldIsKept, FlushKnows
<1>3. ASSUME NEW c \in Captures, CaptureRejects(c)
      PROVE  Kept'
  BY <1>3 DEF CaptureRejects, Kept, ToldIsKept, FlushKnows
<1>4. ASSUME NEW c \in Captures, Finalized(c)
      PROVE  Kept'
  BY <1>4 DEF Finalized, StopGoto, Kept, ToldIsKept, FlushKnows
<1>5. ASSUME NEW c \in Captures, FinalizeFails(c)
      PROVE  Kept'
  BY <1>5 DEF FinalizeFails, StopGoto, Kept, ToldIsKept, FlushKnows
<1>6. ASSUME NEW c \in Captures, UploadNow(c)
      PROVE  Kept'
  BY <1>6, RecorderAssumption
     DEF UploadNow, Upload, StopGoto, Kept, ToldIsKept, FlushKnows, TypeOK
<1>7. ASSUME NEW c \in Captures, UploadNowFails(c)
      PROVE  Kept'
  BY <1>7 DEF UploadNowFails, StopGoto, Kept, ToldIsKept, FlushKnows
<1>8. ASSUME NEW c \in Captures, StoreOffline(c)
      PROVE  Kept'
  BY <1>8 DEF StoreOffline, StopGoto, Kept, ToldIsKept, FlushKnows
<1>9. ASSUME NEW c \in Captures, StoreFails(c)
      PROVE  Kept'
  BY <1>9 DEF StoreFails, StopGoto, Kept, ToldIsKept, FlushKnows
<1>10. ASSUME NEW f \in Flushes, Reconnect(f)
       PROVE  Kept'
  BY <1>10 DEF Reconnect, StartFlush, Kept, ToldIsKept, FlushKnows, TypeOK
<1>11. ASSUME NEW f \in Flushes, ListStored(f)
       PROVE  Kept'
  BY <1>11
     DEF ListStored, NextRecording, Kept, ToldIsKept, FlushKnows, TypeOK,
         NoFlush
<1>12. ASSUME NEW f \in Flushes, UploadStored(f)
       PROVE  Kept'
  BY <1>12, RecorderAssumption
     DEF UploadStored, Doing, Upload, FlushGoto, Kept, ToldIsKept, FlushKnows,
         TypeOK
<1>13. ASSUME NEW f \in Flushes, UploadStoredFails(f)
       PROVE  Kept'
  BY <1>13
     DEF UploadStoredFails, Doing, NextRecording, Kept, ToldIsKept,
         FlushKnows, TypeOK, Flush, NoFlush
<1>14. ASSUME NEW f \in Flushes, RemoveStored(f)
       PROVE  Kept'
  BY <1>14
     DEF RemoveStored, Doing, NextRecording, Kept, ToldIsKept, FlushKnows,
         TypeOK, Flush, NoFlush
<1>15. ASSUME NEW f \in Flushes, FlushRejects(f)
       PROVE  Kept'
  BY <1>15 DEF FlushRejects, Kept, ToldIsKept, FlushKnows, NoFlush
<1>16. ASSUME Pause
       PROVE  Kept'
  BY <1>16 DEF Pause, Kept, ToldIsKept, FlushKnows
<1>17. ASSUME Resume
       PROVE  Kept'
  BY <1>17 DEF Resume, Kept, ToldIsKept, FlushKnows
<1>18. ASSUME Stop
       PROVE  Kept'
  BY <1>18 DEF Stop, StopGoto, Kept, ToldIsKept, FlushKnows
<1>19. ASSUME GoOffline
       PROVE  Kept'
  BY <1>19 DEF GoOffline, Kept, ToldIsKept, FlushKnows
<1>20. ASSUME Dispose
       PROVE  Kept'
  BY <1>20 DEF Dispose, Kept, ToldIsKept, FlushKnows
<1>21. ASSUME Reload
       PROVE  Kept'
  BY <1>21 DEF Reload, Kept, ToldIsKept, FlushKnows, NoFlush
<1>22. CASE UNCHANGED vars
  BY <1>22 DEF vars, Kept, ToldIsKept, FlushKnows
<1>. QED
  BY StepCases, <1>1, <1>2, <1>3, <1>4, <1>5, <1>6, <1>7, <1>8, <1>9, <1>10,
     <1>11, <1>12, <1>13, <1>14, <1>15, <1>16, <1>17, <1>18, <1>19, <1>20,
     <1>21, <1>22

\* With one start at a time the recorder stays in control of every capture.
LEMMA ControlStepKept ==
  ASSUME TypeOK,
         Control,
         OneStartAtATime,
         [Next]_vars
  PROVE  Control'
<1>1. ASSUME NEW c \in Captures, Start(c)
      PROVE  Control'
  BY <1>1
     DEF Start, CaptureGoto, Opening, Control, FieldsAgree, StartAlone,
         FinalizesOwn, CaptureUnderControl, Opening, recorder
<1>2. ASSUME NEW c \in Captures, CaptureBegins(c)
      PROVE  Control'
  BY <1>2, RecorderAssumption
     DEF CaptureBegins, CaptureGoto, Opening, Control, FieldsAgree,
         StartAlone, FinalizesOwn, CaptureUnderControl, Opening, TypeOK
<1>3. ASSUME NEW c \in Captures, CaptureRejects(c)
      PROVE  Control'
  BY <1>3
     DEF CaptureRejects, CaptureGoto, Opening, Control, FieldsAgree,
         StartAlone, FinalizesOwn, CaptureUnderControl, Opening, recorder
<1>4. ASSUME NEW c \in Captures, Finalized(c)
      PROVE  Control'
  BY <1>4
     DEF Finalized, Reset, CaptureGoto, StopGoto, Control, FieldsAgree,
         StartAlone, FinalizesOwn, CaptureUnderControl, Opening, TypeOK
<1>5. ASSUME NEW c \in Captures, FinalizeFails(c)
      PROVE  Control'
  BY <1>5
     DEF FinalizeFails, Reset, CaptureGoto, StopGoto, Control, FieldsAgree,
         StartAlone, FinalizesOwn, CaptureUnderControl, Opening, TypeOK
<1>6. ASSUME NEW c \in Captures, UploadNow(c)
      PROVE  Control'
  BY <1>6
     DEF UploadNow, StopGoto, Control, FieldsAgree, StartAlone, FinalizesOwn,
         CaptureUnderControl, Opening, recorder
<1>7. ASSUME NEW c \in Captures, UploadNowFails(c)
      PROVE  Control'
  BY <1>7
     DEF UploadNowFails, StopGoto, Control, FieldsAgree, StartAlone,
         FinalizesOwn, CaptureUnderControl, Opening, recorder
<1>8. ASSUME NEW c \in Captures, StoreOffline(c)
      PROVE  Control'
  BY <1>8
     DEF StoreOffline, StopGoto, Control, FieldsAgree, StartAlone,
         FinalizesOwn, CaptureUnderControl, Opening, recorder
<1>9. ASSUME NEW c \in Captures, StoreFails(c)
      PROVE  Control'
  BY <1>9
     DEF StoreFails, StopGoto, Control, FieldsAgree, StartAlone, FinalizesOwn,
         CaptureUnderControl, Opening, recorder
<1>10. ASSUME NEW f \in Flushes, Reconnect(f)
       PROVE  Control'
  BY <1>10
     DEF Reconnect, Control, FieldsAgree, StartAlone, FinalizesOwn,
         CaptureUnderControl, Opening, recorder
<1>11. ASSUME NEW f \in Flushes, ListStored(f)
       PROVE  Control'
  BY <1>11
     DEF ListStored, Control, FieldsAgree, StartAlone, FinalizesOwn,
         CaptureUnderControl, Opening, recorder
<1>12. ASSUME NEW f \in Flushes, UploadStored(f)
       PROVE  Control'
  BY <1>12
     DEF UploadStored, Control, FieldsAgree, StartAlone, FinalizesOwn,
         CaptureUnderControl, Opening, recorder
<1>13. ASSUME NEW f \in Flushes, UploadStoredFails(f)
       PROVE  Control'
  BY <1>13
     DEF UploadStoredFails, Control, FieldsAgree, StartAlone, FinalizesOwn,
         CaptureUnderControl, Opening, recorder
<1>14. ASSUME NEW f \in Flushes, RemoveStored(f)
       PROVE  Control'
  BY <1>14
     DEF RemoveStored, Control, FieldsAgree, StartAlone, FinalizesOwn,
         CaptureUnderControl, Opening, recorder
<1>15. ASSUME NEW f \in Flushes, FlushRejects(f)
       PROVE  Control'
  BY <1>15
     DEF FlushRejects, Control, FieldsAgree, StartAlone, FinalizesOwn,
         CaptureUnderControl, Opening, recorder
<1>16. ASSUME Pause
       PROVE  Control'
  BY <1>16
     DEF Pause, CaptureGoto, Control, FieldsAgree, StartAlone, FinalizesOwn,
         CaptureUnderControl, Opening, TypeOK
<1>17. ASSUME Resume
       PROVE  Control'
  BY <1>17
     DEF Resume, CaptureGoto, Control, FieldsAgree, StartAlone, FinalizesOwn,
         CaptureUnderControl, Opening, TypeOK
<1>18. ASSUME Stop
       PROVE  Control'
  BY <1>18
     DEF Stop, CaptureGoto, StopGoto, Control, FieldsAgree, StartAlone,
         FinalizesOwn, CaptureUnderControl, Opening, TypeOK
<1>19. ASSUME GoOffline
       PROVE  Control'
  BY <1>19
     DEF GoOffline, Control, FieldsAgree, StartAlone, FinalizesOwn,
         CaptureUnderControl, Opening, recorder
<1>20. ASSUME Dispose
       PROVE  Control'
  BY <1>20
     DEF Dispose, Reset, CaptureGoto, Control, FieldsAgree, StartAlone,
         FinalizesOwn, CaptureUnderControl, Opening, TypeOK
<1>21. ASSUME Reload
       PROVE  Control'
  BY <1>21
     DEF Reload, Reset, Control, FieldsAgree, StartAlone, FinalizesOwn,
         CaptureUnderControl, Opening
<1>22. CASE UNCHANGED vars
  BY <1>22
     DEF vars, Control, FieldsAgree, StartAlone, FinalizesOwn,
         CaptureUnderControl, Opening, recorder
<1>. QED
  BY StepCases, <1>1, <1>2, <1>3, <1>4, <1>5, <1>6, <1>7, <1>8, <1>9, <1>10,
     <1>11, <1>12, <1>13, <1>14, <1>15, <1>16, <1>17, <1>18, <1>19, <1>20,
     <1>21, <1>22

----------------------------------------------------------------------------
\* The initial states satisfy every part of the invariants.
LEMMA InvariantInit == Init => TypeOK /\ Kept /\ Control
<1>. SUFFICES ASSUME Init
              PROVE  TypeOK /\ Kept /\ Control
  OBVIOUS
<1>1. online \in BOOLEAN
  BY DEF Init
<1>2. uploads \in [Captures -> 0..MaxUploads]
  BY RecorderAssumption DEF Init
<1>3. TypeOK
  BY <1>1, <1>2 DEF Init, TypeOK, States, CaptureStates, StopPcs
<1>4. Kept
  BY DEF Init, Kept, ToldIsKept, FlushKnows, NoFlush
<1>5. Control
  BY DEF Init, Control, FieldsAgree, StartAlone, FinalizesOwn,
         CaptureUnderControl, Opening
<1>. QED
  BY <1>3, <1>4, <1>5

\* Types and the kept recordings are an invariant of every behaviour.
LEMMA KeptInvariant == Spec => [](TypeOK /\ Kept)
<1>1. Init => TypeOK /\ Kept
  BY InvariantInit
<1>2. TypeOK /\ Kept /\ [Next]_vars => (TypeOK /\ Kept)'
  BY TypeStep, KeptStep DEF Kept
<1>. QED
  BY <1>1, <1>2, PTL DEF Spec

\* No variable of the recorder ever leaves its type; in particular no stored
\* recording is tried more often in one flush than the limit allows.
THEOREM RecorderTypeCorrect == Spec => []TypeOK
  BY KeptInvariant, PTL

\* What stop() told the member is kept for any number of recordings, of
\* overlapping flushes and of reloads.
THEOREM RecordingsKept == Spec => []ToldIsKept
<1>1. Kept => ToldIsKept
  BY DEF Kept
<1>. QED
  BY <1>1, KeptInvariant, PTL

\* For a client that waits for each start() before it calls the next, every
\* running capture is the one the recorder holds and shows.
THEOREM CapturesControlled ==
  ASSUME OneStartAtATime
  PROVE  Spec => []CaptureUnderControl
<1>1. Init => TypeOK /\ Kept /\ Control
  BY InvariantInit
<1>2. TypeOK /\ Kept /\ Control /\ [Next]_vars => (TypeOK /\ Kept /\ Control)'
  BY OneStartAtATime, TypeStep, KeptStep, ControlStepKept DEF Kept
<1>3. Control => CaptureUnderControl
  BY DEF Control
<1>. QED
  BY <1>1, <1>2, <1>3, PTL DEF Spec

==============================================================================
