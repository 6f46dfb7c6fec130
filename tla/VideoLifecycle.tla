--------------------------- MODULE VideoLifecycle ---------------------------
(***************************************************************************)
(* What the media path promises about a video, without queues, workers or  *)
(* snapshots: the status a member sees moves uploaded -> queued ->         *)
(* processing -> ready | failed, a failed run may be tried again, ready is *)
(* announced only over a full set of outputs and is final, and a video may *)
(* be deleted at any time together with its outputs.                       *)
(***************************************************************************)
CONSTANT Videos

VARIABLES
  status,     \* per video, the status members see
  complete    \* per video, whether a full set of outputs is stored

lifecycle == <<status, complete>>

States == {"absent", "uploaded", "queued", "processing", "ready", "failed"}

Init ==
  /\ status = [v \in Videos |-> "absent"]
  /\ complete = [v \in Videos |-> FALSE]

Move(v, from, to) ==
  /\ status[v] \in from
  /\ status' = [status EXCEPT ![v] = to]
  /\ UNCHANGED complete

Submit(v) == Move(v, {"absent"}, "uploaded")
Queue(v) == Move(v, {"uploaded"}, "queued")
Start(v) == Move(v, {"queued", "failed"}, "processing")
Fail(v) == Move(v, {"processing"}, "failed")
Finish(v) == complete[v] /\ Move(v, {"processing"}, "ready")

Produce(v) ==
  /\ status[v] = "processing"
  /\ complete' = [complete EXCEPT ![v] = TRUE]
  /\ UNCHANGED status

Remove(v) ==
  /\ status[v] # "absent"
  /\ status' = [status EXCEPT ![v] = "absent"]
  /\ complete' = [complete EXCEPT ![v] = FALSE]

Next == \E v \in Videos :
  \/ Submit(v) \/ Queue(v) \/ Start(v) \/ Produce(v)
  \/ Finish(v) \/ Fail(v) \/ Remove(v)

Spec == Init /\ [][Next]_lifecycle

=============================================================================
