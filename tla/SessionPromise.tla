--------------------------- MODULE SessionPromise ---------------------------
(***************************************************************************)
(* What an upload session promises its client, without requests, snapshots *)
(* or an object store: a part that is received is kept until the client    *)
(* gives the session up, a session is completed only when every part was   *)
(* received and all of them are kept, and completed and aborted are final. *)
(***************************************************************************)
EXTENDS Naturals

CONSTANT TotalParts

VARIABLES
  status,     \* of the session
  received,   \* parts the session records
  kept,       \* parts whose bytes can be read
  abandoned   \* the client gave the session up

promise == <<status, received, kept, abandoned>>

Parts == 1..TotalParts

Init ==
  /\ status = "absent"
  /\ received = {}
  /\ kept = {}
  /\ abandoned = FALSE

Begin ==
  /\ status = "absent"
  /\ status' = "pending"
  /\ UNCHANGED <<received, kept, abandoned>>

Store(n) ==
  /\ status = "pending"
  /\ kept' = kept \union {n}
  /\ UNCHANGED <<status, received, abandoned>>

Receive(n) ==
  /\ status = "pending"
  /\ n \in kept
  /\ received' = received \union {n}
  /\ UNCHANGED <<status, kept, abandoned>>

Complete ==
  /\ status = "pending"
  /\ received = Parts /\ kept = Parts
  /\ status' = "completed"
  /\ UNCHANGED <<received, kept, abandoned>>

GiveUp ==
  /\ status = "pending"
  /\ abandoned' = TRUE
  /\ UNCHANGED <<status, received, kept>>

\* Parts go only from a session that was given up.
Drop(n) ==
  /\ status = "pending" /\ abandoned
  /\ kept' = kept \ {n}
  /\ UNCHANGED <<status, received, abandoned>>

Abort ==
  /\ status = "pending" /\ abandoned
  /\ status' = "aborted"
  /\ UNCHANGED <<received, kept, abandoned>>

Next ==
  \/ Begin \/ Complete \/ GiveUp \/ Abort
  \/ \E n \in Parts : Store(n) \/ Receive(n) \/ Drop(n)

Spec == Init /\ [][Next]_promise

=============================================================================
