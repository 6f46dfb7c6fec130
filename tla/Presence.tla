------------------------------ MODULE Presence ------------------------------
(* Presence on one node of the Realtime_Service: the connections of        *)
(* RealtimeGateway, its workspaces and videos, the typing timers and the   *)
(* departure that follows the last dropped connection. Synchronous code is *)
(* one step, up to the call of backplane.publish it ends in; whether the   *)
(* event is published or the call rejects is a choice of that step.        *)
EXTENDS FiniteSets

CONSTANTS
  People,         \* memberIds
  Sockets,        \* connectionIds
  Workspaces,
  Videos

Nobody == "nobody"
ASSUME PeopleAssumption == Nobody \notin People

VARIABLES
  socket,         \* connectionMember
  present,        \* memberWorkspaces
  viewing,        \* memberVideos
  typing,         \* typingTimers: the videos of the pending ones
  departure,      \* departureTimers: the members of the pending ones
  leaving,        \* member -> a running fireDeparture, what it has to announce
  announced,      \* history: member -> workspaces whose last event was a join
  unsure,         \* history: member -> workspaces whose last event was rejected,
                  \*   or crossed a departure that was still announcing
  adrift,         \* history: members that called without a connection, or whose
                  \*   departure broke off, since their last connection closed
  kept            \* history: member -> workspaces it has reason to be present in

presenceVars == <<socket, present, viewing, typing, departure, leaving,
                  announced, unsure, adrift, kept>>

Connected(m) == \E c \in Sockets : socket[c] = m
Settled == [running |-> FALSE, left |-> {}, gone |-> {}]

PresenceInit ==
  /\ socket = [c \in Sockets |-> Nobody]
  /\ present = [m \in People |-> {}]
  /\ viewing = [m \in People |-> {}]
  /\ typing = [m \in People |-> {}]
  /\ departure = {}
  /\ leaving = [m \in People |-> Settled]
  /\ announced = [m \in People |-> {}]
  /\ unsure = [m \in People |-> {}]
  /\ adrift = {}
  /\ kept = [m \in People |-> {}]

---------------------------------------------------------------------------
(* Faulty variant: a reconnection leaves the timer running. *)
ConnectOnly(m, c) ==
  /\ socket[c] = Nobody
  /\ socket' = [socket EXCEPT ![c] = m]
  /\ kept' = [kept EXCEPT ![m] = IF leaving[m].running THEN @ ELSE present[m]]
  /\ UNCHANGED <<present, viewing, typing, departure, leaving, announced, unsure, adrift>>

Connect(m, c) ==
  /\ socket[c] = Nobody
  /\ socket' = [socket EXCEPT ![c] = m]
  /\ departure' = departure \ {m}
  /\ kept' = [kept EXCEPT ![m] = IF leaving[m].running THEN @ ELSE present[m]]
  /\ UNCHANGED <<present, viewing, typing, leaving, announced, unsure, adrift>>

(* The last connection of a member arms the timer. *)
Disconnect(c) ==
  /\ socket[c] # Nobody
  /\ socket' = [socket EXCEPT ![c] = Nobody]
  /\ IF \E d \in Sockets \ {c} : socket[d] = socket[c]
     THEN UNCHANGED <<departure, adrift, kept>>
     ELSE /\ departure' = departure \union {socket[c]}
          /\ adrift' = adrift \ {socket[c]}
          /\ kept' = [kept EXCEPT ![socket[c]] = {}]
  /\ UNCHANGED <<present, viewing, typing, leaving, announced, unsure>>

---------------------------------------------------------------------------
(* None of the calls below asks for an open connection. Whether a rejected *)
(* event reached anybody is unknown.                                       *)

Published(m, w, joined) ==
  /\ announced' = [announced EXCEPT ![m] = IF joined THEN @ \union {w} ELSE @ \ {w}]
  /\ unsure' = [unsure EXCEPT ![m] =
                  IF joined /\ leaving[m].running THEN @ \union {w} ELSE @ \ {w}]

Rejected(m, w) ==
  /\ unsure' = [unsure EXCEPT ![m] = @ \union {w}]
  /\ UNCHANGED announced

Unattached(m) == IF Connected(m) THEN adrift ELSE adrift \union {m}

(* Faulty variant: a join leaves the timer running. *)
JoinOnly(m, w) ==
  /\ present' = [present EXCEPT ![m] = @ \union {w}]
  /\ kept' = [kept EXCEPT ![m] = IF leaving[m].running THEN @ ELSE @ \union {w}]
  /\ adrift' = Unattached(m)
  /\ Published(m, w, TRUE) \/ Rejected(m, w)
  /\ UNCHANGED <<socket, viewing, typing, departure, leaving>>

Join(m, w) ==
  /\ departure' = departure \ {m}
  /\ present' = [present EXCEPT ![m] = @ \union {w}]
  /\ kept' = [kept EXCEPT ![m] = IF leaving[m].running THEN @ ELSE @ \union {w}]
  /\ adrift' = Unattached(m)
  /\ Published(m, w, TRUE) \/ Rejected(m, w)
  /\ UNCHANGED <<socket, viewing, typing, leaving>>

Leave(m, w) ==
  /\ present' = [present EXCEPT ![m] = @ \ {w}]
  /\ kept' = [kept EXCEPT ![m] = @ \ {w}]
  /\ Published(m, w, FALSE) \/ Rejected(m, w)
  /\ UNCHANGED <<socket, viewing, typing, departure, leaving, adrift>>

OpenVideo(m, v) ==
  /\ viewing' = [viewing EXCEPT ![m] = @ \union {v}]
  /\ adrift' = Unattached(m)
  /\ UNCHANGED <<socket, present, typing, departure, leaving, announced, unsure, kept>>

CloseVideo(m, v) ==
  /\ viewing' = [viewing EXCEPT ![m] = @ \ {v}]
  /\ UNCHANGED <<socket, present, typing, departure, leaving, announced, unsure,
                 adrift, kept>>

(* Each signal re-arms the timer. Only the first is published; whether that *)
(* succeeds, as in StopTyping, changes nothing here.                        *)
StartTyping(m, v) ==
  /\ typing' = [typing EXCEPT ![m] = @ \union {v}]
  /\ UNCHANGED <<socket, present, viewing, departure, leaving, announced, unsure,
                 adrift, kept>>

(* The member stops, or the inactivity timer fires. *)
StopTyping(m, v) ==
  /\ v \in typing[m]
  /\ typing' = [typing EXCEPT ![m] = @ \ {v}]
  /\ UNCHANGED <<socket, present, viewing, departure, leaving, announced, unsure,
                 adrift, kept>>

---------------------------------------------------------------------------
(* fireDeparture ends: presence and viewership are forgotten. *)
Forget(m) ==
  /\ present' = [present EXCEPT ![m] = {}]
  /\ viewing' = [viewing EXCEPT ![m] = {}]
  /\ leaving' = [leaving EXCEPT ![m] = Settled]
  /\ adrift' = adrift \ {m}
  /\ UNCHANGED <<announced, unsure>>

(* It announces one of the workspaces left. *)
Announce(m, left, gone) ==
  /\ \E w \in left :
       /\ Published(m, w, FALSE)
       /\ leaving' = [leaving EXCEPT ![m] =
            [running |-> TRUE, left |-> left \ {w}, gone |-> gone \union {w}]]
  /\ UNCHANGED <<present, viewing, adrift>>

(* The announcement of one rejects, which nothing catches: fireDeparture     *)
(* ends, with presence and viewership as they were and no timer.             *)
BreakOff(m, left, gone) ==
  /\ \E w \in left : unsure' = [unsure EXCEPT ![m] = @ \union gone \union {w}]
  /\ leaving' = [leaving EXCEPT ![m] = Settled]
  /\ adrift' = adrift \union {m}
  /\ UNCHANGED <<present, viewing, announced>>

(* Faulty variant: without workspaces there is nothing to do. *)
FireDepartureEarlyOut(m) ==
  /\ m \in departure /\ ~leaving[m].running
  /\ departure' = departure \ {m}
  /\ IF present[m] = {} THEN UNCHANGED <<present, viewing, leaving, announced, unsure, adrift>>
     ELSE Announce(m, present[m], {}) \/ BreakOff(m, present[m], {})
  /\ UNCHANGED <<socket, typing, kept>>

(* The timer fires. Bound: not while an earlier departure of the member    *)
(* still announces, which would take it the five seconds of the timer.     *)
FireDeparture(m) ==
  /\ m \in departure /\ ~leaving[m].running
  /\ departure' = departure \ {m}
  /\ IF Connected(m) THEN UNCHANGED <<present, viewing, leaving, announced, unsure, adrift>>
     ELSE IF present[m] = {} THEN Forget(m)
     ELSE Announce(m, present[m], {}) \/ BreakOff(m, present[m], {})
  /\ UNCHANGED <<socket, typing, kept>>

(* Faulty variant: one announcement for all. *)
GoOnForgetting(m) ==
  /\ leaving[m].running
  /\ Forget(m)
  /\ UNCHANGED <<socket, typing, departure, kept>>

GoOnDeparting(m) ==
  /\ leaving[m].running
  /\ LET run == leaving[m]
     IN  IF run.left = {} THEN Forget(m)
         ELSE Announce(m, run.left, run.gone) \/ BreakOff(m, run.left, run.gone)
  /\ UNCHANGED <<socket, typing, departure, kept>>

PresenceNext ==
  \E m \in People :
    \/ \E c \in Sockets : Connect(m, c)
    \/ \E c \in Sockets : socket[c] = m /\ Disconnect(c)
    \/ \E w \in Workspaces : Join(m, w) \/ Leave(m, w)
    \/ \E v \in Videos :
         OpenVideo(m, v) \/ CloseVideo(m, v) \/ StartTyping(m, v) \/ StopTyping(m, v)
    \/ FireDeparture(m) \/ GoOnDeparting(m)

PresenceSpec == PresenceInit /\ [][PresenceNext]_presenceVars

---------------------------------------------------------------------------
(* The maps hold what they are named for; a departure is pending only for  *)
(* a member without a connection.                                          *)
PresenceTypeOK ==
  /\ socket \in [Sockets -> People \union {Nobody}]
  /\ present \in [People -> SUBSET Workspaces]
  /\ viewing \in [People -> SUBSET Videos]
  /\ typing \in [People -> SUBSET Videos]
  /\ departure \subseteq People
  /\ leaving \in [People -> [running: BOOLEAN, left: SUBSET Workspaces,
                             gone: SUBSET Workspaces]]
  /\ \A m \in departure : ~Connected(m)

(* What the other members were last told is what the node holds: between   *)
(* departures a member is present exactly where it was last announced,     *)
(* however joins, leaves and the announcements of departures interleave.   *)
(* The exceptions are the workspaces in unsure: the last event about them  *)
(* was rejected, an earlier departure broke off after announcing them, or  *)
(* the member joined them while its own departure was still announcing.    *)
AnnouncedIsPresent ==
  \A m \in People :
    ~leaving[m].running => announced[m] \ unsure[m] = present[m] \ unsure[m]

(* Nobody stays present, or a viewer, without a connection: a departure is *)
(* then pending or running, except for the members in adrift. They called  *)
(* join or openVideo without a connection, or a rejected publication ended *)
(* their departure; the node has no timer for either.                      *)
NoGhostPresence ==
  \A m \in People :
    (~Connected(m) /\ (present[m] # {} \/ viewing[m] # {})) =>
      (m \in departure \/ leaving[m].running \/ m \in adrift)

(* A departure does not take a member that is back: where it is present    *)
(* when it connects, and what it joins from then on, it stays present      *)
(* until it leaves or its last connection closes, whatever timers were     *)
(* armed before. A departure that had begun to announce is the exception:  *)
(* kept does not grow while one runs.                                      *)
ReturnedStaysPresent ==
  \A m \in People : kept[m] \subseteq present[m]
=============================================================================
