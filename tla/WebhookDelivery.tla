-------------------------- MODULE WebhookDelivery --------------------------
(* WebhookDeliveryWorker.deliver against the subscriptions its members     *)
(* register and delete meanwhile. A delivery takes a snapshot of the       *)
(* subscriptions to the event and serves them in turn; before each attempt *)
(* it looks the subscription up again. Nothing of it survives the process. *)
EXTENDS Naturals, Sequences, SequencesExt

CONSTANTS
  Subscriptions,  \* ids, each registered at most once
  Deliveries,     \* one per event
  MAX_RETRIES

ASSUME RetriesAssumption == MAX_RETRIES \in Nat

VARIABLES
  subscription,   \* subscription -> "unregistered", "live" or "deleted"
  delivery,       \* delivery -> where it stands
  audience,       \* delivery -> the snapshot it took
  outcomes,       \* delivery -> subscription -> recorded outcome
  contacts,       \* history: delivery -> subscription -> requests sent
  late,           \* history: of them, those sent after the deletion
  answers         \* history: delivery -> subscription -> 2xx answers

hookVars == <<subscription, delivery, audience, outcomes, contacts,
              late, answers>>
hookHistory == <<contacts, late, answers>>

Live == {s \in Subscriptions : subscription[s] = "live"}
Zeros == [d \in Deliveries |-> [s \in Subscriptions |-> 0]]
NoOutcome == [reason |-> "none", attempts |-> 0]
Dormant == [at |-> "created", queue |-> <<>>, attempts |-> 0]

HookInit ==
  /\ subscription = [s \in Subscriptions |-> "unregistered"]
  /\ delivery = [d \in Deliveries |-> Dormant]
  /\ audience = [d \in Deliveries |-> {}]
  /\ outcomes = [d \in Deliveries |-> [s \in Subscriptions |-> NoOutcome]]
  /\ contacts = Zeros
  /\ late = Zeros
  /\ answers = Zeros

Register(s) ==
  /\ subscription[s] = "unregistered"
  /\ subscription' = [subscription EXCEPT ![s] = "live"]
  /\ UNCHANGED <<delivery, audience, outcomes, hookHistory>>

Delete(s) ==
  /\ subscription[s] = "live"
  /\ subscription' = [subscription EXCEPT ![s] = "deleted"]
  /\ UNCHANGED <<delivery, audience, outcomes, hookHistory>>

---------------------------------------------------------------------------
(* Where a delivery goes with the subscriptions q still to serve. *)
Turn(q) == [at |-> IF q = <<>> THEN "returned" ELSE "lookup", queue |-> q, attempts |-> 0]

(* listByEvent. *)
Deliver(d) ==
  /\ delivery[d].at = "created"
  /\ \E q \in SetToSeqs(Live) : delivery' = [delivery EXCEPT ![d] = Turn(q)]
  /\ audience' = [audience EXCEPT ![d] = Live]
  /\ UNCHANGED <<subscription, outcomes, hookHistory>>

(* Faulty variant: an exhausted subscription rejects the whole delivery. *)
FinishRejects(d, reason, attempts) ==
  /\ outcomes' = [outcomes EXCEPT ![d][Head(delivery[d].queue)] =
                    [reason |-> reason, attempts |-> attempts]]
  /\ delivery' = [delivery EXCEPT ![d] =
                    Turn(IF reason = "exhausted" THEN <<>> ELSE Tail(@.queue))]

Finish(d, reason, attempts) ==
  /\ outcomes' = [outcomes EXCEPT ![d][Head(delivery[d].queue)] =
                    [reason |-> reason, attempts |-> attempts]]
  /\ delivery' = [delivery EXCEPT ![d] = Turn(Tail(@.queue))]

(* Faulty variant: looks the subscription up before the first attempt only. *)
LookUpOnce(d) ==
  /\ delivery[d].at = "lookup"
  /\ IF subscription[Head(delivery[d].queue)] = "live" \/ delivery[d].attempts > 0
     THEN delivery' = [delivery EXCEPT ![d].at = "post"] /\ UNCHANGED outcomes
     ELSE Finish(d, "deleted", delivery[d].attempts)
  /\ UNCHANGED <<subscription, audience, hookHistory>>

LookUp(d) ==
  /\ delivery[d].at = "lookup"
  /\ IF subscription[Head(delivery[d].queue)] = "live"
     THEN delivery' = [delivery EXCEPT ![d].at = "post"] /\ UNCHANGED outcomes
     ELSE Finish(d, "deleted", delivery[d].attempts)
  /\ UNCHANGED <<subscription, audience, hookHistory>>

(* Faulty variant: a retry is due while attempts <= MAX_RETRIES + 1. *)
OneRetryMore(attempts) == attempts <= MAX_RETRIES + 1

(* Whether the loop goes on after so many attempts. *)
RetryLeft(attempts) == attempts < MAX_RETRIES + 1

(* attemptDelivery: the endpoint answers 2xx, or anything else: another    *)
(* status, a timeout, no connection. A delivered event ends the turn, the  *)
(* last failure too; any other failure is followed by the backoff.         *)
Post(d) ==
  LET s == Head(delivery[d].queue)
      attempts == delivery[d].attempts + 1
      Answered(ok) ==
        IF ok THEN Finish(d, "delivered", attempts)
        ELSE IF ~RetryLeft(attempts) THEN Finish(d, "exhausted", attempts)
        ELSE /\ delivery' = [delivery EXCEPT ![d].at = "lookup", ![d].attempts = attempts]
             /\ UNCHANGED outcomes
  IN /\ delivery[d].at = "post"
     /\ contacts' = [contacts EXCEPT ![d][s] = @ + 1]
     /\ late' = IF subscription[s] = "deleted" THEN [late EXCEPT ![d][s] = @ + 1] ELSE late
     /\ \E ok \in BOOLEAN :
          /\ Answered(ok)
          /\ answers' = IF ok THEN [answers EXCEPT ![d][s] = @ + 1] ELSE answers
     /\ UNCHANGED <<subscription, audience>>

(* The process stops: its deliveries are forgotten. *)
StopWorker ==
  /\ \E d \in Deliveries : delivery[d].at \in {"lookup", "post"}
  /\ delivery' = [d \in Deliveries |->
       IF delivery[d].at \in {"lookup", "post"} THEN [Dormant EXCEPT !.at = "lost"]
       ELSE delivery[d]]
  /\ UNCHANGED <<subscription, audience, outcomes, hookHistory>>

HookNext ==
  \/ \E s \in Subscriptions : Register(s) \/ Delete(s)
  \/ \E d \in Deliveries : Deliver(d) \/ LookUp(d) \/ Post(d)
  \/ StopWorker

HookSpec == HookInit /\ [][HookNext]_hookVars

---------------------------------------------------------------------------
(* Deliveries queue each subscription once, and only unfinished ones have  *)
(* a queue or a count of attempts; no delivery attempts more than          *)
(* MAX_RETRIES + 1 times.                                                  *)
HookTypeOK ==
  /\ subscription \in [Subscriptions -> {"unregistered", "live", "deleted"}]
  /\ \A d \in Deliveries :
       /\ delivery[d].at \in {"created", "lookup", "post", "returned", "lost"}
       /\ IsInjective(delivery[d].queue)
       /\ delivery[d].at \in {"lookup", "post"} <=> delivery[d].queue # <<>>
       /\ \A s \in Subscriptions :
            /\ outcomes[d][s].reason \in {"none", "delivered", "exhausted", "deleted"}
            /\ contacts[d][s] \in 0..MAX_RETRIES + 1

(* R19.7: after a subscription is deleted each delivery sends it at most   *)
(* one more request, the one whose lookup came before the deletion.        *)
DeletionStops ==
  \A d \in Deliveries, s \in Subscriptions : late[d][s] <= 1

(* What deliver reports is what happened: a delivered subscription         *)
(* answered 2xx once, at its last attempt; an exhausted one never, after   *)
(* MAX_RETRIES + 1 attempts; one is reported deleted only if it was. When  *)
(* it returned, exactly the subscriptions of its snapshot have an outcome: *)
(* no endpoint costs another its event.                                    *)
OutcomesAccount ==
  \A d \in Deliveries :
    /\ \A s \in Subscriptions :
         LET o == outcomes[d][s] IN
         o.reason # "none" =>
           /\ o.attempts = contacts[d][s]
           /\ answers[d][s] = (IF o.reason = "delivered" THEN 1 ELSE 0)
           /\ o.reason = "exhausted" => o.attempts = MAX_RETRIES + 1
           /\ o.reason = "deleted" => subscription[s] = "deleted"
    /\ delivery[d].at = "returned" =>
         audience[d] = {s \in Subscriptions : outcomes[d][s].reason # "none"}
=============================================================================
