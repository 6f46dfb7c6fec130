----------------------------- MODULE MCServices -----------------------------
(* Instances of the services that share no state: a behaviour is one of    *)
(* one service, chosen at the start, with the others at rest.              *)
EXTENDS OrgMembership, ContentTree, ShareLink, WebhookDelivery, Presence,
        CommentQueue, TLC

CONSTANT Services

VARIABLE live  \* the service that runs

ServicesInit ==
  /\ live \in Services
  /\ OrgInit /\ TreeInit /\ ShareInit /\ HookInit /\ PresenceInit /\ QueueInit
  /\ live # "organizations" => store = "postgres"  \* at rest
  /\ live # "comments" => ~online

ServicesNext ==
  \/ live = "organizations" /\ OrgNext
     /\ UNCHANGED <<live, treeVars, shareVars, hookVars, presenceVars, queueVars>>
  \/ live = "folders" /\ TreeNext
     /\ UNCHANGED <<live, orgVars, shareVars, hookVars, presenceVars, queueVars>>
  \/ live = "links" /\ ShareNext
     /\ UNCHANGED <<live, orgVars, treeVars, hookVars, presenceVars, queueVars>>
  \/ live = "webhooks" /\ HookNext
     /\ UNCHANGED <<live, orgVars, treeVars, shareVars, presenceVars, queueVars>>
  \/ live = "presence" /\ PresenceNext
     /\ UNCHANGED <<live, orgVars, treeVars, shareVars, hookVars, queueVars>>
  \/ live = "comments" /\ QueueNext
     /\ UNCHANGED <<live, orgVars, treeVars, shareVars, hookVars, presenceVars>>

ServicesSpec ==
  ServicesInit
  /\ [][ServicesNext]_<<live, orgVars, treeVars, shareVars, hookVars, presenceVars, queueVars>>

(* Over the repository store a user joins once: its delete-and-insert      *)
(* states are many, and a second membership adds no case to them.          *)
Joins == [s \in Stores |-> IF s = "postgres" THEN 2 ELSE 1]

(* Only the organization's users and requests are interchanged. *)
Interchange == Permutations(Users) \union Permutations(Requests)
=============================================================================
