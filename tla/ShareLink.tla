----------------------------- MODULE ShareLink -----------------------------
(* One share link: createLink, revoke and resolve of ShareService. A       *)
(* request reads the row, decides, and writes its copy of the row back by  *)
(* DELETE and INSERT; requests interleave between the three, and may be    *)
(* cut off at any await. Requests that write nothing are left out.         *)
EXTENDS Naturals

CONSTANTS
  Visits,                \* requests that may be served at the same time
  MAX_PASSCODE_ATTEMPTS

ASSUME AttemptsAssumption == MAX_PASSCODE_ATTEMPTS \in Nat \ {0}

VARIABLES
  link,     \* the row, with the state it is in
  expired,  \* whether expiresAt has passed
  visit,    \* request -> what it has still to write
  wrong,    \* history: wrong passcodes since the last right one or lock
  mixed,    \* history: requests overlapped, or one was cut off
  told,     \* history: a revoke returned
  sealed    \* history: one did while nobody held an older copy of the row

shareVars == <<link, expired, visit, wrong, mixed, told, sealed>>

(* The lock is "elapsed" while lockedUntil is set and past. *)
Link == [at: {"absent", "stored", "deleted"}, protected: BOOLEAN, revoked: BOOLEAN,
         failed: 0..MAX_PASSCODE_ATTEMPTS, lock: {"none", "active", "elapsed"}]
Blank == [at |-> "absent", protected |-> FALSE, revoked |-> FALSE,
          failed |-> 0, lock |-> "none"]

Waiting == [op |-> "none", step |-> "idle", copy |-> Blank]
Visited(v) == visit[v].op # "none"
EndVisit(v) == visit' = [visit EXCEPT ![v] = Waiting]

(* A request has read the row and goes on to update it. *)
Rewrite(v, op, copy) ==
  /\ ~Visited(v)
  /\ visit' = [visit EXCEPT ![v] = [op |-> op, step |-> "delete", copy |-> copy]]
  /\ mixed' = (mixed \/ \E w \in Visits : Visited(w))

ShareInit ==
  /\ link = Blank
  /\ expired = FALSE
  /\ visit = [v \in Visits |-> Waiting]
  /\ wrong = 0
  /\ mixed = FALSE
  /\ told = FALSE
  /\ sealed = FALSE

---------------------------------------------------------------------------
CreateLink ==
  /\ link.at = "absent"
  /\ \E p \in BOOLEAN : link' = [Blank EXCEPT !.at = "stored", !.protected = p]
  /\ UNCHANGED <<expired, visit, wrong, mixed, told, sealed>>

(* What resolve lets as far as the passcode. *)
Evaluated(l) ==
  l.at = "stored" /\ ~l.revoked /\ ~expired /\ l.lock # "active" /\ l.protected

(* Faulty variant: an elapsed lock leaves its count behind. *)
BaseOfCount(l) == l.failed

BaseAttempts(l) == IF l.lock # "none" THEN 0 ELSE l.failed

(* The matching passcode: a row with failures or a lock is cleared. *)
ResolveRight(v) ==
  /\ Evaluated(link)
  /\ link.failed # 0 \/ link.lock # "none"
  /\ Rewrite(v, "resolve", [link EXCEPT !.failed = 0, !.lock = "none"])
  /\ wrong' = 0
  /\ UNCHANGED <<link, expired, told, sealed>>

(* Any other: counted, and the last that is allowed locks. *)
ResolveWrong(v) ==
  LET failed == BaseAttempts(link) + 1
      lock == IF failed >= MAX_PASSCODE_ATTEMPTS THEN "active" ELSE "none"
  IN /\ Evaluated(link)
     /\ Rewrite(v, "resolve", [link EXCEPT !.failed = failed, !.lock = lock])
     /\ wrong' = IF wrong < MAX_PASSCODE_ATTEMPTS THEN wrong + 1 ELSE wrong
     /\ UNCHANGED <<link, expired, told, sealed>>

Revoke(v) ==
  /\ link.at = "stored"
  /\ ~link.revoked
  /\ Rewrite(v, "revoke", [link EXCEPT !.revoked = TRUE])
  /\ UNCHANGED <<link, expired, wrong, told, sealed>>

(* revoke returns when its row is stored. *)
OlderCopies(v) == {w \in Visits \ {v} : Visited(w) /\ ~visit[w].copy.revoked}

Tell(v) ==
  IF visit[v].op = "revoke"
  THEN /\ told' = TRUE
       /\ sealed' = (sealed \/ OlderCopies(v) = {})
  ELSE UNCHANGED <<told, sealed>>

(* Faulty variant: revoke does not await its update. *)
DeleteLinkTold(v) ==
  /\ visit[v].step = "delete"
  /\ link' = IF link.at = "stored" /\ visit[v].op # "revoke"
             THEN [Blank EXCEPT !.at = "deleted"] ELSE link
  /\ visit' = [visit EXCEPT ![v].step = "insert"]
  /\ Tell(v)
  /\ UNCHANGED <<expired, wrong, mixed>>

(* store.update: DELETE, which may find no row, then INSERT, which the     *)
(* primary key refuses when another request has put the row back.          *)
DeleteLink(v) ==
  /\ visit[v].step = "delete"
  /\ link' = IF link.at = "stored" THEN [Blank EXCEPT !.at = "deleted"] ELSE link
  /\ visit' = [visit EXCEPT ![v].step = "insert"]
  /\ UNCHANGED <<expired, wrong, mixed, told, sealed>>

InsertLink(v) ==
  /\ visit[v].step = "insert"
  /\ IF link.at = "stored"
     THEN UNCHANGED <<link, told, sealed>>
     ELSE link' = visit[v].copy /\ Tell(v)
  /\ EndVisit(v)
  /\ UNCHANGED <<expired, wrong, mixed>>

(* The process stops, or a store call rejects. *)
CutVisit(v) ==
  /\ Visited(v)
  /\ EndVisit(v)
  /\ mixed' = TRUE
  /\ UNCHANGED <<link, expired, wrong, told, sealed>>

---------------------------------------------------------------------------
(* Requests last milliseconds, the lock fifteen minutes. *)
LockElapses ==
  /\ link.lock = "active"
  /\ \A v \in Visits : ~Visited(v)
  /\ link' = [link EXCEPT !.lock = "elapsed"]
  /\ wrong' = 0
  /\ UNCHANGED <<expired, visit, mixed, told, sealed>>

Expire ==
  /\ ~expired
  /\ expired' = TRUE
  /\ UNCHANGED <<link, visit, wrong, mixed, told, sealed>>

ShareNext ==
  \/ CreateLink \/ LockElapses \/ Expire
  \/ \E v \in Visits :
       \/ ResolveRight(v) \/ ResolveWrong(v) \/ Revoke(v)
       \/ DeleteLink(v) \/ InsertLink(v) \/ CutVisit(v)

ShareSpec == ShareInit /\ [][ShareNext]_shareVars

---------------------------------------------------------------------------
(* Rows and the copies requests hold of them are well formed: the count of *)
(* failures never passes the limit, whoever wrote it.                      *)
ShareTypeOK ==
  /\ link \in Link
  /\ expired \in BOOLEAN /\ mixed \in BOOLEAN /\ told \in BOOLEAN /\ sealed \in BOOLEAN
  /\ wrong \in 0..MAX_PASSCODE_ATTEMPTS
  /\ visit \in [Visits -> [op: {"none", "resolve", "revoke"},
                           step: {"idle", "delete", "insert"}, copy: Link]]

(* While requests come one at a time, the link is locked exactly when the  *)
(* last MAX_PASSCODE_ATTEMPTS passcodes were wrong: no earlier failure and *)
(* no elapsed lock counts towards it.                                      *)
SerialFailuresLock ==
  (~mixed /\ link.at = "stored" /\ \A v \in Visits : ~Visited(v)) =>
    (link.lock = "active" <=> wrong = MAX_PASSCODE_ATTEMPTS)

(* Once a revoke returned while no request held an older copy of the row,  *)
(* the link never resolves again, however later requests overlap: the row  *)
(* is revoked or gone for good.                                            *)
RevokedStaysDenied ==
  sealed => link.revoked \/ link.at = "deleted"

(* revoke's promise: after it returned every resolve is denied. A resolve  *)
(* that read the row before and writes its copy back after breaks it.      *)
RevokedDenies ==
  told => link.revoked \/ link.at = "deleted"
=============================================================================
