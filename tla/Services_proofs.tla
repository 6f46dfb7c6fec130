--------------------------- MODULE Services_proofs ---------------------------
(***************************************************************************)
(* Theorems about three services that share no state: ShareLink, Presence  *)
(* and WebhookDelivery.                                                    *)
(***************************************************************************)
EXTENDS ShareLink, Presence, WebhookDelivery, FiniteSetTheorems, TLAPS

------------------------------------------------------------------------------
(* Share links, for any number of requests at a time and any limit of       *)
(* attempts: the counts stay within the limit, requests one at a time lock  *)
(* after exactly the limit, and a revoked link stays denied.                *)

\* A row that is not locked has an attempt left.
Fits(l) == l.lock = "none" => l.failed < MAX_PASSCODE_ATTEMPTS
CountsFit == Fits(link) /\ \A v \in Visits : Fits(visit[v].copy)

\* Requests hold copies of a stored row; one that revokes, a revoked copy.
CopiesStored ==
  \A v \in Visits :
    /\ visit[v].step # "idle" => Visited(v)
    /\ Visited(v) => visit[v].copy.at = "stored"
    /\ visit[v].op = "revoke" => visit[v].copy.revoked

\* Once sealed, no copy that could bring the link back is left.
SealHolds ==
  sealed =>
    /\ link.at = "deleted" \/ (link.at = "stored" /\ link.revoked)
    /\ \A v \in Visits : Visited(v) => visit[v].copy.revoked

\* What a row says of the wrong passcodes is what was entered.
Tallies(l) ==
  /\ l.lock = "active" <=> wrong = MAX_PASSCODE_ATTEMPTS
  /\ l.lock = "none" => l.failed = wrong
  /\ l.lock = "elapsed" => wrong = 0

\* One at a time, the request's copy, or the row between requests, has the
\* right count, and the row is gone while the request is to insert it.
SerialTally ==
  /\ link.at = "absent" => wrong = 0 /\ \A v \in Visits : ~Visited(v)
  /\ ~mixed =>
       /\ \A v, w \in Visits : Visited(v) /\ Visited(w) => v = w
       /\ \A v \in Visits : Visited(v) => Tallies(visit[v].copy)
       /\ \A v \in Visits : visit[v].step = "insert" => Visited(v) /\ link.at = "deleted"
       /\ (\A v \in Visits : ~Visited(v)) /\ link.at = "stored" => Tallies(link)

ShareTypes == ShareTypeOK /\ CountsFit
ShareDenies == CopiesStored /\ SealHolds

------------------------------------------------------------------------------
\* What createLink stores and DELETE leaves; no request holds the blank row.
LEMMA BlankRow ==
  /\ Blank \in Link
  /\ Blank.failed = 0 /\ Blank.lock = "none" /\ ~Blank.revoked /\ Blank.at = "absent"
  /\ 0 \in 0..MAX_PASSCODE_ATTEMPTS
  /\ Fits(Blank)
  BY AttemptsAssumption DEF Link, Blank, Fits

\* The row createLink stores.
LEMMA CreatedRow ==
  ASSUME CreateLink
  PROVE  /\ link' \in Link
         /\ link'.at = "stored" /\ link'.failed = 0 /\ link'.lock = "none"
<1>1. PICK p \in BOOLEAN : link' = [Blank EXCEPT !.at = "stored", !.protected = p]
  BY DEF CreateLink
<1>. QED
  BY <1>1, BlankRow DEF Link

\* The row gone between DELETE and INSERT.
LEMMA DeletedRow ==
  LET row == [Blank EXCEPT !.at = "deleted"] IN
  /\ row \in Link
  /\ row.failed = 0 /\ row.lock = "none" /\ row.at = "deleted"
  BY BlankRow DEF Link

\* A lock that has elapsed leaves the rest of the row.
LEMMA ElapsedRow ==
  ASSUME link \in Link,
         LockElapses
  PROVE  /\ link' \in Link
         /\ link'.lock = "elapsed" /\ link'.revoked = link.revoked /\ link'.at = link.at
  BY DEF LockElapses, Link

\* What a request that goes on to write changes, and what one that ends.
LEMMA RewriteEffect ==
  ASSUME ShareTypes,
         NEW v \in Visits,
         NEW op \in {"resolve", "revoke"},
         NEW copy \in Link,
         Rewrite(v, op, copy)
  PROVE  /\ visit'[v].op = op /\ visit'[v].step = "delete" /\ visit'[v].copy = copy
         /\ ~Visited(v) /\ Visited(v)'
         /\ \A w \in Visits \ {v} : visit'[w] = visit[w] /\ (Visited(w)' <=> Visited(w))
         /\ ~mixed' => ~mixed /\ \A w \in Visits : ~Visited(w)
  BY DEF Rewrite, ShareTypes, ShareTypeOK, Visited

\* A request that ends leaves the others.
LEMMA EndEffect ==
  ASSUME ShareTypes,
         NEW v \in Visits,
         EndVisit(v)
  PROVE  /\ visit'[v] = Waiting /\ ~Visited(v)'
         /\ \A w \in Visits \ {v} : visit'[w] = visit[w] /\ (Visited(w)' <=> Visited(w))
  BY DEF EndVisit, Waiting, ShareTypes, ShareTypeOK, Visited

\* The copies resolve and revoke make of the row they read.
LEMMA RightCopy ==
  ASSUME link \in Link,
         NEW v \in Visits,
         ResolveRight(v)
  PROVE  \E copy \in Link :
           /\ Rewrite(v, "resolve", copy)
           /\ copy.failed = 0 /\ copy.lock = "none"
           /\ copy.at = "stored" /\ link.at = "stored" /\ ~link.revoked
<1> DEFINE copy == [link EXCEPT !.failed = 0, !.lock = "none"]
<1>1. copy \in Link /\ copy.failed = 0 /\ copy.lock = "none" /\ copy.at = link.at
  BY BlankRow DEF Link
<1>2. Rewrite(v, "resolve", copy) /\ link.at = "stored" /\ ~link.revoked
  BY DEF ResolveRight, Evaluated
<1> HIDE DEF copy
<1>. QED
  BY <1>1, <1>2

\* A failure counted: at most the limit, and locked at the limit.
LEMMA WrongCopy ==
  ASSUME link \in Link,
         Fits(link),
         NEW v \in Visits,
         ResolveWrong(v)
  PROVE  \E copy \in Link :
           /\ Rewrite(v, "resolve", copy)
           /\ copy.failed = BaseAttempts(link) + 1
           /\ copy.lock = IF copy.failed = MAX_PASSCODE_ATTEMPTS THEN "active" ELSE "none"
           /\ Fits(copy)
           /\ copy.at = "stored" /\ link.at = "stored" /\ ~link.revoked
<1> DEFINE failed == BaseAttempts(link) + 1
           lock == IF failed >= MAX_PASSCODE_ATTEMPTS THEN "active" ELSE "none"
           copy == [link EXCEPT !.failed = failed, !.lock = lock]
<1>1. link.at = "stored" /\ ~link.revoked /\ link.lock # "active"
  BY DEF ResolveWrong, Evaluated
<1>2. failed \in 0..MAX_PASSCODE_ATTEMPTS
  BY <1>1, AttemptsAssumption DEF BaseAttempts, Fits, Link
<1>3. lock = IF failed = MAX_PASSCODE_ATTEMPTS THEN "active" ELSE "none"
  BY <1>2, AttemptsAssumption
<1>4. Rewrite(v, "resolve", copy)
  BY DEF ResolveWrong
<1>5. lock \in {"none", "active"}
  OBVIOUS
<1> HIDE DEF failed, lock
<1>6. copy \in Link /\ copy.failed = failed /\ copy.lock = lock /\ copy.at = link.at
  BY <1>2, <1>5 DEF Link
<1> HIDE DEF copy
<1>7. Fits(copy)
  BY <1>2, <1>3, <1>6, AttemptsAssumption DEF Fits
<1>. QED
  BY <1>1, <1>3, <1>4, <1>6, <1>7 DEF failed

\* A revocation changes one flag.
LEMMA RevokedCopy ==
  ASSUME link \in Link,
         NEW v \in Visits,
         Revoke(v)
  PROVE  \E copy \in Link :
           /\ Rewrite(v, "revoke", copy)
           /\ copy.revoked
           /\ copy.failed = link.failed /\ copy.lock = link.lock
           /\ copy.at = "stored" /\ link.at = "stored" /\ ~link.revoked
<1> DEFINE copy == [link EXCEPT !.revoked = TRUE]
<1>1. copy \in Link /\ copy.revoked /\ copy.failed = link.failed /\ copy.lock = link.lock /\ copy.at = link.at
  BY DEF Link
<1>2. Rewrite(v, "revoke", copy) /\ link.at = "stored" /\ ~link.revoked
  BY DEF Revoke
<1> HIDE DEF copy
<1>. QED
  BY <1>1, <1>2

\* Every step is one of the actions or changes nothing.
LEMMA ShareCases ==
  ASSUME [ShareNext]_shareVars
  PROVE  \/ CreateLink
         \/ LockElapses
         \/ Expire
         \/ \E v \in Visits : ResolveRight(v)
         \/ \E v \in Visits : ResolveWrong(v)
         \/ \E v \in Visits : Revoke(v)
         \/ \E v \in Visits : DeleteLink(v)
         \/ \E v \in Visits : InsertLink(v)
         \/ \E v \in Visits : CutVisit(v)
         \/ UNCHANGED shareVars
  BY DEF ShareNext

\* ShareTypes are preserved: a request that counts a failure read a row with an
\* attempt left.
LEMMA ShareTypeStep ==
  ASSUME ShareTypes,
         [ShareNext]_shareVars
  PROVE  ShareTypes'
<1>1. ASSUME CreateLink
      PROVE  ShareTypes'
  BY <1>1, CreatedRow, BlankRow
     DEF CreateLink, ShareTypes, ShareTypeOK, CountsFit, Fits
<1>2. ASSUME LockElapses
      PROVE  ShareTypes'
  <2>1. link \in Link
    BY DEF ShareTypes, ShareTypeOK
  <2>. QED
    BY <1>2, <2>1, ElapsedRow, AttemptsAssumption
       DEF LockElapses, ShareTypes, ShareTypeOK, CountsFit, Fits
<1>3. ASSUME Expire
      PROVE  ShareTypes'
  BY <1>3 DEF Expire, ShareTypes, CountsFit, ShareTypeOK
<1>4. ASSUME NEW v \in Visits, ResolveRight(v)
      PROVE  ShareTypes'
  <2>1. link \in Link /\ Fits(link)
    BY DEF ShareTypes, CountsFit, ShareTypeOK
  <2>2. PICK copy \in Link :
            /\ Rewrite(v, "resolve", copy)
            /\ copy.failed = 0 /\ copy.lock = "none"
            /\ copy.at = "stored" /\ link.at = "stored" /\ ~link.revoked
    BY <1>4, <2>1, RightCopy
  <2>. QED
    BY <1>4, <2>1, <2>2, AttemptsAssumption
       DEF ResolveRight, Rewrite, ShareTypes, ShareTypeOK, CountsFit, Fits
<1>5. ASSUME NEW v \in Visits, ResolveWrong(v)
      PROVE  ShareTypes'
  <2>1. link \in Link /\ Fits(link)
    BY DEF ShareTypes, CountsFit, ShareTypeOK
  <2>2. PICK copy \in Link :
            /\ Rewrite(v, "resolve", copy)
            /\ copy.failed = BaseAttempts(link) + 1
            /\ copy.lock = IF copy.failed = MAX_PASSCODE_ATTEMPTS THEN "active" ELSE "none"
            /\ Fits(copy)
            /\ copy.at = "stored" /\ link.at = "stored" /\ ~link.revoked
    BY <1>5, <2>1, WrongCopy
  <2>. QED
    BY <1>5, <2>1, <2>2, AttemptsAssumption
       DEF ResolveWrong, Rewrite, ShareTypes, ShareTypeOK, CountsFit
<1>6. ASSUME NEW v \in Visits, Revoke(v)
      PROVE  ShareTypes'
  <2>1. link \in Link /\ Fits(link)
    BY DEF ShareTypes, CountsFit, ShareTypeOK
  <2>2. PICK copy \in Link :
            /\ Rewrite(v, "revoke", copy)
            /\ copy.revoked
            /\ copy.failed = link.failed /\ copy.lock = link.lock
            /\ copy.at = "stored" /\ link.at = "stored" /\ ~link.revoked
    BY <1>6, <2>1, RevokedCopy
  <2>3. /\ visit'[v].op = "revoke" /\ visit'[v].step = "delete" /\ visit'[v].copy = copy
        /\ ~Visited(v) /\ Visited(v)'
        /\ \A w \in Visits \ {v} : visit'[w] = visit[w] /\ (Visited(w)' <=> Visited(w))
        /\ ~mixed' => ~mixed /\ \A w \in Visits : ~Visited(w)
    BY <2>2, RewriteEffect
  <2>4. Fits(copy)
    BY <2>1, <2>2 DEF Fits
  <2>5. UNCHANGED <<link, expired, wrong, told, sealed>>
    BY <1>6 DEF Revoke
  <2>6. ShareTypeOK'
    BY <2>2, <2>5 DEF Rewrite, ShareTypes, ShareTypeOK
  <2>7. CountsFit'
    BY <2>2, <2>3, <2>4, <2>5 DEF ShareTypes, CountsFit
  <2>. QED
    BY <2>6, <2>7 DEF ShareTypes
<1>7. ASSUME NEW v \in Visits, DeleteLink(v)
      PROVE  ShareTypes'
  BY <1>7, DeletedRow, AttemptsAssumption
     DEF DeleteLink, ShareTypes, ShareTypeOK, CountsFit, Fits
<1>8. ASSUME NEW v \in Visits, InsertLink(v)
      PROVE  ShareTypes'
  <2>1. /\ visit' = [visit EXCEPT ![v] = Waiting]
        /\ link' = link \/ link' = visit[v].copy
        /\ UNCHANGED <<expired, wrong, mixed>>
    BY <1>8 DEF InsertLink, EndVisit
  <2>2. told' \in BOOLEAN /\ sealed' \in BOOLEAN
    BY <1>8 DEF InsertLink, Tell, ShareTypes, ShareTypeOK
  <2>. QED
    BY <2>1, <2>2, BlankRow DEF Waiting, ShareTypes, ShareTypeOK, CountsFit
<1>9. ASSUME NEW v \in Visits, CutVisit(v)
      PROVE  ShareTypes'
  BY <1>9, BlankRow
     DEF CutVisit, EndVisit, Waiting, ShareTypes, ShareTypeOK, CountsFit
<1>10. CASE UNCHANGED shareVars
  BY <1>10 DEF shareVars, ShareTypes, CountsFit, ShareTypeOK
<1>. QED
  BY ShareCases, <1>1, <1>2, <1>3, <1>4, <1>5, <1>6, <1>7, <1>8, <1>9, <1>10

\* After the seal only revoked copies are ever written back.
LEMMA ShareDeniesStep ==
  ASSUME ShareTypes,
         ShareDenies,
         [ShareNext]_shareVars
  PROVE  ShareDenies'
<1>1. ASSUME CreateLink
      PROVE  ShareDenies'
  BY <1>1 DEF CreateLink, ShareDenies, CopiesStored, SealHolds, Visited
<1>2. ASSUME LockElapses
      PROVE  ShareDenies'
  <2>1. link \in Link
    BY DEF ShareTypes, ShareTypeOK
  <2>. QED
    BY <1>2, <2>1
       DEF LockElapses, ShareDenies, CopiesStored, SealHolds, Visited
<1>3. ASSUME Expire
      PROVE  ShareDenies'
  BY <1>3 DEF Expire, ShareDenies, CopiesStored, SealHolds, Visited
<1>4. ASSUME NEW v \in Visits, ResolveRight(v)
      PROVE  ShareDenies'
  <2>1. link \in Link /\ Fits(link)
    BY DEF ShareTypes, CountsFit, ShareTypeOK
  <2>2. PICK copy \in Link :
            /\ Rewrite(v, "resolve", copy)
            /\ copy.failed = 0 /\ copy.lock = "none"
            /\ copy.at = "stored" /\ link.at = "stored" /\ ~link.revoked
    BY <1>4, <2>1, RightCopy
  <2>3. /\ visit'[v].op = "resolve" /\ visit'[v].step = "delete" /\ visit'[v].copy = copy
        /\ ~Visited(v) /\ Visited(v)'
        /\ \A w \in Visits \ {v} : visit'[w] = visit[w] /\ (Visited(w)' <=> Visited(w))
        /\ ~mixed' => ~mixed /\ \A w \in Visits : ~Visited(w)
    BY <2>2, RewriteEffect
  <2>. QED
    BY <1>4, <2>1, <2>2, <2>3
       DEF ResolveRight, ShareDenies, CopiesStored, SealHolds
<1>5. ASSUME NEW v \in Visits, ResolveWrong(v)
      PROVE  ShareDenies'
  <2>1. link \in Link /\ Fits(link)
    BY DEF ShareTypes, CountsFit, ShareTypeOK
  <2>2. PICK copy \in Link :
            /\ Rewrite(v, "resolve", copy)
            /\ copy.failed = BaseAttempts(link) + 1
            /\ copy.lock = IF copy.failed = MAX_PASSCODE_ATTEMPTS THEN "active" ELSE "none"
            /\ Fits(copy)
            /\ copy.at = "stored" /\ link.at = "stored" /\ ~link.revoked
    BY <1>5, <2>1, WrongCopy
  <2>3. /\ visit'[v].op = "resolve" /\ visit'[v].step = "delete" /\ visit'[v].copy = copy
        /\ ~Visited(v) /\ Visited(v)'
        /\ \A w \in Visits \ {v} : visit'[w] = visit[w] /\ (Visited(w)' <=> Visited(w))
        /\ ~mixed' => ~mixed /\ \A w \in Visits : ~Visited(w)
    BY <2>2, RewriteEffect
  <2>. QED
    BY <1>5, <2>1, <2>2, <2>3
       DEF ResolveWrong, ShareDenies, CopiesStored, SealHolds
<1>6. ASSUME NEW v \in Visits, Revoke(v)
      PROVE  ShareDenies'
  <2>1. link \in Link /\ Fits(link)
    BY DEF ShareTypes, CountsFit, ShareTypeOK
  <2>2. PICK copy \in Link :
            /\ Rewrite(v, "revoke", copy)
            /\ copy.revoked
            /\ copy.failed = link.failed /\ copy.lock = link.lock
            /\ copy.at = "stored" /\ link.at = "stored" /\ ~link.revoked
    BY <1>6, <2>1, RevokedCopy
  <2>3. /\ visit'[v].op = "revoke" /\ visit'[v].step = "delete" /\ visit'[v].copy = copy
        /\ ~Visited(v) /\ Visited(v)'
        /\ \A w \in Visits \ {v} : visit'[w] = visit[w] /\ (Visited(w)' <=> Visited(w))
        /\ ~mixed' => ~mixed /\ \A w \in Visits : ~Visited(w)
    BY <2>2, RewriteEffect
  <2>. QED
    BY <1>6, <2>1, <2>2, <2>3 DEF Revoke, ShareDenies, CopiesStored, SealHolds
<1>7. ASSUME NEW v \in Visits, DeleteLink(v)
      PROVE  ShareDenies'
  BY <1>7 DEF DeleteLink, ShareDenies, CopiesStored, SealHolds, Visited
<1>8. ASSUME NEW v \in Visits, InsertLink(v)
      PROVE  ShareDenies'
  <2>1. /\ visit'[v] = Waiting /\ ~Visited(v)'
        /\ \A w \in Visits \ {v} : visit'[w] = visit[w] /\ (Visited(w)' <=> Visited(w))
    BY <1>8, EndEffect DEF InsertLink
  <2>2. Visited(v)
    BY <1>8 DEF InsertLink, CopiesStored, ShareDenies
  <2>3. Waiting.step = "idle" /\ Waiting.op = "none"
    BY DEF Waiting
  <2>4. CASE link.at = "stored"
    BY <1>8, <2>1, <2>2, <2>3, <2>4
       DEF InsertLink, CopiesStored, ShareDenies, SealHolds
  <2>5. CASE link.at # "stored"
    BY <1>8, <2>1, <2>2, <2>3, <2>5
       DEF InsertLink, Tell, OlderCopies, CopiesStored, ShareDenies, SealHolds
  <2>. QED
    BY <2>4, <2>5
<1>9. ASSUME NEW v \in Visits, CutVisit(v)
      PROVE  ShareDenies'
  BY <1>9
     DEF CutVisit, EndVisit, Waiting, Waiting, ShareDenies, CopiesStored,
         SealHolds, Visited
<1>10. CASE UNCHANGED shareVars
  BY <1>10 DEF shareVars, ShareDenies, CopiesStored, SealHolds, Visited
<1>. QED
  BY ShareCases, <1>1, <1>2, <1>3, <1>4, <1>5, <1>6, <1>7, <1>8, <1>9, <1>10

\* Requests that come one at a time keep the count.
LEMMA TallyStep ==
  ASSUME ShareTypes,
         CopiesStored,
         SerialTally,
         [ShareNext]_shareVars
  PROVE  SerialTally'
<1>1. ASSUME CreateLink
      PROVE  SerialTally'
  BY <1>1, BlankRow, AttemptsAssumption
     DEF CreateLink, SerialTally, Tallies, Visited
<1>2. ASSUME LockElapses
      PROVE  SerialTally'
  <2>1. link \in Link
    BY DEF ShareTypes, ShareTypeOK
  <2>. QED
    BY <1>2, <2>1, AttemptsAssumption
       DEF LockElapses, SerialTally, Tallies, Visited
<1>3. ASSUME Expire
      PROVE  SerialTally'
  BY <1>3 DEF Expire, SerialTally, Tallies, Visited
<1>4. ASSUME NEW v \in Visits, ResolveRight(v)
      PROVE  SerialTally'
  <2>1. link \in Link /\ Fits(link)
    BY DEF ShareTypes, CountsFit, ShareTypeOK
  <2>2. PICK copy \in Link :
            /\ Rewrite(v, "resolve", copy)
            /\ copy.failed = 0 /\ copy.lock = "none"
            /\ copy.at = "stored" /\ link.at = "stored" /\ ~link.revoked
    BY <1>4, <2>1, RightCopy
  <2>3. /\ visit'[v].op = "resolve" /\ visit'[v].step = "delete" /\ visit'[v].copy = copy
        /\ ~Visited(v) /\ Visited(v)'
        /\ \A w \in Visits \ {v} : visit'[w] = visit[w] /\ (Visited(w)' <=> Visited(w))
        /\ ~mixed' => ~mixed /\ \A w \in Visits : ~Visited(w)
    BY <2>2, RewriteEffect
  <2>4. ~mixed' => Tallies(copy)'
    BY <1>4, <2>1, <2>2, <2>3, AttemptsAssumption DEF ResolveRight, Tallies
  <2>. QED
    BY <1>4, <2>1, <2>2, <2>3, <2>4 DEF ResolveRight, SerialTally
<1>5. ASSUME NEW v \in Visits, ResolveWrong(v)
      PROVE  SerialTally'
  <2>1. link \in Link /\ Fits(link)
    BY DEF ShareTypes, CountsFit, ShareTypeOK
  <2>2. PICK copy \in Link :
            /\ Rewrite(v, "resolve", copy)
            /\ copy.failed = BaseAttempts(link) + 1
            /\ copy.lock = IF copy.failed = MAX_PASSCODE_ATTEMPTS THEN "active" ELSE "none"
            /\ Fits(copy)
            /\ copy.at = "stored" /\ link.at = "stored" /\ ~link.revoked
    BY <1>5, <2>1, WrongCopy
  <2>3. /\ visit'[v].op = "resolve" /\ visit'[v].step = "delete" /\ visit'[v].copy = copy
        /\ ~Visited(v) /\ Visited(v)'
        /\ \A w \in Visits \ {v} : visit'[w] = visit[w] /\ (Visited(w)' <=> Visited(w))
        /\ ~mixed' => ~mixed /\ \A w \in Visits : ~Visited(w)
    BY <2>2, RewriteEffect
  <2>4. ASSUME ~mixed' PROVE Tallies(copy)'
    <3>1. Tallies(link) /\ link.lock # "active"
      BY <1>5, <2>2, <2>3, <2>4 DEF ResolveWrong, Evaluated, SerialTally
    <3>2. wrong \in 0..MAX_PASSCODE_ATTEMPTS /\ link.lock \in {"none", "active", "elapsed"}
      BY DEF ShareTypes, ShareTypeOK, Link
    <3>3. wrong < MAX_PASSCODE_ATTEMPTS /\ copy.failed = wrong + 1
      BY <2>2, <3>1, <3>2, AttemptsAssumption DEF Tallies, BaseAttempts
    <3>4. wrong' = copy.failed
      BY <1>5, <3>2, <3>3 DEF ResolveWrong
    <3>. QED
      BY <2>2, <3>2, <3>3, <3>4 DEF Tallies
  <2>. QED
    BY <1>5, <2>1, <2>2, <2>3, <2>4 DEF ResolveWrong, SerialTally
<1>6. ASSUME NEW v \in Visits, Revoke(v)
      PROVE  SerialTally'
  <2>1. link \in Link /\ Fits(link)
    BY DEF ShareTypes, CountsFit, ShareTypeOK
  <2>2. PICK copy \in Link :
            /\ Rewrite(v, "revoke", copy)
            /\ copy.revoked
            /\ copy.failed = link.failed /\ copy.lock = link.lock
            /\ copy.at = "stored" /\ link.at = "stored" /\ ~link.revoked
    BY <1>6, <2>1, RevokedCopy
  <2>3. /\ visit'[v].op = "revoke" /\ visit'[v].step = "delete" /\ visit'[v].copy = copy
        /\ ~Visited(v) /\ Visited(v)'
        /\ \A w \in Visits \ {v} : visit'[w] = visit[w] /\ (Visited(w)' <=> Visited(w))
        /\ ~mixed' => ~mixed /\ \A w \in Visits : ~Visited(w)
    BY <2>2, RewriteEffect
  <2>4. ~mixed' => Tallies(copy)'
    BY <1>6, <2>1, <2>2, <2>3 DEF Revoke, SerialTally, Tallies
  <2>. QED
    BY <1>6, <2>1, <2>2, <2>3, <2>4 DEF Revoke, SerialTally
<1>7. ASSUME NEW v \in Visits, DeleteLink(v)
      PROVE  SerialTally'
  <2>1. /\ visit'[v].op = visit[v].op /\ visit'[v].step = "insert" /\ visit'[v].copy = visit[v].copy
        /\ \A w \in Visits \ {v} : visit'[w] = visit[w]
        /\ \A w \in Visits : Visited(w)' <=> Visited(w)
    BY <1>7 DEF DeleteLink, ShareTypes, ShareTypeOK, Visited
  <2>2. Visited(v)
    BY <1>7 DEF DeleteLink, CopiesStored
  <2>3. link' = link \/ link' = [Blank EXCEPT !.at = "deleted"]
    BY <1>7 DEF DeleteLink
  <2>4. link'.at = "deleted" \/ (link' = link /\ link.at # "stored")
    BY <1>7 DEF DeleteLink
  <2>. QED
    BY <1>7, <2>1, <2>2, <2>3, <2>4
       DEF DeleteLink, SerialTally, Tallies, ShareTypes, ShareTypeOK, Link
<1>8. ASSUME NEW v \in Visits, InsertLink(v)
      PROVE  SerialTally'
  <2>1. /\ visit'[v] = Waiting /\ ~Visited(v)'
        /\ \A w \in Visits \ {v} : visit'[w] = visit[w] /\ (Visited(w)' <=> Visited(w))
    BY <1>8, EndEffect DEF InsertLink
  <2>2. Visited(v)
    BY <1>8 DEF InsertLink, CopiesStored
  <2>3. Waiting.step = "idle" /\ Waiting.op = "none"
    BY DEF Waiting
  <2>4. CASE link.at = "stored"
    BY <1>8, <2>1, <2>2, <2>3, <2>4 DEF InsertLink, SerialTally
  <2>5. CASE link.at # "stored"
    BY <1>8, <2>1, <2>2, <2>3, <2>5
       DEF InsertLink, CopiesStored, SerialTally, Tallies
  <2>. QED
    BY <2>4, <2>5
<1>9. ASSUME NEW v \in Visits, CutVisit(v)
      PROVE  SerialTally'
  BY <1>9 DEF CutVisit, SerialTally
<1>10. CASE UNCHANGED shareVars
  BY <1>10 DEF shareVars, SerialTally, Tallies, Visited
<1>. QED
  BY ShareCases, <1>1, <1>2, <1>3, <1>4, <1>5, <1>6, <1>7, <1>8, <1>9, <1>10

\* A link not yet created has no failures and no requests.
LEMMA ShareInitInv ==
  ShareInit => ShareTypes /\ ShareDenies /\ SerialTally
<1> SUFFICES ASSUME ShareInit PROVE ShareTypes /\ ShareDenies /\ SerialTally
  OBVIOUS
<1>1. \A v \in Visits : visit[v] = Waiting /\ ~Visited(v)
  BY DEF ShareInit, Visited, Waiting
<1>2. ShareTypes
  BY <1>1, BlankRow DEF ShareInit, ShareTypes, ShareTypeOK, CountsFit, Waiting
<1>3. ShareDenies /\ SerialTally
  BY <1>1, BlankRow
     DEF ShareInit, ShareDenies, CopiesStored, SealHolds, SerialTally, Waiting
<1>. QED
  BY <1>2, <1>3

\* The three together are an invariant of every behaviour.
LEMMA ShareInvariant ==
  ShareSpec => [](ShareTypes /\ ShareDenies /\ SerialTally)
<1>1. ShareTypes /\ ShareDenies /\ SerialTally /\ [ShareNext]_shareVars
        => (ShareTypes /\ ShareDenies /\ SerialTally)'
  BY ShareTypeStep, ShareDeniesStep, TallyStep DEF ShareDenies
<1>. QED
  BY ShareInitInv, <1>1, PTL DEF ShareSpec

\* However requests overlap, no row and no copy counts more failures than the
\* limit.
THEOREM ShareTypeCorrect == ShareSpec => []ShareTypeOK
<1>1. ShareTypes => ShareTypeOK
  BY DEF ShareTypes
<1>. QED
  BY <1>1, ShareInvariant, PTL

\* For requests one at a time the link is locked by exactly the limit of wrong
\* passcodes in a row, whatever was revoked or expired in between.
THEOREM SerialLockExact == ShareSpec => []SerialFailuresLock
<1>1. SerialTally => SerialFailuresLock
  BY DEF SerialTally, SerialFailuresLock, Tallies
<1>. QED
  BY <1>1, ShareInvariant, PTL

\* Revoked while no older copy of the row is about, the link never resolves
\* again, for any number of overlapping or interrupted requests.
THEOREM RevocationHolds == ShareSpec => []RevokedStaysDenied
<1>1. ShareDenies => RevokedStaysDenied
  BY DEF ShareDenies, SealHolds, RevokedStaysDenied
<1>. QED
  BY <1>1, ShareInvariant, PTL

------------------------------------------------------------------------------
(* Presence, for any members, connections, workspaces and videos: the other *)
(* members are told what the node holds, nobody without a connection stays  *)
(* present, and nobody that is back is taken away, with the exceptions the  *)
(* module names: rejected publications, calls without a connection, and     *)
(* departures that were running already.                                    *)

\* The histories of what was announced and of who may be where it should not.
HistoryTypes ==
  /\ announced \in [People -> SUBSET Workspaces]
  /\ unsure \in [People -> SUBSET Workspaces]
  /\ adrift \subseteq People
  /\ kept \in [People -> SUBSET Workspaces]

\* Outside the exceptions what was announced is what the node holds, less what
\* a running departure has announced; that has the rest in its list.
TellsPresence(m) ==
  /\ announced[m] \ unsure[m] = (present[m] \ leaving[m].gone) \ unsure[m]
  /\ leaving[m].running => announced[m] \subseteq leaving[m].left \union unsure[m]
  /\ ~leaving[m].running => leaving[m].gone = {}

Told == HistoryTypes /\ \A m \in People : TellsPresence(m)

\* A member has no reason to be present while a departure is armed or runs.
Returned ==
  /\ ReturnedStaysPresent
  /\ \A m \in People : m \in departure \/ leaving[m].running => kept[m] = {}

------------------------------------------------------------------------------
\* Every step is one of the actions or changes nothing.
LEMMA PresenceCases ==
  ASSUME [PresenceNext]_presenceVars
  PROVE  \/ \E m \in People, c \in Sockets : Connect(m, c)
         \/ \E c \in Sockets : Disconnect(c)
         \/ \E m \in People, w \in Workspaces : Join(m, w)
         \/ \E m \in People, w \in Workspaces : Leave(m, w)
         \/ \E m \in People, v \in Videos : OpenVideo(m, v)
         \/ \E m \in People, v \in Videos : CloseVideo(m, v)
         \/ \E m \in People, v \in Videos : StartTyping(m, v)
         \/ \E m \in People, v \in Videos : StopTyping(m, v)
         \/ \E m \in People : FireDeparture(m)
         \/ \E m \in People : GoOnDeparting(m)
         \/ UNCHANGED presenceVars
  BY DEF PresenceNext

\* A departure begins: it finds the member back, forgets it, announces or
\* breaks off; nothing but the timer is spent otherwise.
LEMMA FireCases ==
  ASSUME NEW m \in People,
         FireDeparture(m)
  PROVE  /\ m \in departure /\ ~leaving[m].running
         /\ departure' = departure \ {m}
         /\ UNCHANGED <<socket, typing, kept>>
         /\ \/ Connected(m) /\ UNCHANGED <<present, viewing, leaving, announced, unsure, adrift>>
            \/ present[m] = {} /\ Forget(m)
            \/ Announce(m, present[m], {})
            \/ BreakOff(m, present[m], {})
  BY DEF FireDeparture

\* It goes on likewise.
LEMMA GoOnCases ==
  ASSUME NEW m \in People,
         GoOnDeparting(m)
  PROVE  /\ leaving[m].running
         /\ UNCHANGED <<socket, typing, departure, kept>>
         /\ \/ leaving[m].left = {} /\ Forget(m)
            \/ Announce(m, leaving[m].left, leaving[m].gone)
            \/ BreakOff(m, leaving[m].left, leaving[m].gone)
  BY DEF GoOnDeparting

\* One announcement, field by field.
LEMMA AnnounceEffect ==
  ASSUME PresenceTypeOK,
         HistoryTypes,
         NEW m \in People,
         NEW left \in SUBSET Workspaces,
         NEW gone \in SUBSET Workspaces,
         Announce(m, left, gone)
  PROVE  \E w \in left :
           /\ announced' = [announced EXCEPT ![m] = @ \ {w}]
           /\ unsure' = [unsure EXCEPT ![m] = @ \ {w}]
           /\ leaving' \in [People -> [running: BOOLEAN, left: SUBSET Workspaces,
                                      gone: SUBSET Workspaces]]
           /\ leaving'[m].running
           /\ leaving'[m].left = left \ {w} /\ leaving'[m].gone = gone \union {w}
           /\ \A n \in People \ {m} : leaving'[n] = leaving[n]
           /\ UNCHANGED <<present, viewing, adrift>>
<1>1. PICK w \in left :
        /\ Published(m, w, FALSE)
        /\ leaving' = [leaving EXCEPT ![m] =
             [running |-> TRUE, left |-> left \ {w}, gone |-> gone \union {w}]]
  BY DEF Announce
<1>2. /\ announced' = [announced EXCEPT ![m] = @ \ {w}]
      /\ unsure' = [unsure EXCEPT ![m] = @ \ {w}]
  BY <1>1 DEF Published, HistoryTypes
<1>3. UNCHANGED <<present, viewing, adrift>>
  BY DEF Announce
<1>. QED
  BY <1>1, <1>2, <1>3 DEF PresenceTypeOK

\* A departure that ends, field by field.
LEMMA DepartureEnds ==
  ASSUME PresenceTypeOK,
         NEW m \in People,
         leaving' = [leaving EXCEPT ![m] = Settled]
  PROVE  /\ leaving' \in [People -> [running: BOOLEAN, left: SUBSET Workspaces,
                                    gone: SUBSET Workspaces]]
         /\ ~leaving'[m].running /\ leaving'[m].gone = {}
         /\ \A n \in People \ {m} : leaving'[n] = leaving[n]
<1>1. Settled \in [running: BOOLEAN, left: SUBSET Workspaces, gone: SUBSET Workspaces]
      /\ ~Settled.running /\ Settled.gone = {}
  BY DEF Settled
<1>. QED
  BY <1>1 DEF PresenceTypeOK

\* Types are preserved; a departure is armed by the last disconnection and
\* disarmed by a connection.
LEMMA PresenceTypeStep ==
  ASSUME PresenceTypeOK,
         HistoryTypes,
         [PresenceNext]_presenceVars
  PROVE  PresenceTypeOK'
<1>1. ASSUME NEW m \in People, NEW c \in Sockets, Connect(m, c)
      PROVE  PresenceTypeOK'
  BY <1>1 DEF Connect, PresenceTypeOK, Connected
<1>2. ASSUME NEW c \in Sockets, Disconnect(c)
      PROVE  PresenceTypeOK'
  <2>1. socket' \in [Sockets -> People \union {Nobody}] /\ departure' \subseteq People
    BY <1>2 DEF Disconnect, PresenceTypeOK
  <2>2. \A m \in departure' : ~Connected(m)'
    BY <1>2, PeopleAssumption DEF Disconnect, PresenceTypeOK, Connected
  <2>. QED
    BY <1>2, <2>1, <2>2 DEF Disconnect, PresenceTypeOK
<1>3. ASSUME NEW m \in People, NEW w \in Workspaces, Join(m, w)
      PROVE  PresenceTypeOK'
  BY <1>3 DEF Join, PresenceTypeOK, Connected
<1>4. ASSUME NEW m \in People, NEW w \in Workspaces, Leave(m, w)
      PROVE  PresenceTypeOK'
  BY <1>4 DEF Leave, PresenceTypeOK, Connected
<1>5. ASSUME NEW m \in People, NEW v \in Videos, OpenVideo(m, v)
      PROVE  PresenceTypeOK'
  BY <1>5 DEF OpenVideo, PresenceTypeOK, Connected
<1>6. ASSUME NEW m \in People, NEW v \in Videos, CloseVideo(m, v)
      PROVE  PresenceTypeOK'
  BY <1>6 DEF CloseVideo, PresenceTypeOK, Connected
<1>7. ASSUME NEW m \in People, NEW v \in Videos, StartTyping(m, v)
      PROVE  PresenceTypeOK'
  BY <1>7 DEF StartTyping, PresenceTypeOK, Connected
<1>8. ASSUME NEW m \in People, NEW v \in Videos, StopTyping(m, v)
      PROVE  PresenceTypeOK'
  BY <1>8 DEF StopTyping, PresenceTypeOK, Connected
<1>9. ASSUME NEW m \in People, FireDeparture(m)
      PROVE  PresenceTypeOK'
  <2>1. /\ departure' \subseteq departure
        /\ UNCHANGED <<socket, typing>>
    BY <1>9, FireCases
  <2>2. \A n \in departure' : ~Connected(n)'
    BY <2>1 DEF PresenceTypeOK, Connected
  <2>3. present[m] \in SUBSET Workspaces /\ {} \in SUBSET Workspaces
    BY DEF PresenceTypeOK
  <2>4. CASE Forget(m) \/ BreakOff(m, present[m], {})
    <3>1. leaving' = [leaving EXCEPT ![m] = Settled]
      BY <2>4 DEF Forget, BreakOff
    <3>2. /\ present' \in [People -> SUBSET Workspaces]
          /\ viewing' \in [People -> SUBSET Videos]
      BY <2>4 DEF Forget, BreakOff, PresenceTypeOK
    <3>. QED
      BY <2>1, <2>2, <3>1, <3>2, DepartureEnds DEF PresenceTypeOK
  <2>5. CASE Announce(m, present[m], {})
    BY <2>1, <2>2, <2>3, <2>5, AnnounceEffect DEF PresenceTypeOK
  <2>6. CASE UNCHANGED <<present, viewing, leaving>>
    BY <2>1, <2>2, <2>6 DEF PresenceTypeOK
  <2>. QED
    BY <1>9, <2>4, <2>5, <2>6, FireCases
<1>10. ASSUME NEW m \in People, GoOnDeparting(m)
       PROVE  PresenceTypeOK'
  <2>1. /\ departure' \subseteq departure
        /\ UNCHANGED <<socket, typing>>
    BY <1>10, GoOnCases
  <2>2. \A n \in departure' : ~Connected(n)'
    BY <2>1 DEF PresenceTypeOK, Connected
  <2>3. leaving[m].left \in SUBSET Workspaces /\ leaving[m].gone \in SUBSET Workspaces
    BY DEF PresenceTypeOK
  <2>4. CASE Forget(m) \/ BreakOff(m, leaving[m].left, leaving[m].gone)
    <3>1. leaving' = [leaving EXCEPT ![m] = Settled]
      BY <2>4 DEF Forget, BreakOff
    <3>2. /\ present' \in [People -> SUBSET Workspaces]
          /\ viewing' \in [People -> SUBSET Videos]
      BY <2>4 DEF Forget, BreakOff, PresenceTypeOK
    <3>. QED
      BY <2>1, <2>2, <3>1, <3>2, DepartureEnds DEF PresenceTypeOK
  <2>5. CASE Announce(m, leaving[m].left, leaving[m].gone)
    BY <2>1, <2>2, <2>3, <2>5, AnnounceEffect DEF PresenceTypeOK
  <2>. QED
    BY <1>10, <2>4, <2>5, GoOnCases
<1>11. CASE UNCHANGED presenceVars
  BY <1>11 DEF presenceVars, PresenceTypeOK, Connected
<1>. QED
  BY PresenceCases, <1>1, <1>2, <1>3, <1>4, <1>5, <1>6, <1>7, <1>8, <1>9,
     <1>10, <1>11

\* A departure that ends with nothing held out of what was told.
LEMMA ForgetTells ==
  ASSUME PresenceTypeOK,
         Told,
         NEW m \in People,
         announced[m] \subseteq unsure[m],
         Forget(m),
         UNCHANGED kept
  PROVE  Told'
<1>1. /\ present' = [present EXCEPT ![m] = {}]
      /\ leaving' = [leaving EXCEPT ![m] = Settled]
      /\ adrift' = adrift \ {m}
      /\ UNCHANGED <<announced, unsure>>
  BY DEF Forget
<1>2. HistoryTypes'
  BY <1>1 DEF Told, HistoryTypes
<1>3. TellsPresence(m)'
  <2>1. present'[m] = {} /\ ~leaving'[m].running /\ leaving'[m].gone = {}
    BY <1>1, DepartureEnds DEF PresenceTypeOK
  <2>. QED
    BY <1>1, <2>1 DEF TellsPresence
<1>4. ASSUME NEW n \in People \ {m}
      PROVE  TellsPresence(n)'
  <2>1. present'[n] = present[n] /\ leaving'[n] = leaving[n] /\ TellsPresence(n)
    BY <1>1, DepartureEnds DEF PresenceTypeOK, Told
  <2>. QED
    BY <1>1, <2>1 DEF TellsPresence
<1>. QED
  BY <1>2, <1>3, <1>4 DEF Told

\* A departure that breaks off leaves what it announced in doubt.
LEMMA BreakOffTells ==
  ASSUME PresenceTypeOK,
         Told,
         NEW m \in People,
         NEW left \in SUBSET Workspaces,
         BreakOff(m, left, leaving[m].gone),
         UNCHANGED kept
  PROVE  Told'
<1>1. PICK w \in left :
        unsure' = [unsure EXCEPT ![m] = @ \union leaving[m].gone \union {w}]
  BY DEF BreakOff
<1>2. /\ leaving' = [leaving EXCEPT ![m] = Settled]
      /\ adrift' = adrift \union {m}
      /\ UNCHANGED <<present, announced>>
  BY DEF BreakOff
<1>3. HistoryTypes'
  <2>1. leaving[m].gone \in SUBSET Workspaces
    BY DEF PresenceTypeOK
  <2>. QED
    BY <1>1, <1>2, <2>1 DEF Told, HistoryTypes
<1>4. TellsPresence(m)'
  <2>1. unsure'[m] = unsure[m] \union leaving[m].gone \union {w}
    BY <1>1 DEF Told, HistoryTypes
  <2>2. ~leaving'[m].running /\ leaving'[m].gone = {}
    BY <1>2, DepartureEnds
  <2>3. announced[m] \ unsure[m] = (present[m] \ leaving[m].gone) \ unsure[m]
    BY DEF Told, TellsPresence
  <2>4. announced[m] \ unsure'[m] = present[m] \ unsure'[m]
    BY <2>1, <2>3
  <2>. QED
    BY <1>2, <2>2, <2>4 DEF TellsPresence
<1>5. ASSUME NEW n \in People \ {m}
      PROVE  TellsPresence(n)'
  <2>1. unsure'[n] = unsure[n] /\ leaving'[n] = leaving[n] /\ TellsPresence(n)
    BY <1>1, <1>2, DepartureEnds DEF Told, HistoryTypes
  <2>. QED
    BY <1>2, <2>1 DEF TellsPresence
<1>. QED
  BY <1>3, <1>4, <1>5 DEF Told

\* An announcement moves a workspace from what is left to what is announced.
LEMMA AnnounceTells ==
  ASSUME PresenceTypeOK,
         Told,
         NEW m \in People,
         NEW left \in SUBSET Workspaces,
         NEW gone \in SUBSET Workspaces,
         gone = leaving[m].gone,
         announced[m] \subseteq left \union unsure[m],
         Announce(m, left, gone),
         UNCHANGED kept
  PROVE  Told'
<1>1. HistoryTypes
  BY DEF Told
<1>2. PICK w \in left :
        /\ Published(m, w, FALSE)
        /\ leaving' = [leaving EXCEPT ![m] =
             [running |-> TRUE, left |-> left \ {w}, gone |-> gone \union {w}]]
  BY DEF Announce
<1>3. /\ announced' = [announced EXCEPT ![m] = @ \ {w}]
      /\ unsure' = [unsure EXCEPT ![m] = @ \ {w}]
  BY <1>2 DEF Published
<1>4. /\ leaving'[m].running
      /\ leaving'[m].left = left \ {w}
      /\ leaving'[m].gone = gone \union {w}
      /\ \A n \in People \ {m} : leaving'[n] = leaving[n]
  BY <1>2 DEF PresenceTypeOK
<1>5. UNCHANGED <<present, adrift>>
  BY DEF Announce
<1>6. HistoryTypes'
  BY <1>1, <1>3, <1>4, <1>5 DEF HistoryTypes
<1>7. TellsPresence(m)'
  <2>1. announced'[m] = announced[m] \ {w} /\ unsure'[m] = unsure[m] \ {w}
    BY <1>1, <1>3, <1>4, <1>5 DEF HistoryTypes
  <2>2. announced[m] \ unsure[m] = (present[m] \ leaving[m].gone) \ unsure[m]
    BY DEF Told, TellsPresence
  <2>3. announced'[m] \ unsure'[m] = (present[m] \ leaving'[m].gone) \ unsure'[m]
    BY <1>3, <1>4, <1>5, <2>1, <2>2
  <2>4. announced'[m] \subseteq leaving'[m].left \union unsure'[m]
    BY <1>3, <1>4, <1>5, <2>1
  <2>. QED
    BY <1>3, <1>4, <1>5, <2>3, <2>4 DEF TellsPresence
<1>8. ASSUME NEW n \in People \ {m}
      PROVE  TellsPresence(n)'
  <2>1. /\ announced'[n] = announced[n] /\ unsure'[n] = unsure[n]
        /\ leaving'[n] = leaving[n] /\ TellsPresence(n)
    BY <1>1, <1>3, <1>4, <1>5 DEF Told, HistoryTypes
  <2>. QED
    BY <1>3, <1>4, <1>5, <2>1 DEF TellsPresence
<1>. QED
  BY <1>6, <1>7, <1>8 DEF Told

\* What was announced stays what the node holds: a departure that runs keeps
\* account of what it has announced and what is left.
LEMMA ToldStep ==
  ASSUME PresenceTypeOK,
         Told,
         [PresenceNext]_presenceVars
  PROVE  Told'
<1>1. ASSUME NEW m \in People, NEW c \in Sockets, Connect(m, c)
      PROVE  Told'
  BY <1>1
     DEF Connect, Told, HistoryTypes, TellsPresence, PresenceTypeOK
<1>2. ASSUME NEW c \in Sockets, Disconnect(c)
      PROVE  Told'
  BY <1>2
     DEF Disconnect, Told, HistoryTypes, TellsPresence, PresenceTypeOK
<1>3. ASSUME NEW m \in People, NEW w \in Workspaces, Join(m, w)
      PROVE  Told'
  BY <1>3
     DEF Join, Published, Rejected, Unattached, Told, HistoryTypes, TellsPresence, PresenceTypeOK
<1>4. ASSUME NEW m \in People, NEW w \in Workspaces, Leave(m, w)
      PROVE  Told'
  BY <1>4
     DEF Leave, Published, Rejected, Told, HistoryTypes, TellsPresence, PresenceTypeOK
<1>5. ASSUME NEW m \in People, NEW v \in Videos, OpenVideo(m, v)
      PROVE  Told'
  BY <1>5
     DEF OpenVideo, Unattached, Told, HistoryTypes, TellsPresence, PresenceTypeOK
<1>6. ASSUME NEW m \in People, NEW v \in Videos, CloseVideo(m, v)
      PROVE  Told'
  BY <1>6
     DEF CloseVideo, Told, HistoryTypes, TellsPresence, PresenceTypeOK
<1>7. ASSUME NEW m \in People, NEW v \in Videos, StartTyping(m, v)
      PROVE  Told'
  BY <1>7
     DEF StartTyping, Told, HistoryTypes, TellsPresence, PresenceTypeOK
<1>8. ASSUME NEW m \in People, NEW v \in Videos, StopTyping(m, v)
      PROVE  Told'
  BY <1>8
     DEF StopTyping, Told, HistoryTypes, TellsPresence, PresenceTypeOK
<1>9. ASSUME NEW m \in People, FireDeparture(m)
      PROVE  Told'
  <2>1. /\ present[m] \in SUBSET Workspaces /\ leaving[m].gone = {}
        /\ announced[m] \subseteq present[m] \union unsure[m]
        /\ UNCHANGED kept
    BY <1>9, FireCases DEF Told, TellsPresence, PresenceTypeOK
  <2>2. CASE present[m] = {} /\ Forget(m)
    BY <2>1, <2>2, ForgetTells
  <2>3. CASE BreakOff(m, present[m], {})
    BY <2>1, <2>3, BreakOffTells
  <2>4. CASE Announce(m, present[m], {})
    BY <2>1, <2>4, AnnounceTells
  <2>5. CASE UNCHANGED <<present, viewing, leaving, announced, unsure, adrift>>
    BY <2>1, <2>5 DEF Told, HistoryTypes, TellsPresence
  <2>. QED
    BY <1>9, <2>2, <2>3, <2>4, <2>5, FireCases
<1>10. ASSUME NEW m \in People, GoOnDeparting(m)
       PROVE  Told'
  <2>1. /\ leaving[m].left \in SUBSET Workspaces /\ leaving[m].gone \in SUBSET Workspaces
        /\ announced[m] \subseteq leaving[m].left \union unsure[m]
        /\ UNCHANGED kept
    BY <1>10, GoOnCases DEF Told, TellsPresence, PresenceTypeOK
  <2>2. CASE leaving[m].left = {} /\ Forget(m)
    BY <2>1, <2>2, ForgetTells
  <2>3. CASE BreakOff(m, leaving[m].left, leaving[m].gone)
    BY <2>1, <2>3, BreakOffTells
  <2>4. CASE Announce(m, leaving[m].left, leaving[m].gone)
    BY <2>1, <2>4, AnnounceTells
  <2>. QED
    BY <1>10, <2>2, <2>3, <2>4, GoOnCases
<1>11. CASE UNCHANGED presenceVars
  BY <1>11 DEF presenceVars, Told, HistoryTypes, TellsPresence
<1>. QED
  BY PresenceCases, <1>1, <1>2, <1>3, <1>4, <1>5, <1>6, <1>7, <1>8, <1>9,
     <1>10, <1>11

\* A member without a connection keeps a departure until it is forgotten.
LEMMA GhostStep ==
  ASSUME PresenceTypeOK,
         Told,
         NoGhostPresence,
         [PresenceNext]_presenceVars
  PROVE  NoGhostPresence'
<1>1. ASSUME NEW m \in People, NEW c \in Sockets, Connect(m, c)
      PROVE  NoGhostPresence'
  <2>1. Connected(m)'
    BY <1>1 DEF Connect, PresenceTypeOK, Connected
  <2>2. ASSUME NEW n \in People, ~Connected(n)', n # m
        PROVE  ~Connected(n) /\ (n \in departure => n \in departure')
    BY <1>1, <2>2, PeopleAssumption DEF Connect, Connected
  <2>. QED
    BY <1>1, <2>1, <2>2 DEF Connect, NoGhostPresence
<1>2. ASSUME NEW c \in Sockets, Disconnect(c)
      PROVE  NoGhostPresence'
  <2>1. ASSUME NEW m \in People, ~Connected(m)', m # socket[c]
        PROVE  ~Connected(m)
    BY <1>2, <2>1 DEF Disconnect, Connected
  <2>2. ASSUME NEW m \in People, ~Connected(m)', m = socket[c]
        PROVE  m \in departure'
    BY <1>2, <2>2 DEF Disconnect, Connected
  <2>. QED
    BY <1>2, <2>1, <2>2 DEF Disconnect, NoGhostPresence
<1>3. ASSUME NEW m \in People, NEW w \in Workspaces, Join(m, w)
      PROVE  NoGhostPresence'
  BY <1>3 DEF Join, Unattached, NoGhostPresence, Connected
<1>4. ASSUME NEW m \in People, NEW w \in Workspaces, Leave(m, w)
      PROVE  NoGhostPresence'
  BY <1>4 DEF Leave, NoGhostPresence, Connected
<1>5. ASSUME NEW m \in People, NEW v \in Videos, OpenVideo(m, v)
      PROVE  NoGhostPresence'
  BY <1>5 DEF OpenVideo, Unattached, NoGhostPresence, Connected
<1>6. ASSUME NEW m \in People, NEW v \in Videos, CloseVideo(m, v)
      PROVE  NoGhostPresence'
  BY <1>6 DEF CloseVideo, NoGhostPresence, Connected
<1>7. ASSUME NEW m \in People, NEW v \in Videos, StartTyping(m, v)
      PROVE  NoGhostPresence'
  BY <1>7 DEF StartTyping, NoGhostPresence, Connected
<1>8. ASSUME NEW m \in People, NEW v \in Videos, StopTyping(m, v)
      PROVE  NoGhostPresence'
  BY <1>8 DEF StopTyping, NoGhostPresence, Connected
<1>9. ASSUME NEW m \in People, FireDeparture(m)
      PROVE  NoGhostPresence'
  <2>1. UNCHANGED socket
    BY <1>9, FireCases
  <2>2. CASE Forget(m)
    <3>1. /\ leaving' = [leaving EXCEPT ![m] = Settled]
          /\ present' = [present EXCEPT ![m] = {}]
          /\ viewing' = [viewing EXCEPT ![m] = {}]
          /\ adrift' = adrift \ {m}
      BY <2>2 DEF Forget
    <3>. QED
      BY <1>9, <2>1, <3>1, FireCases, DepartureEnds
         DEF NoGhostPresence, PresenceTypeOK, Connected
  <2>3. CASE BreakOff(m, present[m], {})
    <3>1. /\ leaving' = [leaving EXCEPT ![m] = Settled]
          /\ adrift' = adrift \union {m}
          /\ UNCHANGED <<present, viewing>>
      BY <2>3 DEF BreakOff
    <3>. QED
      BY <1>9, <2>1, <3>1, FireCases, DepartureEnds DEF NoGhostPresence, Connected
  <2>4. CASE Announce(m, present[m], {})
    <3>1. /\ leaving'[m].running
          /\ \A n \in People \ {m} : leaving'[n] = leaving[n]
          /\ UNCHANGED <<present, viewing, adrift>>
      BY <2>4 DEF Announce, PresenceTypeOK
    <3>. QED
      BY <1>9, <2>1, <3>1, FireCases DEF NoGhostPresence, Connected
  <2>5. CASE Connected(m) /\ UNCHANGED <<present, viewing, leaving, announced, unsure, adrift>>
    BY <1>9, <2>1, <2>5, FireCases DEF NoGhostPresence, Connected
  <2>. QED
    BY <1>9, <2>2, <2>3, <2>4, <2>5, FireCases
<1>10. ASSUME NEW m \in People, GoOnDeparting(m)
       PROVE  NoGhostPresence'
  <2>1. UNCHANGED socket
    BY <1>10, GoOnCases
  <2>2. CASE Forget(m)
    <3>1. /\ leaving' = [leaving EXCEPT ![m] = Settled]
          /\ present' = [present EXCEPT ![m] = {}]
          /\ viewing' = [viewing EXCEPT ![m] = {}]
          /\ adrift' = adrift \ {m}
      BY <2>2 DEF Forget
    <3>. QED
      BY <1>10, <2>1, <3>1, GoOnCases, DepartureEnds
         DEF NoGhostPresence, PresenceTypeOK, Connected
  <2>3. CASE BreakOff(m, leaving[m].left, leaving[m].gone)
    <3>1. /\ leaving' = [leaving EXCEPT ![m] = Settled]
          /\ adrift' = adrift \union {m}
          /\ UNCHANGED <<present, viewing>>
      BY <2>3 DEF BreakOff
    <3>. QED
      BY <1>10, <2>1, <3>1, GoOnCases, DepartureEnds DEF NoGhostPresence, Connected
  <2>4. CASE Announce(m, leaving[m].left, leaving[m].gone)
    <3>1. /\ leaving'[m].running
          /\ \A n \in People \ {m} : leaving'[n] = leaving[n]
          /\ UNCHANGED <<present, viewing, adrift>>
      BY <2>4 DEF Announce, PresenceTypeOK
    <3>. QED
      BY <1>10, <2>1, <3>1, GoOnCases DEF NoGhostPresence, Connected
  <2>. QED
    BY <1>10, <2>2, <2>3, <2>4, GoOnCases
<1>11. CASE UNCHANGED presenceVars
  BY <1>11 DEF presenceVars, NoGhostPresence, Connected
<1>. QED
  BY PresenceCases, <1>1, <1>2, <1>3, <1>4, <1>5, <1>6, <1>7, <1>8, <1>9,
     <1>10, <1>11

\* A departure begins only with nothing kept, and nothing is kept anew while it
\* runs.
LEMMA ReturnedStep ==
  ASSUME PresenceTypeOK,
         Told,
         Returned,
         [PresenceNext]_presenceVars
  PROVE  Returned'
<1>1. ASSUME NEW m \in People, NEW c \in Sockets, Connect(m, c)
      PROVE  Returned'
  BY <1>1 DEF Connect, Told, HistoryTypes, Returned, ReturnedStaysPresent, PresenceTypeOK
<1>2. ASSUME NEW c \in Sockets, Disconnect(c)
      PROVE  Returned'
  <2> DEFINE m == socket[c]
  <2>1. m \in People /\ UNCHANGED <<present, leaving>>
    BY <1>2 DEF Disconnect, PresenceTypeOK
  <2>2. \/ UNCHANGED <<departure, kept>>
        \/ departure' = departure \union {m} /\ kept' = [kept EXCEPT ![m] = {}]
    BY <1>2 DEF Disconnect
  <2> HIDE DEF m
  <2>. QED
    BY <2>1, <2>2 DEF Told, HistoryTypes, Returned, ReturnedStaysPresent
<1>3. ASSUME NEW m \in People, NEW w \in Workspaces, Join(m, w)
      PROVE  Returned'
  BY <1>3 DEF Join, Told, HistoryTypes, Returned, ReturnedStaysPresent, PresenceTypeOK
<1>4. ASSUME NEW m \in People, NEW w \in Workspaces, Leave(m, w)
      PROVE  Returned'
  BY <1>4 DEF Leave, Told, HistoryTypes, Returned, ReturnedStaysPresent, PresenceTypeOK
<1>5. ASSUME NEW m \in People, NEW v \in Videos, OpenVideo(m, v)
      PROVE  Returned'
  BY <1>5 DEF OpenVideo, Returned, ReturnedStaysPresent, PresenceTypeOK
<1>6. ASSUME NEW m \in People, NEW v \in Videos, CloseVideo(m, v)
      PROVE  Returned'
  BY <1>6 DEF CloseVideo, Returned, ReturnedStaysPresent, PresenceTypeOK
<1>7. ASSUME NEW m \in People, NEW v \in Videos, StartTyping(m, v)
      PROVE  Returned'
  BY <1>7 DEF StartTyping, Returned, ReturnedStaysPresent, PresenceTypeOK
<1>8. ASSUME NEW m \in People, NEW v \in Videos, StopTyping(m, v)
      PROVE  Returned'
  BY <1>8 DEF StopTyping, Returned, ReturnedStaysPresent, PresenceTypeOK
<1>9. ASSUME NEW m \in People, FireDeparture(m)
      PROVE  Returned'
  <2>1. /\ UNCHANGED kept /\ kept[m] = {} /\ departure' \subseteq departure
        /\ present[m] \in SUBSET Workspaces /\ {} \in SUBSET Workspaces
    BY <1>9, FireCases DEF Returned, PresenceTypeOK
  <2>2. \A n \in People \ {m} : present'[n] = present[n] /\ leaving'[n] = leaving[n]
    BY <1>9, FireCases DEF Forget, Announce, BreakOff, PresenceTypeOK
  <2>. QED
    BY <2>1, <2>2 DEF Returned, ReturnedStaysPresent
<1>10. ASSUME NEW m \in People, GoOnDeparting(m)
       PROVE  Returned'
  <2>1. /\ UNCHANGED kept /\ kept[m] = {} /\ departure' \subseteq departure
        /\ leaving[m].left \in SUBSET Workspaces /\ leaving[m].gone \in SUBSET Workspaces
    BY <1>10, GoOnCases DEF Returned, PresenceTypeOK
  <2>2. \A n \in People \ {m} : present'[n] = present[n] /\ leaving'[n] = leaving[n]
    <3>1. CASE Forget(m)
      BY <3>1 DEF Forget, PresenceTypeOK
    <3>2. CASE Announce(m, leaving[m].left, leaving[m].gone)
      BY <3>2 DEF Announce, PresenceTypeOK
    <3>3. CASE BreakOff(m, leaving[m].left, leaving[m].gone)
      BY <3>3 DEF BreakOff, PresenceTypeOK
    <3>. QED
      BY <1>10, <3>1, <3>2, <3>3, GoOnCases
  <2>. QED
    BY <2>1, <2>2 DEF Returned, ReturnedStaysPresent
<1>11. CASE UNCHANGED presenceVars
  BY <1>11 DEF presenceVars, Returned, ReturnedStaysPresent
<1>. QED
  BY PresenceCases, <1>1, <1>2, <1>3, <1>4, <1>5, <1>6, <1>7, <1>8, <1>9,
     <1>10, <1>11

PresenceInv == PresenceTypeOK /\ Told /\ NoGhostPresence /\ Returned

\* Nobody is present at the start.
LEMMA PresenceInitInv == PresenceInit => PresenceInv
  BY DEF PresenceInit, PresenceInv, PresenceTypeOK, Told, HistoryTypes, TellsPresence,
         NoGhostPresence, Returned, ReturnedStaysPresent, Settled, Connected

\* The four together are an invariant of every behaviour.
LEMMA PresenceInvariant == PresenceSpec => []PresenceInv
<1>1. PresenceInv /\ [PresenceNext]_presenceVars => PresenceInv'
  BY PresenceTypeStep, ToldStep, GhostStep, ReturnedStep DEF PresenceInv, Told
<1>. QED
  BY PresenceInitInv, <1>1, PTL DEF PresenceSpec

\* The maps keep their types, and a pending departure is always one of a member
\* without a connection: connect cancels it, disconnect arms it.
THEOREM PresenceTypeCorrect == PresenceSpec => []PresenceTypeOK
<1>1. PresenceInv => PresenceTypeOK
  BY DEF PresenceInv
<1>. QED
  BY <1>1, PresenceInvariant, PTL

\* Between departures the other members know where a member is, except for the
\* workspaces about which a publication was rejected or a join crossed a
\* departure.
THEOREM AnnouncementsHold == PresenceSpec => []AnnouncedIsPresent
<1>1. PresenceInv => AnnouncedIsPresent
  BY DEF PresenceInv, Told, TellsPresence, AnnouncedIsPresent
<1>. QED
  BY <1>1, PresenceInvariant, PTL

\* A member whose last connection dropped is on its way out, unless it called
\* since or a rejected publication ended its departure.
THEOREM GhostsLeave == PresenceSpec => []NoGhostPresence
<1>1. PresenceInv => NoGhostPresence
  BY DEF PresenceInv
<1>. QED
  BY <1>1, PresenceInvariant, PTL

\* A member that is back stays where it is: no departure takes it but one that
\* was running when it came.
THEOREM ReturnersStay == PresenceSpec => []ReturnedStaysPresent
<1>1. PresenceInv => ReturnedStaysPresent
  BY DEF PresenceInv, Returned
<1>. QED
  BY <1>1, PresenceInvariant, PTL

------------------------------------------------------------------------------
(* Webhooks, for any subscriptions, deliveries and number of retries: a     *)
(* deleted subscription is sent at most the request under way, and what a   *)
(* delivery reports is what happened.                                       *)

\* The subscriptions a delivery has still to serve.
Queued(d) == Range(delivery[d].queue)
Underway(d) == delivery[d].at \in {"lookup", "post"}

\* The subscriptions whose outcome it has recorded.
Reported(d) == {s \in Subscriptions : outcomes[d][s].reason # "none"}

\* Where a delivery may stand.
Standing == [at: {"created", "lookup", "post", "returned", "lost"},
             queue: Seq(Subscriptions), attempts: Nat]

\* What the variables hold.
HookTypes ==
  /\ subscription \in [Subscriptions -> {"unregistered", "live", "deleted"}]
  /\ delivery \in [Deliveries -> Standing]
  /\ audience \in [Deliveries -> SUBSET Subscriptions]
  /\ outcomes \in [Deliveries -> [Subscriptions ->
                     [reason: {"none", "delivered", "exhausted", "deleted"}, attempts: Nat]]]
  /\ contacts \in [Deliveries -> [Subscriptions -> Nat]]
  /\ late \in [Deliveries -> [Subscriptions -> Nat]]
  /\ answers \in [Deliveries -> [Subscriptions -> Nat]]

\* A delivery under way has a queue, has sent the first of it what it counted
\* and the others nothing; its snapshot is the queue and those it settled.
QueueStands(d) ==
  /\ IsInjective(delivery[d].queue)
  /\ Underway(d) <=> delivery[d].queue # <<>>
  /\ Underway(d) =>
       /\ delivery[d].attempts <= MAX_RETRIES
       /\ contacts[d][Head(delivery[d].queue)] = delivery[d].attempts
       /\ \A s \in Range(Tail(delivery[d].queue)) : contacts[d][s] = 0
  /\ delivery[d].at = "post" => late[d][Head(delivery[d].queue)] = 0
  /\ Underway(d) \/ delivery[d].at = "returned" =>
       audience[d] = Queued(d) \union Reported(d)

\* Nothing is settled before a delivery begins, or of what it still queues.
Unsettled(d, s) ==
  /\ delivery[d].at = "created" \/ s \in Queued(d) =>
       outcomes[d][s].reason = "none" /\ answers[d][s] = 0
  /\ delivery[d].at = "created" => contacts[d][s] = 0
  /\ s \in Queued(d) => subscription[s] # "unregistered"

\* One request after the deletion at most, and only then.
Bounded(d, s) ==
  /\ contacts[d][s] <= MAX_RETRIES + 1
  /\ late[d][s] <= 1
  /\ late[d][s] > 0 => subscription[s] = "deleted"

\* A recorded outcome is what happened.
Accounted(d, s) ==
  LET o == outcomes[d][s]
  IN o.reason # "none" =>
       /\ o.attempts = contacts[d][s]
       /\ answers[d][s] = (IF o.reason = "delivered" THEN 1 ELSE 0)
       /\ o.reason = "exhausted" => o.attempts = MAX_RETRIES + 1
       /\ o.reason = "deleted" => subscription[s] = "deleted"

Served(d) ==
  /\ QueueStands(d)
  /\ \A s \in Subscriptions : Unsettled(d, s) /\ Bounded(d, s) /\ Accounted(d, s)

\* The inductive invariant. That the live subscriptions are finitely many makes a
\* snapshot of as many entries a list of all of them.
HookInv == HookTypes /\ IsFiniteSet(Live) /\ \A d \in Deliveries : Served(d)

---------------------------------------------------------------------------
\* A delivery that waits for its next attempt, and one that was lost.
LEMMA Standings ==
  /\ \A r \in Standing, n \in Nat : [r EXCEPT !.at = "lookup", !.attempts = n] \in Standing
  /\ [Dormant EXCEPT !.at = "lost"] \in Standing
<1>1. \A r \in Standing, n \in Nat : [r EXCEPT !.at = "lookup", !.attempts = n] \in Standing
  BY DEF Standing
<1>2. Dormant \in Standing
  BY DEF Dormant, Standing
<1>3. \A r \in Standing : [r EXCEPT !.at = "lost"] \in Standing
  BY DEF Standing
<1>. QED
  BY <1>1, <1>2, <1>3

\* A queue without its head.
LEMMA QueueTail ==
  ASSUME NEW S, NEW q \in Seq(S), q # <<>>, IsInjective(q)
  PROVE  /\ Tail(q) \in Seq(S) /\ IsInjective(Tail(q))
         /\ Head(q) \in S /\ Head(q) \in Range(q)
         /\ Range(Tail(q)) = Range(q) \ {Head(q)}
<1>1. /\ Len(q) \in Nat /\ Len(q) > 0 /\ DOMAIN q = 1..Len(q)
      /\ \A i \in 1..Len(q) : q[i] \in S
      /\ Head(q) = q[1]
  OBVIOUS
<1>2. /\ Tail(q) \in Seq(S) /\ DOMAIN Tail(q) = 1..Len(q) - 1
      /\ \A i \in 1..Len(q) - 1 : Tail(q)[i] = q[i + 1]
  OBVIOUS
<1>3. IsInjective(Tail(q))
  BY <1>1, <1>2 DEF IsInjective
<1>4. ASSUME NEW s
      PROVE  s \in Range(Tail(q)) <=> s \in Range(q) /\ s # Head(q)
  <2>1. s \in Range(Tail(q)) <=> \E i \in 1..Len(q) - 1 : q[i + 1] = s
    BY <1>2 DEF Range
  <2>2. s \in Range(q) <=> \E i \in 1..Len(q) : q[i] = s
    BY <1>1 DEF Range
  <2>3. ASSUME NEW i \in 1..Len(q) - 1, q[i + 1] = s
        PROVE  s \in Range(q) /\ s # Head(q)
    BY <1>1, <2>2, <2>3 DEF IsInjective
  <2>4. ASSUME NEW i \in 1..Len(q), q[i] = s, s # Head(q)
        PROVE  \E j \in 1..Len(q) - 1 : q[j + 1] = s
    <3>1. i # 1 /\ i - 1 \in 1..Len(q) - 1 /\ (i - 1) + 1 = i
      BY <1>1, <2>4
    <3>. QED
      BY <2>4, <3>1
  <2>. QED
    BY <2>1, <2>2, <2>3, <2>4
<1>5. Head(q) \in S /\ Head(q) \in Range(q)
  BY <1>1 DEF Range
<1>. QED
  BY <1>2, <1>3, <1>4, <1>5

\* listByEvent returns every subscription once.
LEMMA Snapshot ==
  ASSUME NEW S, IsFiniteSet(S), NEW q \in SetToSeqs(S)
  PROVE  q \in Seq(S) /\ IsInjective(q) /\ Range(q) = S
<1> DEFINE n == Cardinality(S)
<1>1. n \in Nat
  BY FS_CardinalityType
<1>2. q \in [1..n -> S] /\ \A i, j \in 1..n : i # j => q[i] # q[j]
  BY DEF SetToSeqs
<1>3. IsFiniteSet(1..n) /\ Cardinality(1..n) = n
  BY <1>1, FS_Interval
<1>. HIDE DEF n
<1>4. q \in Injection(1..n, S) /\ IsInjective(q)
  BY <1>2 DEF Injection, IsInjective
<1>5. q \in Surjection(1..n, S)
  BY <1>3, <1>4, FS_Injection DEF n
<1>6. Range(q) = S
  BY <1>2, <1>5 DEF Surjection, Range
<1>. QED
  BY <1>1, <1>2, <1>4, <1>6


\* A delivery that a step does not touch.
LEMMA OthersServed ==
  ASSUME HookInv, NEW d \in Deliveries, subscription' = subscription,
         delivery'[d] = delivery[d], audience'[d] = audience[d], outcomes'[d] = outcomes[d],
         contacts'[d] = contacts[d], late'[d] = late[d], answers'[d] = answers[d]
  PROVE  Served(d)'
  BY DEF HookInv, Served, QueueStands, Reported, Unsettled, Bounded, Accounted,
         Queued, Underway

\* The head of the queue is settled and the turn goes on.
LEMMA FinishServed ==
  ASSUME HookInv, HookTypes', NEW d \in Deliveries, Underway(d),
         subscription' = subscription, audience' = audience,
         NEW reason, NEW n, Finish(d, reason, n), reason # "none",
         NEW h, h = Head(delivery[d].queue), Bounded(d, h)', Accounted(d, h)',
         \A s \in Subscriptions \ {h} :
           /\ contacts'[d][s] = contacts[d][s] /\ late'[d][s] = late[d][s]
           /\ answers'[d][s] = answers[d][s]
  PROVE  Served(d)'
<1> DEFINE q == delivery[d].queue
<1>1. /\ q \in Seq(Subscriptions) /\ q # <<>> /\ IsInjective(q) /\ QueueStands(d)
      /\ \A s \in Subscriptions : Unsettled(d, s) /\ Bounded(d, s) /\ Accounted(d, s)
  BY DEF HookInv, HookTypes, Standing, Served, QueueStands
<1>2. /\ Tail(q) \in Seq(Subscriptions) /\ IsInjective(Tail(q))
      /\ h \in Subscriptions /\ h \in Range(q) /\ Range(Tail(q)) = Range(q) \ {h}
  BY <1>1, QueueTail
<1>3. /\ delivery'[d] = Turn(Tail(q))
      /\ outcomes'[d][h].reason = reason
      /\ \A s \in Subscriptions \ {h} : outcomes'[d][s] = outcomes[d][s]
  <2>1. /\ delivery' = [delivery EXCEPT ![d] = Turn(Tail(q))]
        /\ outcomes' = [outcomes EXCEPT ![d][h] = [reason |-> reason, attempts |-> n]]
    BY DEF Finish
  <2>2. /\ DOMAIN delivery = Deliveries
        /\ DOMAIN outcomes = Deliveries /\ DOMAIN outcomes[d] = Subscriptions
    BY DEF HookInv, HookTypes
  <2>. HIDE DEF q
  <2>. QED
    BY <1>2, <2>1, <2>2
<1>4. /\ delivery'[d].queue = Tail(q) /\ delivery'[d].attempts = 0
      /\ delivery'[d].at = IF Tail(q) = <<>> THEN "returned" ELSE "lookup"
  BY <1>3 DEF Turn
<1>5. QueueStands(d)'
  <2>1. /\ IsInjective(delivery'[d].queue)
        /\ delivery'[d].at \in {"lookup", "post"} <=> delivery'[d].queue # <<>>
        /\ delivery'[d].at # "post"
    BY <1>2, <1>4
  <2>2. audience'[d] = Range(delivery'[d].queue) \union Reported(d)'
    <3>1. audience'[d] = Range(q) \union Reported(d)
      BY <1>1 DEF QueueStands, Queued
    <3>2. \A s \in Subscriptions :
            outcomes'[d][s].reason # "none" <=> s = h \/ outcomes[d][s].reason # "none"
      BY <1>3
    <3>. HIDE DEF q
    <3>. QED
      BY <1>2, <1>4, <3>1, <3>2 DEF Reported
  <2>3. ASSUME Tail(q) # <<>>
        PROVE  /\ contacts'[d][Head(Tail(q))] = 0
               /\ \A s \in Range(Tail(Tail(q))) : contacts'[d][s] = 0
    <3>1. /\ Head(Tail(q)) \in Range(Tail(q))
          /\ Range(Tail(Tail(q))) = Range(Tail(q)) \ {Head(Tail(q))}
      BY <1>2, <2>3, QueueTail
    <3>2. \A s \in Range(Tail(q)) : s \in Subscriptions \ {h} /\ contacts[d][s] = 0
      <4>1. \A s \in Range(q) : s \in Subscriptions
        BY <1>1 DEF Range
      <4>. QED
        BY <1>1, <1>2, <4>1 DEF QueueStands
    <3>. QED
      BY <3>1, <3>2
  <2>4. delivery'[d].attempts <= MAX_RETRIES
    BY <1>4, RetriesAssumption
  <2>. QED
    BY <1>4, <2>1, <2>2, <2>3, <2>4 DEF QueueStands, Underway, Queued
<1>6. ASSUME NEW s \in Subscriptions
      PROVE  Unsettled(d, s)' /\ Bounded(d, s)' /\ Accounted(d, s)'
  <2>1. CASE s = h
    <3>1. Unsettled(d, s)'
      BY <1>2, <1>4, <2>1 DEF Unsettled, Queued
    <3>. QED
      BY <2>1, <3>1
  <2>2. CASE s # h
    <3>1. /\ contacts'[d][s] = contacts[d][s] /\ late'[d][s] = late[d][s]
          /\ answers'[d][s] = answers[d][s] /\ outcomes'[d][s] = outcomes[d][s]
      BY <1>3, <2>2
    <3>2. /\ s \in Queued(d)' => s \in Queued(d)
          /\ delivery'[d].at # "created"
      BY <1>2, <1>4 DEF Queued
    <3>3. Unsettled(d, s) /\ Bounded(d, s) /\ Accounted(d, s)
      BY <1>1
    <3>. QED
      BY <3>1, <3>2, <3>3 DEF Unsettled, Bounded, Accounted
  <2>. QED
    BY <2>1, <2>2
<1>. QED
  BY <1>5, <1>6 DEF Served

\* A deletion is for good, and counts for every delivery under way.
LEMMA SubscriptionStep ==
  ASSUME HookInv, NEW s \in Subscriptions, Register(s) \/ Delete(s)
  PROVE  HookInv'
<1>1. /\ UNCHANGED <<delivery, audience, outcomes, hookHistory>>
      /\ \/ /\ subscription[s] = "unregistered"
            /\ subscription' = [subscription EXCEPT ![s] = "live"]
         \/ /\ subscription[s] = "live"
            /\ subscription' = [subscription EXCEPT ![s] = "deleted"]
  BY DEF Register, Delete
<1>2. HookTypes'
  BY <1>1 DEF HookInv, HookTypes, hookHistory
<1>3. IsFiniteSet(Live')
  <2>1. Live' \in SUBSET (Live \union {s})
    BY <1>1 DEF Live, HookInv, HookTypes
  <2>2. IsFiniteSet(Live \union {s})
    BY FS_AddElement DEF HookInv
  <2>. QED
    BY <2>1, <2>2, FS_Subset
<1>4. \A r \in Subscriptions :
        /\ subscription[r] = "deleted" => subscription'[r] = "deleted"
        /\ subscription[r] # "unregistered" => subscription'[r] # "unregistered"
  BY <1>1 DEF HookInv, HookTypes
<1>5. ASSUME NEW d \in Deliveries
      PROVE  Served(d)'
  BY <1>1, <1>4
     DEF HookInv, hookHistory, Served, QueueStands, Reported, Unsettled,
         Bounded, Accounted, Queued, Underway
<1>. QED
  BY <1>2, <1>3, <1>5 DEF HookInv

\* The snapshot: nobody in it was sent anything.
LEMMA DeliverStep ==
  ASSUME HookInv, NEW d \in Deliveries, Deliver(d)
  PROVE  HookInv'
<1>1. PICK q \in SetToSeqs(Live) : delivery' = [delivery EXCEPT ![d] = Turn(q)]
  BY DEF Deliver
<1>2. /\ delivery[d].at = "created" /\ audience' = [audience EXCEPT ![d] = Live]
      /\ UNCHANGED <<subscription, outcomes, contacts, late, answers>>
  BY DEF Deliver, hookHistory
<1>3. q \in Seq(Live) /\ IsInjective(q) /\ Range(q) = Live
  BY Snapshot DEF HookInv
<1>4. q \in Seq(Subscriptions)
  BY <1>3 DEF Live
<1>5. HookTypes'
  BY <1>1, <1>2, <1>4 DEF HookInv, HookTypes, Standing, Turn, Live
<1>6. IsFiniteSet(Live')
  BY <1>2 DEF HookInv, Live
<1>7. /\ delivery'[d].queue = q /\ delivery'[d].attempts = 0
      /\ delivery'[d].at = IF q = <<>> THEN "returned" ELSE "lookup"
      /\ audience'[d] = Live
  BY <1>1, <1>2 DEF HookInv, HookTypes, Turn
<1>8. \A s \in Subscriptions : Unsettled(d, s) /\ Bounded(d, s) /\ Accounted(d, s)
  BY DEF HookInv, Served
<1>9. QueueStands(d)'
  <2>1. \A s \in Range(q) : s \in Subscriptions /\ contacts[d][s] = 0
    BY <1>2, <1>3, <1>8 DEF Unsettled, Live
  <2>2. q # <<>> => Head(q) \in Range(q) /\ \A s \in Range(Tail(q)) : s \in Range(q)
    BY <1>3, QueueTail
  <2>3. Live = Range(q) \union Reported(d)
    BY <1>2, <1>3, <1>8 DEF Unsettled, Reported
  <2>. QED
    BY <1>2, <1>3, <1>7, <2>1, <2>2, <2>3, RetriesAssumption
       DEF QueueStands, Reported, Underway, Queued
<1>10. \A s \in Subscriptions : Unsettled(d, s)' /\ Bounded(d, s)' /\ Accounted(d, s)'
  BY <1>2, <1>3, <1>7, <1>8 DEF Unsettled, Bounded, Accounted, Queued, Live
<1>11. \A e \in Deliveries \ {d} : Served(e)'
  BY <1>1, <1>2, OthersServed
<1>. QED
  BY <1>5, <1>6, <1>9, <1>10, <1>11 DEF HookInv, Served

\* A subscription found live was sent nothing late yet; one found gone was deleted.
LEMMA LookUpStep ==
  ASSUME HookInv, NEW d \in Deliveries, LookUp(d)
  PROVE  HookInv'
<1> DEFINE q == delivery[d].queue
<1>0. PICK h : h = Head(q)
  OBVIOUS
<1>1. /\ delivery[d].at = "lookup" /\ Underway(d)
      /\ UNCHANGED <<subscription, audience, contacts, late, answers>>
  BY DEF LookUp, hookHistory, Underway
<1>2. /\ q \in Seq(Subscriptions) /\ q # <<>> /\ IsInjective(q) /\ QueueStands(d)
      /\ \A s \in Subscriptions : Unsettled(d, s) /\ Bounded(d, s) /\ Accounted(d, s)
  BY <1>1 DEF HookInv, HookTypes, Standing, Served, QueueStands
<1>3. h \in Subscriptions /\ h \in Range(q) /\ Tail(q) \in Seq(Subscriptions)
  BY <1>0, <1>2, QueueTail
<1>4. IsFiniteSet(Live')
  BY <1>1 DEF HookInv, Live
<1>5. CASE subscription[h] = "live"
  <2>1. delivery' = [delivery EXCEPT ![d].at = "post"] /\ outcomes' = outcomes
    BY <1>0, <1>5 DEF LookUp
  <2>2. HookTypes'
    BY <1>1, <2>1 DEF HookInv, HookTypes, Standing
  <2>3. /\ delivery'[d].at = "post" /\ delivery'[d].queue = q
        /\ delivery'[d].attempts = delivery[d].attempts
    BY <2>1 DEF HookInv, HookTypes
  <2>4. late[d][h] = 0
    <3>1. late[d][h] \in Nat /\ ~(late[d][h] > 0)
      BY <1>2, <1>3, <1>5 DEF HookInv, HookTypes, Bounded
    <3>. QED
      BY <3>1
  <2>5. QueueStands(d)'
    BY <1>0, <1>1, <1>2, <2>1, <2>3, <2>4
       DEF QueueStands, Reported, Underway, Queued
  <2>6. \A s \in Subscriptions : Unsettled(d, s)' /\ Bounded(d, s)' /\ Accounted(d, s)'
    BY <1>1, <1>2, <2>1, <2>3 DEF Unsettled, Bounded, Accounted, Queued
  <2>7. \A e \in Deliveries \ {d} : Served(e)'
    BY <1>1, <2>1, OthersServed
  <2>. QED
    BY <1>4, <2>2, <2>5, <2>6, <2>7 DEF HookInv, Served
<1>6. CASE subscription[h] # "live"
  <2>1. Finish(d, "deleted", delivery[d].attempts)
    BY <1>0, <1>6 DEF LookUp
  <2>2. HookTypes'
    BY <1>0, <1>1, <1>3, <2>1 DEF HookInv, HookTypes, Standing, Finish, Turn
  <2>3. subscription[h] = "deleted"
    BY <1>2, <1>3, <1>6 DEF HookInv, HookTypes, Unsettled, Queued
  <2>4. outcomes'[d][h] = [reason |-> "deleted", attempts |-> delivery[d].attempts]
    BY <1>0, <1>3, <2>1 DEF HookInv, HookTypes, Finish
  <2>5. contacts[d][h] = delivery[d].attempts /\ answers[d][h] = 0
    BY <1>0, <1>1, <1>2, <1>3 DEF QueueStands, Unsettled, Queued
  <2>6. Bounded(d, h)' /\ Accounted(d, h)'
    <3>1. Bounded(d, h)
      BY <1>2, <1>3
    <3>. QED
      BY <1>1, <2>3, <2>4, <2>5, <3>1 DEF Bounded, Accounted
  <2>7. Served(d)'
    BY <1>0, <1>1, <2>1, <2>2, <2>6, FinishServed
  <2>8. \A e \in Deliveries \ {d} : Served(e)'
    BY <1>1, <2>1, OthersServed DEF Finish
  <2>. QED
    BY <1>4, <2>2, <2>7, <2>8 DEF HookInv
<1>. QED
  BY <1>5, <1>6


\* The request counts as an attempt, and as late if the deletion came after the
\* lookup; a 2xx or the last attempt settles it.
LEMMA PostStep ==
  ASSUME HookInv, NEW d \in Deliveries, Post(d)
  PROVE  HookInv'
<1> DEFINE q == delivery[d].queue
           n == delivery[d].attempts + 1
<1>0. PICK h : h = Head(q)
  OBVIOUS
<1>1. /\ delivery[d].at = "post" /\ Underway(d)
      /\ contacts' = [contacts EXCEPT ![d][h] = @ + 1]
      /\ late' = IF subscription[h] = "deleted" THEN [late EXCEPT ![d][h] = @ + 1] ELSE late
      /\ UNCHANGED <<subscription, audience>>
  BY <1>0 DEF Post, Underway
<1>2. PICK ok \in BOOLEAN :
        /\ answers' = IF ok THEN [answers EXCEPT ![d][h] = @ + 1] ELSE answers
        /\ \/ ok /\ Finish(d, "delivered", n)
           \/ ~ok /\ ~RetryLeft(n) /\ Finish(d, "exhausted", n)
           \/ /\ ~ok /\ RetryLeft(n) /\ outcomes' = outcomes
              /\ delivery' = [delivery EXCEPT ![d].at = "lookup", ![d].attempts = n]
  BY <1>0 DEF Post
<1>3. /\ q \in Seq(Subscriptions) /\ q # <<>> /\ IsInjective(q) /\ QueueStands(d)
      /\ \A s \in Subscriptions : Unsettled(d, s) /\ Bounded(d, s) /\ Accounted(d, s)
  BY <1>1 DEF HookInv, HookTypes, Standing, Served, QueueStands
<1>4. /\ h \in Subscriptions /\ h \in Range(q)
      /\ Tail(q) \in Seq(Subscriptions) /\ Range(Tail(q)) = Range(q) \ {h}
  BY <1>0, <1>3, QueueTail
<1>5. IsFiniteSet(Live')
  BY <1>1 DEF HookInv, Live
<1>6. /\ n \in Nat /\ n <= MAX_RETRIES + 1 /\ contacts[d][h] + 1 = n
      /\ late[d][h] = 0 /\ answers[d][h] = 0 /\ outcomes[d][h].reason = "none"
  BY <1>0, <1>1, <1>3, <1>4, RetriesAssumption
     DEF HookInv, HookTypes, Standing, QueueStands, Reported, Unsettled,
         Queued
<1>7. /\ contacts' \in [Deliveries -> [Subscriptions -> Nat]]
      /\ late' \in [Deliveries -> [Subscriptions -> Nat]]
      /\ answers' \in [Deliveries -> [Subscriptions -> Nat]]
  <2>1. /\ contacts \in [Deliveries -> [Subscriptions -> Nat]]
        /\ late \in [Deliveries -> [Subscriptions -> Nat]]
        /\ answers \in [Deliveries -> [Subscriptions -> Nat]]
    BY DEF HookInv, HookTypes
  <2>2. \A c \in [Deliveries -> [Subscriptions -> Nat]] :
          [c EXCEPT ![d][h] = @ + 1] \in [Deliveries -> [Subscriptions -> Nat]]
    BY <1>4
  <2>. QED
    BY <1>1, <1>2, <2>1, <2>2
<1>8. /\ contacts'[d][h] = n
      /\ late'[d][h] = IF subscription[h] = "deleted" THEN 1 ELSE 0
      /\ answers'[d][h] = IF ok THEN 1 ELSE 0
      /\ \A s \in Subscriptions \ {h} :
           /\ contacts'[d][s] = contacts[d][s] /\ late'[d][s] = late[d][s]
           /\ answers'[d][s] = answers[d][s]
      /\ \A e \in Deliveries \ {d} :
           contacts'[e] = contacts[e] /\ late'[e] = late[e] /\ answers'[e] = answers[e]
  BY <1>1, <1>2, <1>4, <1>6 DEF HookInv, HookTypes
<1>9. Bounded(d, h)'
  BY <1>1, <1>6, <1>8 DEF Bounded
<1>. HIDE DEF q, n
<1>10. ASSUME NEW reason \in {"delivered", "exhausted"}, Finish(d, reason, n),
              reason = "delivered" <=> ok, reason = "exhausted" => ~RetryLeft(n)
       PROVE  HookInv'
  <2>1. HookTypes'
    BY <1>1, <1>4, <1>6, <1>7, <1>10
       DEF HookInv, HookTypes, Standing, Finish, Turn, q
  <2>2. outcomes'[d][h] = [reason |-> reason, attempts |-> n]
    BY <1>0, <1>4, <1>10 DEF HookInv, HookTypes, Finish, q
  <2>3. reason = "exhausted" => n = MAX_RETRIES + 1
    BY <1>6, <1>10, RetriesAssumption DEF RetryLeft
  <2>4. Accounted(d, h)'
    BY <1>8, <1>10, <2>2, <2>3 DEF Accounted
  <2>5. Served(d)'
    BY <1>0, <1>1, <1>8, <1>9, <1>10, <2>1, <2>4, FinishServed DEF q
  <2>6. \A e \in Deliveries \ {d} : Served(e)'
    BY <1>1, <1>8, <1>10, OthersServed DEF Finish
  <2>. QED
    BY <1>5, <2>1, <2>5, <2>6 DEF HookInv
<1>11. ASSUME ~ok, RetryLeft(n), outcomes' = outcomes,
              delivery' = [delivery EXCEPT ![d].at = "lookup", ![d].attempts = n]
       PROVE  HookInv'
  <2>1. HookTypes'
    <3>1. [delivery[d] EXCEPT !.at = "lookup", !.attempts = n] \in Standing
      BY <1>6, Standings DEF HookInv, HookTypes
    <3>2. delivery' = [delivery EXCEPT ![d] = [@ EXCEPT !.at = "lookup", !.attempts = n]]
      BY <1>11
    <3>. QED
      BY <1>1, <1>7, <1>11, <3>1, <3>2 DEF HookInv, HookTypes
  <2>2. delivery'[d].at = "lookup" /\ delivery'[d].queue = q /\ delivery'[d].attempts = n
    BY <1>11 DEF HookInv, HookTypes, q
  <2>3. n <= MAX_RETRIES
    BY <1>6, <1>11, RetriesAssumption DEF RetryLeft
  <2>4. \A s \in Range(Tail(q)) : s \in Subscriptions \ {h} /\ contacts[d][s] = 0
    <3>1. \A s \in Range(q) : s \in Subscriptions
      BY <1>3 DEF Range
    <3>. QED
      BY <1>1, <1>3, <1>4, <3>1 DEF QueueStands, q
  <2>5. QueueStands(d)'
    <3>1. audience[d] = Range(q) \union Reported(d)
      BY <1>1, <1>3 DEF QueueStands, Queued, q
    <3>. QED
      BY <1>0, <1>1, <1>3, <1>8, <1>11, <2>2, <2>3, <2>4, <3>1
         DEF QueueStands, Reported, Underway, Queued
  <2>6. Unsettled(d, h)' /\ Accounted(d, h)'
    BY <1>1, <1>3, <1>4, <1>6, <1>8, <1>11, <2>2
       DEF Unsettled, Accounted, Queued, q
  <2>7. \A s \in Subscriptions \ {h} : Unsettled(d, s)' /\ Bounded(d, s)' /\ Accounted(d, s)'
    BY <1>1, <1>3, <1>8, <1>11, <2>2
       DEF Unsettled, Bounded, Accounted, Queued, q
  <2>8. \A e \in Deliveries \ {d} : Served(e)'
    BY <1>1, <1>8, <1>11, OthersServed DEF HookInv, HookTypes
  <2>. QED
    BY <1>5, <1>9, <2>1, <2>5, <2>6, <2>7, <2>8 DEF HookInv, Served
<1>. QED
  BY <1>2, <1>10, <1>11

\* A delivery that is lost has an outcome for those it had settled.
LEMMA StopStep ==
  ASSUME HookInv, StopWorker
  PROVE  HookInv'
<1>1. /\ delivery' = [d \in Deliveries |-> IF Underway(d) THEN [Dormant EXCEPT !.at = "lost"]
                                           ELSE delivery[d]]
      /\ UNCHANGED <<subscription, audience, outcomes, contacts, late, answers>>
  BY DEF StopWorker, hookHistory, Underway
<1>2. HookTypes'
  <2>1. [Dormant EXCEPT !.at = "lost"] \in Standing
    BY Standings
  <2>. QED
    BY <1>1, <2>1 DEF HookInv, HookTypes
<1>3. IsFiniteSet(Live')
  BY <1>1 DEF HookInv, Live
<1>4. ASSUME NEW d \in Deliveries
      PROVE  Served(d)'
  <2>1. CASE ~Underway(d)
    BY <1>1, <2>1, OthersServed
  <2>2. CASE Underway(d)
    <3>1. delivery'[d].at = "lost" /\ delivery'[d].queue = <<>>
      BY <1>1, <2>2 DEF Dormant
    <3>2. IsInjective(delivery'[d].queue) /\ Range(delivery'[d].queue) = {}
      BY <3>1 DEF IsInjective, Range
    <3>. QED
      BY <1>1, <3>1, <3>2
         DEF HookInv, Served, QueueStands, Unsettled, Bounded, Accounted,
             Queued, Underway
  <2>. QED
    BY <2>1, <2>2
<1>. QED
  BY <1>2, <1>3, <1>4 DEF HookInv

\* All steps together.
LEMMA HookStep == HookInv /\ [HookNext]_hookVars => HookInv'
<1> SUFFICES ASSUME HookInv, [HookNext]_hookVars
             PROVE  HookInv'
  OBVIOUS
<1>1. CASE UNCHANGED hookVars
  <2>1. UNCHANGED <<subscription, delivery, audience, outcomes, contacts, late, answers>>
    BY <1>1 DEF hookVars
  <2>2. HookTypes' /\ IsFiniteSet(Live')
    BY <2>1 DEF HookInv, HookTypes, Live
  <2>3. \A d \in Deliveries : Served(d)'
    BY <2>1, OthersServed
  <2>. QED
    BY <2>2, <2>3 DEF HookInv
<1>2. CASE HookNext
  BY <1>2, SubscriptionStep, DeliverStep, LookUpStep, PostStep, StopStep
     DEF HookNext
<1>. QED
  BY <1>1, <1>2

\* Nothing is registered, and nothing sent.
LEMMA HookInitInv == HookInit => HookInv
<1> SUFFICES ASSUME HookInit
             PROVE  HookInv
  OBVIOUS
<1>1. /\ subscription = [s \in Subscriptions |-> "unregistered"]
      /\ delivery = [d \in Deliveries |-> Dormant]
      /\ audience = [d \in Deliveries |-> {}]
      /\ outcomes = [d \in Deliveries |-> [s \in Subscriptions |-> NoOutcome]]
      /\ contacts = Zeros /\ late = Zeros /\ answers = Zeros
  BY DEF HookInit
<1>2. HookTypes
  BY <1>1 DEF HookTypes, Standing, Dormant, NoOutcome, Zeros
<1>3. IsFiniteSet(Live)
  <2>1. Live = {}
    BY <1>1 DEF Live
  <2>. QED
    BY <2>1, FS_EmptySet
<1>4. ASSUME NEW d \in Deliveries
      PROVE  Served(d)
  <2>1. delivery[d].at = "created" /\ delivery[d].queue = <<>>
    BY <1>1 DEF Dormant
  <2>2. IsInjective(delivery[d].queue) /\ Range(delivery[d].queue) = {}
    BY <2>1 DEF IsInjective, Range
  <2>3. QueueStands(d)
    BY <2>1, <2>2 DEF QueueStands, Underway
  <2>4. ASSUME NEW s \in Subscriptions
        PROVE  Unsettled(d, s) /\ Bounded(d, s) /\ Accounted(d, s)
    <3>1. /\ contacts[d][s] = 0 /\ late[d][s] = 0 /\ answers[d][s] = 0
          /\ outcomes[d][s].reason = "none"
      BY <1>1 DEF Zeros, NoOutcome
    <3>. QED
      BY <2>2, <3>1, RetriesAssumption
         DEF Unsettled, Bounded, Accounted, Queued
  <2>. QED
    BY <2>3, <2>4 DEF Served
<1>. QED
  BY <1>2, <1>3, <1>4 DEF HookInv

\* The invariant holds.
LEMMA HookInvariant == HookSpec => []HookInv
BY HookInitInv, HookStep, PTL DEF HookSpec

\* A delivery queues each subscription once, keeps a queue exactly while it is
\* under way, and sends nobody more than MAX_RETRIES + 1 requests.
THEOREM HookTypeCorrect == HookSpec => []HookTypeOK
<1>1. HookInv => HookTypeOK
  BY DEF HookInv, HookTypes, Standing, Served, QueueStands, Underway, Bounded,
         HookTypeOK
<1>. QED
  BY <1>1, HookInvariant, PTL

\* After a deletion a delivery sends at most the request whose lookup came first.
THEOREM DeletionStopsRequests == HookSpec => []DeletionStops
<1>1. HookInv => DeletionStops
  BY DEF HookInv, Served, Bounded, DeletionStops
<1>. QED
  BY <1>1, HookInvariant, PTL

\* What deliver reports is what happened, and it reports on all of its snapshot.
THEOREM ReportsAreTrue == HookSpec => []OutcomesAccount
<1>1. HookInv => OutcomesAccount
  <2> SUFFICES ASSUME HookInv, NEW d \in Deliveries
               PROVE  /\ \A s \in Subscriptions : Accounted(d, s)
                      /\ delivery[d].at = "returned" =>
                           audience[d] = Reported(d)
    BY DEF OutcomesAccount, Accounted, Reported
  <2>1. Served(d)
    BY DEF HookInv
  <2>2. ASSUME delivery[d].at = "returned"
        PROVE  Queued(d) = {}
    BY <2>1, <2>2 DEF Served, QueueStands, Underway, Queued, Range
  <2>. QED
    BY <2>1, <2>2 DEF Served, QueueStands
<1>. QED
  BY <1>1, HookInvariant, PTL

==============================================================================
