------------------------- MODULE ContentTree_proofs -------------------------
(***************************************************************************)
(* Theorems about ContentTree, for any folders, requests and nesting cap:  *)
(* no folder outlives its parent; as long as requests do not overlap, the  *)
(* folders form a forest, and as long as none is cut off either, every row *)
(* between requests has the depth at which its folder lies.                *)
(*                                                                         *)
(* Above(t, f) is the least closed set over f, so what a walk up the tree  *)
(* would show by induction is shown here by choosing a closed set.         *)
(***************************************************************************)
EXTENDS ContentTree, FiniteSetTheorems, TLAPS

\* What the folder table may hold.
Tables == [Folders -> Row \union {NoFolder}]

\* What a request may be at work on.
Requested ==
  [op: {"none", "create", "move"}, top: Folders \union {Root}, todo: Tables]

\* Every folder of t lies at the top or in a folder of t.
Grounded(t) == \A f \in Stored(t) : t[f].parent \in Stored(t) \union {Root}

Acyclic(t) == \A f \in Stored(t) : f \notin Above(t, f)

\* Every row of t has the depth at which its folder lies.
DepthsTrue(t) == \A f \in Stored(t) : t[f].depth = Nesting(t, f)

\* f may go under p: p is at hand, and not below f.
MayGo(t, f, p) == p = Root \/ (p \in Stored(t) /\ p # f /\ f \notin Above(t, p))

---------------------------------------------------------------------------
(* The folders above a folder. *)

\* A parent is a folder or none.
LEMMA Parents ==
  ASSUME NEW t \in Tables
  PROVE  \A f \in Folders : t[f].parent \in Folders \union {Root}
  BY DEF Tables, Row, NoFolder

\* The parent is above, and what is above is closed.
LEMMA AboveHolds ==
  ASSUME NEW t \in Tables, NEW f \in Folders
  PROVE  /\ Above(t, f) \in SUBSET Folders
         /\ t[f].parent \in Above(t, f) \union {Root}
         /\ Closed(t, Above(t, f))
<1>1. t[f].parent \in Above(t, f) \union {Root}
  BY Parents DEF Above
<1>2. ASSUME NEW g \in Above(t, f), t[g].parent # Root
      PROVE  t[g].parent \in Above(t, f)
  <2>1. g \in Folders /\ t[g].parent \in Folders
    BY <1>2, Parents DEF Above
  <2>. QED
    BY <1>2, <2>1 DEF Above, Closed
<1>. QED
  BY <1>1, <1>2 DEF Above, Closed

\* And it is the least such set.
LEMMA AboveLeast ==
  ASSUME NEW t, NEW f \in Folders, NEW S \in SUBSET Folders,
         t[f].parent \in S \union {Root}, Closed(t, S)
  PROVE  Above(t, f) \subseteq S
  BY DEF Above

LEMMA AboveTransitive ==
  ASSUME NEW t \in Tables, NEW f \in Folders, NEW g \in Above(t, f)
  PROVE  Above(t, g) \subseteq Above(t, f)
<1>1. Above(t, f) \in SUBSET Folders /\ Closed(t, Above(t, f))
  BY AboveHolds
<1>. QED
  BY <1>1, AboveLeast DEF Closed

\* At the top nothing is above, elsewhere the parent and what is above it.
LEMMA AboveParent ==
  ASSUME NEW t \in Tables, NEW f \in Folders
  PROVE  Above(t, f) = IF t[f].parent = Root THEN {}
                       ELSE {t[f].parent} \union Above(t, t[f].parent)
<1>1. CASE t[f].parent = Root
  BY <1>1, AboveLeast, {} \in SUBSET Folders DEF Closed
<1>2. CASE t[f].parent # Root
  <2> DEFINE p == t[f].parent
             S == {p} \union Above(t, p)
  <2>1. p \in Folders
    BY <1>2, Parents
  <2>2. p \in Above(t, f)
    BY <1>2, AboveHolds
  <2>3. /\ Above(t, p) \in SUBSET Folders
        /\ t[p].parent \in Above(t, p) \union {Root}
        /\ Closed(t, Above(t, p))
    BY <2>1, AboveHolds
  <2>4. S \in SUBSET Folders /\ Closed(t, S) /\ p \in S
    BY <2>1, <2>3 DEF Closed
  <2>5. Above(t, f) \subseteq S
    BY <2>4, AboveLeast
  <2>6. S \subseteq Above(t, f)
    BY <2>2, AboveTransitive
  <2>. QED
    BY <1>2, <2>5, <2>6
<1>. QED
  BY <1>1, <1>2

\* What is above a stored folder is stored.
LEMMA AboveStored ==
  ASSUME NEW t \in Tables, Grounded(t),
         NEW f \in Folders, t[f].parent \in Stored(t) \union {Root}
  PROVE  Above(t, f) \subseteq Stored(t)
<1>1. Stored(t) \in SUBSET Folders /\ Closed(t, Stored(t))
  BY DEF Stored, Closed, Grounded
<1>. QED
  BY <1>1, AboveLeast

\* It depends on the parents of f and of what is above f only.
LEMMA AboveAgrees ==
  ASSUME NEW t \in Tables, NEW u \in Tables, NEW f \in Folders,
         \A g \in Above(t, f) \union {f} : u[g].parent = t[g].parent
  PROVE  Above(u, f) = Above(t, f)
<1>1. /\ Above(t, f) \in SUBSET Folders
      /\ t[f].parent \in Above(t, f) \union {Root}
      /\ Closed(t, Above(t, f))
  BY AboveHolds
<1>2. Above(u, f) \subseteq Above(t, f)
  <2>1. u[f].parent \in Above(t, f) \union {Root} /\ Closed(u, Above(t, f))
    BY <1>1 DEF Closed
  <2>. QED
    BY <1>1, <2>1, AboveLeast
<1>3. Above(t, f) \subseteq Above(u, f)
  <2>1. /\ Above(u, f) \in SUBSET Folders
        /\ u[f].parent \in Above(u, f) \union {Root}
        /\ Closed(u, Above(u, f))
    BY AboveHolds
  <2>2. t[f].parent \in Above(u, f) \union {Root} /\ Closed(t, Above(u, f))
    BY <1>2, <2>1 DEF Closed
  <2>. QED
    BY <2>1, <2>2, AboveLeast
<1>. QED
  BY <1>2, <1>3

\* A folder lies one deeper than its parent.
LEMMA NestingUnder ==
  ASSUME NEW t \in Tables, Grounded(t), Acyclic(t), IsFiniteSet(Stored(t)),
         NEW f \in Stored(t)
  PROVE  /\ Nesting(t, f) \in Nat
         /\ t[f].parent = Root => Nesting(t, f) = 0
         /\ t[f].parent # Root =>
              t[f].parent \in Stored(t) /\ Nesting(t, f) = Nesting(t, t[f].parent) + 1
<1>1. f \in Folders /\ t[f].parent \in Stored(t) \union {Root}
  BY DEF Stored, Grounded
<1>2. CASE t[f].parent = Root
  <2>1. Above(t, f) = {}
    BY <1>1, <1>2, AboveParent
  <2>. QED
    BY <1>2, <2>1, FS_EmptySet DEF Nesting
<1>3. CASE t[f].parent # Root
  <2> DEFINE p == t[f].parent
  <2>1. p \in Stored(t) /\ p \in Folders
    BY <1>1, <1>3 DEF Stored
  <2>2. IsFiniteSet(Above(t, p)) /\ Cardinality(Above(t, p)) \in Nat
    BY <2>1, AboveStored, FS_Subset, FS_CardinalityType DEF Grounded
  <2>3. p \notin Above(t, p)
    BY <2>1 DEF Acyclic
  <2>4. Above(t, f) = Above(t, p) \union {p}
    BY <1>1, <1>3, AboveParent
  <2>5. Cardinality(Above(t, f)) = Cardinality(Above(t, p)) + 1
    BY <2>2, <2>3, <2>4, FS_AddElement
  <2>. QED
    BY <1>3, <2>1, <2>2, <2>5 DEF Nesting
<1>. QED
  BY <1>2, <1>3

---------------------------------------------------------------------------
(* A tree before a step, t, and after it, u. *)

\* f went under p, with all that is below it.
Moved(t, u, f, p) ==
  /\ t \in Tables /\ u \in Tables
  /\ Grounded(t) /\ Acyclic(t)
  /\ f \in Stored(t) /\ Stored(u) = Stored(t)
  /\ MayGo(t, f, p)
  /\ u[f].parent = p
  /\ \A g \in Folders \ {f} : u[g].parent = t[g].parent

\* What is not below f has the same above it as before.
LEMMA MovedElsewhere ==
  ASSUME NEW t, NEW u, NEW f, NEW p, Moved(t, u, f, p),
         NEW g \in Folders, g # f, f \notin Above(t, g)
  PROVE  Above(u, g) = Above(t, g)
<1>1. Above(t, g) \in SUBSET Folders
  BY AboveHolds DEF Moved
<1>. QED
  BY <1>1, AboveAgrees DEF Moved

\* f has its new place above it.
LEMMA MovedTop ==
  ASSUME NEW t, NEW u, NEW f, NEW p, Moved(t, u, f, p)
  PROVE  /\ Above(u, f) = IF p = Root THEN {} ELSE {p} \union Above(t, p)
         /\ f \notin Above(u, f)
<1>1. f \in Folders /\ (p # Root => p \in Folders)
  BY DEF Moved, MayGo, Stored
<1>2. p # Root => Above(u, p) = Above(t, p)
  BY <1>1, MovedElsewhere DEF Moved, MayGo
<1>. QED
  BY <1>1, <1>2, AboveParent DEF Moved, MayGo

\* What was below f has what it had, and what f has now.
LEMMA MovedBelow ==
  ASSUME NEW t, NEW u, NEW f, NEW p, Moved(t, u, f, p),
         NEW g \in Folders, g # f
  PROVE  Above(u, g) \subseteq Above(t, g) \union Above(u, f)
<1> DEFINE S == Above(t, g) \union Above(u, f)
<1>1. /\ Above(t, g) \in SUBSET Folders
      /\ t[g].parent \in Above(t, g) \union {Root}
      /\ Closed(t, Above(t, g))
  BY AboveHolds DEF Moved
<1>2. /\ Above(u, f) \in SUBSET Folders
      /\ u[f].parent \in Above(u, f) \union {Root}
      /\ Closed(u, Above(u, f))
  BY AboveHolds DEF Moved, Stored
<1>3. S \in SUBSET Folders /\ u[g].parent \in S \union {Root}
  BY <1>1, <1>2 DEF Moved
<1>4. Closed(u, S)
  BY <1>1, <1>2 DEF Closed, Moved
<1>. QED
  BY <1>3, <1>4, AboveLeast

\* A move makes no cycle.
LEMMA MovedAcyclic ==
  ASSUME NEW t, NEW u, NEW f, NEW p, Moved(t, u, f, p)
  PROVE  Grounded(u) /\ Acyclic(u)
<1>1. Grounded(u)
  BY DEF Moved, Grounded, MayGo, Stored
<1>2. ASSUME NEW g \in Stored(u), g \in Above(u, g)
      PROVE  FALSE
  <2>1. g \in Folders /\ g # f /\ g \notin Above(t, g)
    BY <1>2, MovedTop DEF Moved, Acyclic, Stored
  <2>2. f \in Above(t, g) /\ g \in Above(u, f)
    BY <1>2, <2>1, MovedElsewhere, MovedBelow
  <2>3. p \in Folders /\ (g = p \/ g \in Above(t, p))
    BY <2>2, MovedTop DEF Moved, MayGo, Stored
  <2>4. f \in Above(t, p)
    BY <2>2, <2>3, AboveTransitive DEF Moved
  <2>. QED
    BY <2>3, <2>4, TreeAssumption DEF Moved, MayGo
<1>. QED
  BY <1>1, <1>2 DEF Acyclic

\* A folder below f keeps its distance from f: otherwise its parent is below f
\* too and does not keep it either, and so on up to f.
LEMMA MovedNesting ==
  ASSUME NEW t, NEW u, NEW f, NEW p, Moved(t, u, f, p), IsFiniteSet(Stored(t)),
         NEW g \in Stored(t)
  PROVE  /\ Nesting(u, f) = IF p = Root THEN 0 ELSE Nesting(t, p) + 1
         /\ g = f \/ g \in Below(t, f) =>
              Nesting(u, g) = Nesting(t, g) + (Nesting(u, f) - Nesting(t, f))
         /\ g # f /\ g \notin Below(t, f) => Nesting(u, g) = Nesting(t, g)
<1>1. /\ t \in Tables /\ Grounded(t) /\ Acyclic(t)
      /\ u \in Tables /\ Grounded(u) /\ Acyclic(u)
  BY MovedAcyclic DEF Moved
<1>2. Stored(u) = Stored(t) /\ f \in Stored(t) /\ Stored(t) \subseteq Folders
  BY DEF Moved, Stored
<1>3. \A h \in Stored(t) :
        /\ Nesting(t, h) \in Nat /\ Nesting(u, h) \in Nat
        /\ t[h].parent # Root =>
             t[h].parent \in Stored(t) /\ Nesting(t, h) = Nesting(t, t[h].parent) + 1
        /\ u[h].parent # Root =>
             u[h].parent \in Stored(t) /\ Nesting(u, h) = Nesting(u, u[h].parent) + 1
        /\ u[h].parent = Root => Nesting(u, h) = 0
  BY <1>1, <1>2, NestingUnder
<1>4. \A h \in Stored(t) : h # f /\ h \notin Below(t, f) => Nesting(u, h) = Nesting(t, h)
  BY <1>2, MovedElsewhere DEF Below, Nesting
<1>5. Nesting(u, f) = IF p = Root THEN 0 ELSE Nesting(t, p) + 1
  <2>1. u[f].parent = p
    BY DEF Moved
  <2>2. p # Root => p # f /\ p \notin Below(t, f)
    BY DEF Moved, MayGo, Below
  <2>. QED
    BY <1>2, <1>3, <1>4, <2>1, <2>2
<1>6. \A h \in Below(t, f) :
        Nesting(u, h) = Nesting(t, h) + (Nesting(u, f) - Nesting(t, f))
  <2> DEFINE Wrong == {h \in Below(t, f) :
                Nesting(u, h) # Nesting(t, h) + (Nesting(u, f) - Nesting(t, f))}
  <2>1. ASSUME NEW h \in Wrong
        PROVE  t[h].parent \in Wrong
    <3> DEFINE q == t[h].parent
    <3>1. h \in Stored(t) /\ h \in Folders /\ f \in Above(t, h)
      BY <1>2 DEF Below
    <3>2. h # f
      BY <1>1, <1>2, <3>1 DEF Acyclic
    <3>3. q # Root /\ (f = q \/ f \in Above(t, q))
      BY <1>1, <3>1, AboveParent
    <3>4. q \in Stored(t) /\ u[h].parent = q
      BY <1>2, <1>3, <3>1, <3>2, <3>3 DEF Moved
    <3>5. Nesting(t, h) = Nesting(t, q) + 1 /\ Nesting(u, h) = Nesting(u, q) + 1
      BY <1>3, <3>1, <3>3, <3>4
    <3>6. Nesting(u, q) # Nesting(t, q) + (Nesting(u, f) - Nesting(t, f))
      BY <1>2, <1>3, <3>1, <3>4, <3>5
    <3>7. q # f
      BY <1>2, <1>3, <3>6
    <3>. QED
      BY <3>3, <3>4, <3>6, <3>7 DEF Below
  <2>2. Wrong \in SUBSET Folders /\ Closed(t, Wrong)
    BY <1>2, <2>1 DEF Below, Closed
  <2>3. ASSUME NEW h \in Wrong
        PROVE  FALSE
    <3>1. Above(t, h) \subseteq Wrong
      BY <2>1, <2>2, <2>3, AboveLeast
    <3>2. f \in Below(t, f)
      BY <2>3, <3>1 DEF Below
    <3>. QED
      BY <1>1, <1>2, <3>2 DEF Below, Acyclic
  <2>. QED
    BY <2>3
<1>. QED
  BY <1>2, <1>3, <1>4, <1>5, <1>6

\* Nothing went elsewhere: rows changed in their depth only.
LEMMA SameParents ==
  ASSUME NEW t \in Tables, NEW u \in Tables, Stored(u) = Stored(t),
         \A g \in Folders : u[g].parent = t[g].parent
  PROVE  /\ \A g \in Folders : Above(u, g) = Above(t, g) /\ Nesting(u, g) = Nesting(t, g)
         /\ Grounded(t) => Grounded(u)
         /\ Acyclic(t) => Acyclic(u)
<1>1. \A g \in Folders : Above(u, g) = Above(t, g)
  <2> SUFFICES ASSUME NEW g \in Folders
               PROVE  Above(u, g) = Above(t, g)
    OBVIOUS
  <2>1. Above(t, g) \in SUBSET Folders
    BY AboveHolds
  <2>. QED
    BY <2>1, AboveAgrees
<1>. QED
  BY <1>1 DEF Nesting, Grounded, Acyclic, Stored

\* f is gone, and all that was below it.
LEMMA Removal ==
  ASSUME NEW t \in Tables, Grounded(t), NEW f \in Stored(t), NEW u,
         u = [g \in Folders |-> IF g = f \/ g \in Below(t, f) THEN NoFolder ELSE t[g]]
  PROVE  /\ u \in Tables /\ Stored(u) \subseteq Stored(t) /\ Grounded(u)
         /\ \A g \in Stored(u) : /\ u[g] = t[g]
                                 /\ Above(u, g) = Above(t, g)
                                 /\ Nesting(u, g) = Nesting(t, g)
<1>1. u \in Tables
  BY DEF Tables
<1>2. Stored(u) = {g \in Stored(t) : g # f /\ g \notin Below(t, f)}
  BY DEF Stored
<1>3. ASSUME NEW g \in Stored(u)
      PROVE  /\ u[g] = t[g]
             /\ \A h \in Above(t, g) : h \in Stored(u) /\ u[h] = t[h]
  <2>1. g \in Folders /\ g \in Stored(t) /\ g # f /\ g \notin Below(t, f)
    BY <1>2 DEF Stored
  <2>2. Above(t, g) \subseteq Stored(t)
    BY <2>1, AboveStored DEF Grounded
  <2>3. ASSUME NEW h \in Above(t, g)
        PROVE  h # f /\ h \notin Below(t, f)
    <3>1. Above(t, h) \subseteq Above(t, g)
      BY <2>1, AboveTransitive
    <3>. QED
      BY <2>1, <2>3, <3>1 DEF Below
  <2>. QED
    BY <1>2, <2>1, <2>2, <2>3 DEF Stored
<1>4. Grounded(u)
  <2> SUFFICES ASSUME NEW g \in Stored(u), u[g].parent # Root
               PROVE  u[g].parent \in Stored(u)
    BY DEF Grounded
  <2>1. u[g] = t[g] /\ g \in Folders
    BY <1>3 DEF Stored
  <2>2. t[g].parent \in Above(t, g)
    BY <2>1, AboveHolds
  <2>. QED
    BY <1>3, <2>1, <2>2
<1>5. ASSUME NEW g \in Stored(u)
      PROVE  Above(u, g) = Above(t, g)
  <2>1. g \in Folders
    BY DEF Stored
  <2>2. \A h \in Above(t, g) \union {g} : u[h].parent = t[h].parent
    BY <1>3
  <2>. QED
    BY <1>1, <2>1, <2>2, AboveAgrees
<1>. QED
  BY <1>1, <1>2, <1>3, <1>4, <1>5 DEF Nesting

\* f is new, at the top or in a stored folder.
LEMMA Insertion ==
  ASSUME NEW t \in Tables, Grounded(t),
         NEW f \in Folders \ Stored(t), NEW row \in Row,
         row.parent \in Stored(t) \union {Root},
         NEW u \in Tables, u[f] = row, \A g \in Folders \ {f} : u[g] = t[g]
  PROVE  /\ Stored(u) = Stored(t) \union {f} /\ Grounded(u)
         /\ \A g \in Stored(t) : /\ u[g] = t[g]
                                 /\ Above(u, g) = Above(t, g)
                                 /\ Nesting(u, g) = Nesting(t, g)
         /\ Acyclic(t) => Acyclic(u)
<1>1. Stored(u) = Stored(t) \union {f}
  <2>1. row # NoFolder
    BY DEF Row, NoFolder
  <2>. QED
    BY <2>1 DEF Stored
<1>2. \A g \in Stored(t) : g \in Folders /\ g # f /\ u[g] = t[g]
  BY DEF Stored
<1>3. Grounded(u)
  BY <1>1, <1>2 DEF Grounded
<1>4. ASSUME NEW g \in Stored(t)
      PROVE  Above(u, g) = Above(t, g)
  <2>1. Above(t, g) \subseteq Stored(t) /\ g \in Folders
    BY <1>2, AboveStored DEF Grounded
  <2>2. \A h \in Above(t, g) \union {g} : u[h].parent = t[h].parent
    BY <1>2, <2>1
  <2>. QED
    BY <1>1, <2>1, <2>2, AboveAgrees
<1>5. Acyclic(t) => f \notin Above(u, f)
  <2>1. row.parent # Root => row.parent \in Stored(t) /\ row.parent # f
    OBVIOUS
  <2>2. row.parent # Root => f \notin Above(u, row.parent)
    <3>1. row.parent # Root => Above(t, row.parent) \subseteq Stored(t)
      BY <1>2, <2>1, AboveStored DEF Grounded
    <3>. QED
      BY <1>4, <2>1, <3>1
  <2>3. CASE row.parent = Root
    BY <1>1, <2>3, AboveParent
  <2>4. CASE row.parent # Root
    <3>1. Above(u, f) = {row.parent} \union Above(u, row.parent)
      BY <1>1, <2>4, AboveParent
    <3>. QED
      BY <2>1, <2>2, <2>4, <3>1
  <2>. QED
    BY <2>3, <2>4
<1>. QED
  BY <1>1, <1>2, <1>3, <1>4, <1>5 DEF Acyclic, Nesting

---------------------------------------------------------------------------
(* The invariant. *)

\* What a request works on.
EditsKnown ==
  \A e \in Edits :
    /\ edit[e].op = "none" => edit[e] = IdleEdit
    /\ edit[e].op # "none" => edit[e].top \in used
    /\ edit[e].op = "create" => edit[e].todo[edit[e].top] \in Row

\* Every stored folder was created, and only so many.
IdsKnown == Stored(folder) \subseteq used /\ IsFiniteSet(used)

\* Without overlaps there is one request at most, and the tree it read is
\* still there: a move is still possible, or made.
Alone == \A d, e \in Edits : Working(d) /\ Working(e) => d = e

\* It still has rows of stored folders to write, under the parents they have.
MoveStands(e) ==
  LET todo == edit[e].todo
      top == edit[e].top
  IN /\ \A g \in Stored(todo) :
          g \in Stored(folder) /\ (g # top => todo[g].parent = folder[g].parent)
     /\ top \in Stored(todo) => MayGo(folder, top, todo[top].parent)

\* Its row is still to come, and the parent there.
CreateStands(e) ==
  LET row == edit[e].todo[edit[e].top]
  IN edit[e].top \notin Stored(folder) /\ row.parent \in Stored(folder) \union {Root}

\* What no overlap leaves.
Serial ==
  /\ Alone
  /\ Acyclic(folder)
  /\ \A e \in Edits : /\ edit[e].op = "move" => MoveStands(e)
                      /\ edit[e].op = "create" => CreateStands(e)

\* The depths are true but for those in todo, which has them right.
DepthsBut(t, todo) ==
  \A g \in Stored(t) :
    Nesting(t, g) = IF g \in Stored(todo) THEN todo[g].depth ELSE t[g].depth

\* Before the moved folder is written the depths are true; from then on what is
\* not written lacks.
MoveAccounts(e) ==
  LET todo == edit[e].todo
      top == edit[e].top
  IN IF top \in Stored(todo)
     THEN /\ DepthsTrue(folder)
          /\ todo = Rewrites(top, todo[top].parent, DepthsUnder(top, todo[top].parent))
     ELSE DepthsBut(folder, todo)

\* The row has the depth under the parent it goes to.
CreateAccounts(e) ==
  LET row == edit[e].todo[edit[e].top]
  IN DepthsTrue(folder) /\ row.depth = DepthUnder(folder, row.parent)

\* What neither an overlap nor a cut leaves.
Depths ==
  /\ (\A e \in Edits : ~Working(e)) => DepthsTrue(folder)
  /\ \A e \in Edits : /\ edit[e].op = "move" => MoveAccounts(e)
                      /\ edit[e].op = "create" => CreateAccounts(e)

\* The inductive invariant.
TreeInv ==
  /\ TreeTypeOK
  /\ ParentsExist
  /\ EditsKnown
  /\ IdsKnown
  /\ "overlap" \notin trouble => Serial
  /\ trouble = {} => Depths


\* What the invariant says in terms of trees.
LEMMA TreeFacts ==
  ASSUME TreeInv
  PROVE  /\ folder \in Tables /\ Grounded(folder)
         /\ Stored(folder) \subseteq Folders /\ IsFiniteSet(Stored(folder))
         /\ \A f \in Stored(folder) : folder[f] \in Row
         /\ \A e \in Edits :
              /\ edit[e].op \in {"none", "create", "move"}
              /\ edit[e].todo \in Tables
              /\ edit[e].op # "none" => edit[e].top \in Folders
<1>1. IsFiniteSet(Stored(folder))
  BY FS_Subset DEF TreeInv, IdsKnown
<1>2. Grounded(folder)
  BY DEF TreeInv, ParentsExist, RowFits, Grounded
<1>. QED
  BY <1>1, <1>2 DEF TreeInv, TreeTypeOK, EditsKnown, Tables, Stored

\* A request that begins without overlap is the only one.
LEMMA Beginning ==
  ASSUME TreeInv, NEW e \in Edits, NEW work, BeginEdit(e, work)
  PROVE  /\ edit' = [edit EXCEPT ![e] = work]
         /\ edit'[e] = work
         /\ \A d \in Edits \ {e} : edit'[d] = edit[d]
         /\ trouble' \subseteq {"overlap", "cut"}
         /\ "overlap" \notin trouble' =>
              /\ \A d \in Edits : edit[d].op = "none"
              /\ "overlap" \notin trouble /\ Serial
              /\ trouble' = {} => Depths /\ DepthsTrue(folder)
  BY DEF BeginEdit, TreeInv, TreeTypeOK, Working, Depths

\* A request that ends leaves none, unless some overlapped.
LEMMA Ending ==
  ASSUME TreeInv, NEW e \in Edits, Working(e), EndEdit(e)
  PROVE  /\ edit'[e] = IdleEdit
         /\ \A d \in Edits \ {e} : edit'[d] = edit[d]
         /\ edit' \in [Edits -> Requested]
         /\ used' = used => EditsKnown'
         /\ "overlap" \notin trouble => \A d \in Edits : edit'[d].op = "none"
<1>1. edit' = [edit EXCEPT ![e] = IdleEdit] /\ edit \in [Edits -> Requested]
  BY DEF EndEdit, TreeInv, TreeTypeOK, Requested, Tables
<1>2. IdleEdit \in Requested
  BY DEF IdleEdit, Nothing, Tables, Requested
<1>3. edit'[e] = IdleEdit /\ \A d \in Edits \ {e} : edit'[d] = edit[d]
  BY <1>1
<1>4. used' = used => EditsKnown'
  BY <1>3 DEF EditsKnown, TreeInv, IdleEdit
<1>5. "overlap" \notin trouble => \A d \in Edits : edit'[d].op = "none"
  BY <1>3 DEF TreeInv, Serial, Alone, Working, IdleEdit
<1>. QED
  BY <1>1, <1>2, <1>3, <1>4, <1>5

\* With no request under way, a forest is all there is to say.
LEMMA AllIdle ==
  ASSUME \A e \in Edits : edit'[e].op = "none"
  PROVE  /\ Acyclic(folder') => Serial'
         /\ DepthsTrue(folder') => Depths'
  BY DEF Serial, Alone, Depths, Working

\* The row fits the tree that was read; nothing is written yet.
LEMMA CreateStep ==
  ASSUME TreeInv, NEW e \in Edits, NEW p \in Folders \union {Root}, CreateFolder(e, p)
  PROVE  TreeInv'
<1> DEFINE f == CHOOSE id \in Folders : id \notin used
           row == [parent |-> p, depth |-> DepthUnder(folder, p)]
           work == [op |-> "create", top |-> f, todo |-> [Nothing EXCEPT ![f] = row]]
<1>1. f \in Folders /\ f \notin used
  BY DEF CreateFolder, TreeInv, TreeTypeOK
<1>2. /\ BeginEdit(e, work) /\ used' = used \union {f} /\ folder' = folder
      /\ p \in Stored(folder) \union {Root} /\ DepthUnder(folder, p) < MaxNesting
  BY DEF CreateFolder
<1>3. row \in Row
  BY <1>2, TreeFacts, TreeAssumption DEF DepthUnder, Row
<1>4. /\ work \in Requested
      /\ work.todo[f] = row
  BY <1>1, <1>3 DEF Nothing, Tables, Requested
<1>. HIDE DEF f, row, work
<1>5. TreeTypeOK' /\ ParentsExist'
  <2>1. ParentsExist'
    BY <1>2 DEF TreeInv, ParentsExist, RowFits
  <2>2. edit' = [edit EXCEPT ![e] = work] /\ trouble' \subseteq {"overlap", "cut"}
    BY <1>2, Beginning
  <2>. QED
    BY <1>1, <1>2, <1>4, <2>1, <2>2 DEF TreeInv, TreeTypeOK, Requested, Tables
<1>6. EditsKnown' /\ IdsKnown'
  <2>1. IdsKnown'
    BY <1>2, FS_AddElement DEF TreeInv, IdsKnown
  <2>2. edit'[e] = work /\ \A d \in Edits \ {e} : edit'[d] = edit[d]
    BY <1>2, Beginning
  <2>3. work.op = "create" /\ work.top \in used' /\ work.todo[work.top] \in Row
    BY <1>2, <1>3, <1>4 DEF work
  <2>4. EditsKnown'
    BY <1>2, <2>2, <2>3 DEF TreeInv, EditsKnown
  <2>. QED
    BY <2>1, <2>4
<1>7. "overlap" \notin trouble' => Serial'
  <2> SUFFICES ASSUME "overlap" \notin trouble'
               PROVE  Serial'
    OBVIOUS
  <2>1. edit'[e] = work /\ \A d \in Edits \ {e} : edit'[d].op = "none"
    BY <1>2, Beginning
  <2>2. CreateStands(e)'
    BY <1>1, <1>2, <1>4, <2>1 DEF CreateStands, TreeInv, IdsKnown, work, row
  <2>. QED
    BY <1>2, <2>1, <2>2, Beginning DEF Serial, Alone, Working, work
<1>8. trouble' = {} => Depths'
  <2> SUFFICES ASSUME trouble' = {}
               PROVE  Depths'
    OBVIOUS
  <2>1. edit'[e] = work /\ (\A d \in Edits \ {e} : edit'[d].op = "none") /\ DepthsTrue(folder)
    BY <1>2, Beginning
  <2>2. CreateAccounts(e)'
    BY <1>2, <1>4, <2>1 DEF CreateAccounts, work, row
  <2>. QED
    BY <2>1, <2>2 DEF Depths, Working, work
<1>. QED
  BY <1>5, <1>6, <1>7, <1>8 DEF TreeInv

\* Alone, the insert finds the tree as it was read.
LEMMA InsertStep ==
  ASSUME TreeInv, NEW e \in Edits, InsertFolder(e)
  PROVE  TreeInv'
<1> DEFINE f == edit[e].top
           row == edit[e].todo[f]
<1>1. /\ edit[e].op = "create" /\ Working(e) /\ EndEdit(e)
      /\ folder' = IF RowFits(row) THEN [folder EXCEPT ![f] = row] ELSE folder
      /\ used' = used /\ trouble' = trouble
  BY DEF InsertFolder, Working
<1>2. f \in used /\ f \in Folders /\ row \in Row /\ row # NoFolder
  BY <1>1, TreeFacts DEF TreeInv, EditsKnown, Row, NoFolder
<1>3. /\ folder' \in Tables /\ Stored(folder') \subseteq Stored(folder) \union {f}
      /\ RowFits(row) => Stored(folder') = Stored(folder) \union {f} /\ folder'[f] = row
      /\ \A g \in Folders \ {f} : folder'[g] = folder[g]
  BY <1>1, <1>2, TreeFacts DEF Tables, Stored
<1>4. TreeTypeOK'
  BY <1>1, <1>3, Ending DEF TreeInv, TreeTypeOK, Requested, Tables
<1>5. ParentsExist'
  BY <1>1, <1>3, TreeFacts DEF TreeInv, ParentsExist, RowFits
<1>6. EditsKnown' /\ IdsKnown'
  BY <1>1, <1>2, <1>3, Ending DEF TreeInv, IdsKnown
<1>7. "overlap" \notin trouble' => Serial' /\ (trouble' = {} => Depths')
  <2> SUFFICES ASSUME "overlap" \notin trouble
               PROVE  Serial' /\ (trouble = {} => Depths')
    BY <1>1
  <2>1. /\ f \in Folders \ Stored(folder)
        /\ row.parent \in Stored(folder) \union {Root}
        /\ Acyclic(folder)
    BY <1>1, <1>2 DEF TreeInv, Serial, CreateStands
  <2>2. folder' = [folder EXCEPT ![f] = row]
    BY <1>1, <2>1 DEF RowFits
  <2>3. /\ Stored(folder') = Stored(folder) \union {f} /\ Grounded(folder') /\ Acyclic(folder')
        /\ \A g \in Stored(folder) : /\ folder'[g] = folder[g]
                                     /\ Nesting(folder', g) = Nesting(folder, g)
    <3>1. folder \in Tables /\ Grounded(folder)
      BY TreeFacts
    <3>2. folder'[f] = row /\ f \in Folders \ Stored(folder) /\ row \in Row
      BY <1>2, <1>3, <2>1 DEF RowFits
    <3>3. folder' \in Tables /\ \A g \in Folders \ {f} : folder'[g] = folder[g]
      BY <1>3
    <3>4. row.parent \in Stored(folder) \union {Root}
      BY <2>1
    <3>. HIDE DEF f, row
    <3>. QED
      BY <2>1, <3>1, <3>2, <3>3, <3>4, Insertion
  <2>4. trouble = {} => DepthsTrue(folder')
    <3> SUFFICES ASSUME trouble = {}
                 PROVE  DepthsTrue(folder')
      OBVIOUS
    <3>1. DepthsTrue(folder) /\ row.depth = DepthUnder(folder, row.parent)
      BY <1>1 DEF TreeInv, Depths, CreateAccounts
    <3>2. folder'[f] = row /\ IsFiniteSet(Stored(folder')) /\ f \in Stored(folder')
      BY <1>3, <2>1, <2>3, FS_AddElement, TreeFacts DEF RowFits
    <3>3. /\ row.parent = Root => Nesting(folder', f) = 0
          /\ row.parent # Root => Nesting(folder', f) = Nesting(folder', row.parent) + 1
      <4>1. folder' \in Tables /\ Grounded(folder') /\ Acyclic(folder')
        BY <1>3, <2>3
      <4>. HIDE DEF f, row
      <4>. QED
        BY <4>1, <3>2, NestingUnder
    <3>4. row.depth = Nesting(folder', f)
      BY <2>1, <2>3, <3>1, <3>3 DEF DepthUnder, DepthsTrue
    <3>. QED
      BY <2>3, <3>1, <3>2, <3>4 DEF DepthsTrue
  <2>. QED
    BY <1>1, <2>3, <2>4, Ending, AllIdle
<1>. QED
  BY <1>1, <1>4, <1>5, <1>6, <1>7 DEF TreeInv


\* What a move will write: rows of the folders it read, with their parents.
LEMMA RewritesRows ==
  ASSUME TreeInv, NEW f \in Stored(folder), NEW p \in Stored(folder) \union {Root},
         MayMove(f, p, DepthsUnder(f, p)),
         NEW todo, todo = Rewrites(f, p, DepthsUnder(f, p))
  PROVE  /\ todo \in Tables
         /\ todo[f] = [parent |-> p, depth |-> DepthUnder(folder, p)] /\ f \in Stored(todo)
         /\ \A g \in Stored(todo) :
              g \in Stored(folder) /\ (g # f => todo[g].parent = folder[g].parent)
         /\ MayGo(folder, f, p)
<1> DEFINE depths == DepthsUnder(f, p)
<1>0. todo = Rewrites(f, p, depths)
  OBVIOUS
<1>1. /\ folder \in Tables /\ Grounded(folder) /\ IsFiniteSet(Stored(folder))
      /\ f \in Folders /\ Stored(folder) \subseteq Folders
      /\ \A g \in Stored(folder) : folder[g] \in Row
  BY TreeFacts
<1>2. \A g \in Stored(folder) : IsFiniteSet(Above(folder, g)) /\ Nesting(folder, g) \in Nat
  BY <1>1, AboveStored, FS_Subset, FS_CardinalityType DEF Grounded, Nesting
<1>3. DepthUnder(folder, p) \in Nat
  BY <1>1 DEF DepthUnder, Row
<1>4. /\ DOMAIN depths = Below(folder, f) \union {f}
      /\ \A g \in DOMAIN depths :
           depths[g] = Nesting(folder, g) + (DepthUnder(folder, p) - Nesting(folder, f))
  BY DEF DepthsUnder
<1>5. \A g \in DOMAIN depths : g \in Stored(folder) /\ depths[g] \in 0..MaxNesting - 1
  <2> SUFFICES ASSUME NEW g \in DOMAIN depths
               PROVE  g \in Stored(folder) /\ depths[g] \in 0..MaxNesting - 1
    OBVIOUS
  <2>1. g \in Stored(folder) /\ (g = f \/ f \in Above(folder, g))
    BY <1>4 DEF Below
  <2>2. Above(folder, f) \subseteq Above(folder, g)
    BY <1>1, <2>1, AboveTransitive
  <2>3. Nesting(folder, f) <= Nesting(folder, g)
    BY <1>2, <2>1, <2>2, FS_Subset DEF Nesting
  <2>4. depths[g] < MaxNesting
    BY DEF MayMove
  <2>. HIDE DEF depths
  <2>. QED
    BY <1>2, <1>3, <1>4, <2>1, <2>3, <2>4, TreeAssumption
<1>6. depths[f] = DepthUnder(folder, p)
  <2>. HIDE DEF depths
  <2>. QED
    BY <1>2, <1>3, <1>4
<1>7. MayGo(folder, f, p)
  BY <1>4 DEF MayMove, MayGo, Below
<1>. HIDE DEF depths
<1>8. \A g \in Folders :
        \/ g = f /\ todo[g] = [parent |-> p, depth |-> depths[f]]
        \/ /\ g # f /\ g \in DOMAIN depths
           /\ todo[g] = [folder[g] EXCEPT !.depth = depths[g]]
        \/ g # f /\ todo[g] = NoFolder
  BY <1>0 DEF Rewrites
<1>9. [parent |-> p, depth |-> depths[f]] \in Row
  BY <1>1, <1>4, <1>5 DEF Row
<1>10. \A g \in DOMAIN depths :
         /\ [folder[g] EXCEPT !.depth = depths[g]] \in Row
         /\ [folder[g] EXCEPT !.depth = depths[g]].parent = folder[g].parent
  BY <1>1, <1>5 DEF Row
<1>11. \A r \in Row : r # NoFolder
  BY DEF Row, NoFolder
<1>12. todo \in Tables
  <2>1. todo = [g \in Folders |-> todo[g]]
    BY <1>0 DEF Rewrites
  <2>. QED
    BY <1>8, <1>9, <1>10, <2>1 DEF Tables
<1>13. f \in Stored(todo) /\ todo[f] = [parent |-> p, depth |-> depths[f]]
  BY <1>1, <1>8, <1>9, <1>11 DEF Stored
<1>14. \A g \in Stored(todo) : 
         g \in Stored(folder) /\ (g # f => todo[g].parent = folder[g].parent)
  BY <1>5, <1>8, <1>10 DEF Stored
<1>. QED
  BY <1>6, <1>7, <1>12, <1>13, <1>14

\* The move is possible on the tree it read; nothing is written yet.
LEMMA MoveStep ==
  ASSUME TreeInv, NEW e \in Edits, NEW f \in Folders, NEW p \in Folders \union {Root},
         MoveFolder(e, f, p)
  PROVE  TreeInv'
<1> DEFINE todo == Rewrites(f, p, DepthsUnder(f, p))
           work == [op |-> "move", top |-> f, todo |-> todo]
<1>1. /\ BeginEdit(e, work) /\ used' = used /\ folder' = folder
      /\ f \in Stored(folder) /\ p \in Stored(folder) \union {Root}
      /\ MayMove(f, p, DepthsUnder(f, p))
  BY DEF MoveFolder
<1>2. /\ todo \in Tables /\ todo[f].parent = p /\ f \in Stored(todo)
      /\ \A g \in Stored(todo) :
           g \in Stored(folder) /\ (g # f => todo[g].parent = folder[g].parent)
      /\ MayGo(folder, f, p)
  <2>1. todo = Rewrites(f, p, DepthsUnder(f, p))
    OBVIOUS
  <2>. HIDE DEF todo
  <2>2. /\ todo \in Tables
        /\ todo[f] = [parent |-> p, depth |-> DepthUnder(folder, p)] /\ f \in Stored(todo)
        /\ \A g \in Stored(todo) :
             g \in Stored(folder) /\ (g # f => todo[g].parent = folder[g].parent)
        /\ MayGo(folder, f, p)
    BY <1>1, <2>1, RewritesRows
  <2>. QED
    BY <2>2
<1>3. work \in Requested
  BY <1>2 DEF Requested
<1>4. work.op = "move" /\ work.top = f /\ work.todo = todo
  OBVIOUS
<1>. HIDE DEF todo, work
<1>5. TreeTypeOK' /\ ParentsExist'
  <2>1. ParentsExist'
    BY <1>1 DEF TreeInv, ParentsExist, RowFits
  <2>2. edit' = [edit EXCEPT ![e] = work] /\ trouble' \subseteq {"overlap", "cut"}
    BY <1>1, Beginning
  <2>. QED
    BY <1>1, <1>3, <2>1, <2>2 DEF TreeInv, TreeTypeOK, Requested, Tables
<1>6. EditsKnown' /\ IdsKnown'
  <2>1. IdsKnown'
    BY <1>1 DEF TreeInv, IdsKnown
  <2>2. edit'[e] = work /\ \A d \in Edits \ {e} : edit'[d] = edit[d]
    BY <1>1, Beginning
  <2>3. f \in used'
    BY <1>1 DEF TreeInv, IdsKnown
  <2>4. EditsKnown'
    BY <1>1, <1>4, <2>2, <2>3 DEF TreeInv, EditsKnown
  <2>. QED
    BY <2>1, <2>4
<1>7. "overlap" \notin trouble' => Serial'
  <2> SUFFICES ASSUME "overlap" \notin trouble'
               PROVE  Serial'
    OBVIOUS
  <2>1. edit'[e] = work /\ \A d \in Edits \ {e} : edit'[d].op = "none"
    BY <1>1, Beginning
  <2>2. MoveStands(e)'
    BY <1>1, <1>2, <1>4, <2>1 DEF MoveStands
  <2>. QED
    BY <1>1, <1>4, <2>1, <2>2, Beginning DEF Serial, Alone, Working
<1>8. trouble' = {} => Depths'
  <2> SUFFICES ASSUME trouble' = {}
               PROVE  Depths'
    OBVIOUS
  <2>1. edit'[e] = work /\ (\A d \in Edits \ {e} : edit'[d].op = "none") /\ DepthsTrue(folder)
    BY <1>1, Beginning
  <2>2. todo = Rewrites(f, p, DepthsUnder(f, p))'
    BY <1>1 DEF todo, Rewrites, DepthsUnder
  <2>3. MoveAccounts(e)'
    BY <1>1, <1>2, <1>4, <2>1, <2>2 DEF MoveAccounts
  <2>. QED
    BY <1>4, <2>1, <2>3 DEF Depths, Working
<1>. QED
  BY <1>5, <1>6, <1>7, <1>8 DEF TreeInv



\* Once the moved folder is written, what is left is what the depths lack.
LEMMA TopWritten ==
  ASSUME TreeInv, DepthsTrue(folder), NEW f, NEW p, NEW u, Moved(folder, u, f, p),
         NEW todo, todo = Rewrites(f, p, DepthsUnder(f, p)), u[f] = todo[f],
         \A g \in Folders \ {f} : u[g] = folder[g]
  PROVE  DepthsBut(u, [todo EXCEPT ![f] = NoFolder])
<1> DEFINE depths == DepthsUnder(f, p)
           rest == [todo EXCEPT ![f] = NoFolder]
<1>1. /\ folder \in Tables /\ Grounded(folder) /\ Acyclic(folder) /\ IsFiniteSet(Stored(folder))
      /\ f \in Stored(folder) /\ Stored(u) = Stored(folder) /\ Stored(folder) \subseteq Folders
      /\ \A g \in Stored(folder) : folder[g] \in Row /\ folder[g].depth = Nesting(folder, g)
  BY TreeFacts DEF Moved, DepthsTrue
<1>2. /\ \A g \in Stored(folder) : Nesting(folder, g) \in Nat
      /\ \A g \in Stored(folder) :
           /\ g = f \/ g \in Below(folder, f) =>
                Nesting(u, g) = Nesting(folder, g) + (Nesting(u, f) - Nesting(folder, f))
           /\ g # f /\ g \notin Below(folder, f) => Nesting(u, g) = Nesting(folder, g)
  BY <1>1, MovedNesting, NestingUnder
<1>3. Nesting(u, f) = DepthUnder(folder, p)
  <2>1. Nesting(u, f) = IF p = Root THEN 0 ELSE Nesting(folder, p) + 1
    BY <1>1, MovedNesting
  <2>. QED
    BY <1>1, <2>1 DEF Moved, MayGo, DepthUnder
<1>4. /\ DOMAIN depths = Below(folder, f) \union {f}
      /\ \A g \in DOMAIN depths :
           depths[g] = Nesting(folder, g) + (DepthUnder(folder, p) - Nesting(folder, f))
  BY DEF DepthsUnder
<1>5. \A g \in DOMAIN depths : Nesting(u, g) = depths[g]
  BY <1>1, <1>2, <1>3, <1>4 DEF Below
<1>. HIDE DEF depths
<1>6. /\ todo[f].depth = depths[f]
      /\ \A g \in Folders \ {f} :
           todo[g] = IF g \in DOMAIN depths /\ depths[g] # folder[g].depth
                     THEN [folder[g] EXCEPT !.depth = depths[g]]
                     ELSE NoFolder
  <2>1. todo = Rewrites(f, p, depths)
    BY DEF depths
  <2>. QED
    BY <1>1, <2>1 DEF Rewrites
<1>7. rest[f] = NoFolder /\ \A g \in Folders \ {f} : rest[g] = todo[g]
  <2>1. DOMAIN todo = Folders
    BY DEF Rewrites
  <2>. QED
    BY <1>1, <2>1
<1>. HIDE DEF rest
<1>8. ASSUME NEW g \in Stored(u)
      PROVE  Nesting(u, g) = IF g \in Stored(rest) THEN rest[g].depth ELSE u[g].depth
  <2>1. CASE g = f
    BY <1>4, <1>5, <1>6, <1>7, <2>1 DEF Stored
  <2>2. CASE g # f /\ g \in DOMAIN depths /\ depths[g] # folder[g].depth
    <3>1. rest[g] = [folder[g] EXCEPT !.depth = depths[g]] /\ g \in Folders
      BY <1>1, <1>6, <1>7, <2>2
    <3>2. folder[g].parent # Root
      BY <1>1, <1>4, <2>2, <3>1, AboveParent DEF Below
    <3>3. rest[g].depth = depths[g] /\ rest[g].parent # Root
      BY <1>1, <3>1, <3>2
    <3>. QED
      BY <1>5, <2>2, <3>1, <3>3 DEF Stored, NoFolder
  <2>3. CASE g # f /\ ~(g \in DOMAIN depths /\ depths[g] # folder[g].depth)
    <3>1. rest[g] = NoFolder /\ u[g] = folder[g]
      BY <1>1, <1>6, <1>7, <2>3
    <3>2. Nesting(u, g) = folder[g].depth
      BY <1>1, <1>2, <1>4, <1>5, <2>3
    <3>. QED
      BY <3>1, <3>2 DEF Stored
  <2>. QED
    BY <2>1, <2>2, <2>3
<1>. QED
  BY <1>8 DEF DepthsBut, rest

\* The moved folder moves all that is below it; the others then get their depths.
LEMMA UpdateStep ==
  ASSUME TreeInv, NEW e \in Edits, NEW g \in Folders, UpdateFolder(e, g)
  PROVE  TreeInv'
<1> DEFINE todo == edit[e].todo
           row == todo[g]
           rest == [todo EXCEPT ![g] = NoFolder]
           top == edit[e].top
<1>1. /\ edit[e].op = "move" /\ Working(e) /\ top \in used /\ top \in Folders
      /\ g \in Stored(todo) /\ (top \in Stored(todo) => g = top)
      /\ used' = used /\ trouble' = trouble
  BY TreeFacts DEF UpdateFolder, NextWrite, Working, TreeInv, EditsKnown
<1>2. folder' = IF g \in Stored(folder) /\ RowFits(row)
                THEN [folder EXCEPT ![g] = row] ELSE folder
  BY DEF UpdateFolder
<1>3. \/ EndEdit(e) /\ (rest = Nothing \/ (g \in Stored(folder) /\ ~RowFits(row)))
      \/ edit' = [edit EXCEPT ![e].todo = rest]
  BY DEF UpdateFolder
<1>4. todo \in Tables /\ row \in Row /\ row # NoFolder
  BY <1>1, TreeFacts DEF Tables, Stored
<1>5. /\ rest \in Tables /\ rest[g] = NoFolder /\ Stored(rest) = Stored(todo) \ {g}
      /\ \A h \in Folders \ {g} : rest[h] = todo[h]
  BY <1>4 DEF Tables, Stored
<1>6. /\ folder' \in Tables /\ Stored(folder') = Stored(folder)
      /\ \A h \in Folders \ {g} : folder'[h] = folder[h]
  BY <1>2, <1>4, TreeFacts DEF Tables, Stored
<1>7. ParentsExist'
  <2>1. folder'[g] = folder[g] \/ (folder'[g] = row /\ RowFits(row))
    BY <1>2
  <2>. QED
    BY <1>6, <2>1 DEF TreeInv, ParentsExist, RowFits, Stored
<1>8. IdsKnown'
  BY <1>1, <1>6 DEF TreeInv, IdsKnown
<1>9. ASSUME edit' = [edit EXCEPT ![e].todo = rest]
      PROVE  /\ edit'[e] = [edit[e] EXCEPT !.todo = rest]
             /\ edit'[e].op = "move" /\ edit'[e].top = top /\ edit'[e].todo = rest
             /\ edit'[e] \in Requested
             /\ \A d \in Edits \ {e} : edit'[d] = edit[d]
  <2>. HIDE DEF rest
  <2>. QED
    BY <1>1, <1>5, <1>9 DEF TreeInv, TreeTypeOK, Requested
<1>. HIDE DEF todo, row, rest, top
<1>10. TreeTypeOK' /\ EditsKnown'
  <2>1. CASE EndEdit(e)
    BY <1>1, <1>6, <2>1, Ending DEF TreeInv, TreeTypeOK, Requested, Tables
  <2>2. CASE edit' = [edit EXCEPT ![e].todo = rest]
    <3>1. EditsKnown'
      BY <1>1, <1>9, <2>2 DEF TreeInv, EditsKnown
    <3>2. edit' \in [Edits -> Requested]
      BY <1>9, <2>2 DEF TreeInv, TreeTypeOK, Requested, Tables
    <3>. QED
      BY <1>1, <1>6, <3>1, <3>2 DEF TreeInv, TreeTypeOK, Requested, Tables
  <2>. QED
    BY <1>3, <2>1, <2>2
<1>11. ASSUME "overlap" \notin trouble
       PROVE  /\ Acyclic(folder')
              /\ g \in Stored(folder) /\ RowFits(row) /\ folder'[g] = row
              /\ top \notin Stored(rest)
              /\ \A h \in Stored(rest) : h \in Stored(folder') /\ rest[h].parent = folder'[h].parent
              /\ trouble = {} => DepthsBut(folder', rest)
  <2>1. /\ Acyclic(folder)
        /\ \A h \in Stored(todo) :
             h \in Stored(folder) /\ (h # top => todo[h].parent = folder[h].parent)
        /\ top \in Stored(todo) => MayGo(folder, top, todo[top].parent)
    BY <1>1, <1>11 DEF TreeInv, Serial, MoveStands, todo, top
  <2>2. trouble = {} =>
          IF top \in Stored(todo)
          THEN /\ DepthsTrue(folder)
               /\ todo = Rewrites(top, todo[top].parent, DepthsUnder(top, todo[top].parent))
          ELSE DepthsBut(folder, todo)
    BY <1>1 DEF TreeInv, Depths, MoveAccounts, todo, top
  <2>3. g \in Stored(folder) /\ RowFits(row)
    <3>1. g \in Stored(folder)
      BY <1>1, <2>1
    <3>2. row.parent \in Stored(folder) \union {Root}
      BY <1>1, <2>1, <3>1, TreeFacts DEF MayGo, Grounded, row
    <3>. QED
      BY <3>1, <3>2 DEF RowFits
  <2>4. folder'[g] = row
    BY <1>2, <2>3, TreeFacts DEF Tables
  <2>5. /\ top \notin Stored(rest)
        /\ \A h \in Stored(rest) : h \in Stored(folder') /\ rest[h].parent = folder'[h].parent
    <3>1. top \notin Stored(rest)
      BY <1>1, <1>5
    <3>2. \A h \in Stored(rest) : h \in Folders /\ h # g /\ h \in Stored(todo) /\ h # top
      BY <1>1, <1>5 DEF Stored
    <3>. QED
      BY <1>5, <1>6, <2>1, <3>1, <3>2
  <2>6. Acyclic(folder') /\ (trouble = {} => DepthsBut(folder', rest))
    <3>1. CASE g = top
      <4>1. Moved(folder, folder', top, row.parent)
        BY <1>1, <1>6, <2>1, <2>3, <2>4, <3>1, TreeFacts DEF Moved, row
      <4>2. ASSUME trouble = {}
            PROVE  DepthsBut(folder', rest)
        BY <1>1, <1>6, <2>2, <2>4, <3>1, <4>1, <4>2, TopWritten DEF row, rest
      <4>. QED
        BY <4>1, <4>2, MovedAcyclic
    <3>2. CASE g # top
      <4>1. top \notin Stored(todo) /\ row.parent = folder[g].parent
        BY <1>1, <2>1, <3>2 DEF row
      <4>2. \A h \in Folders : folder'[h].parent = folder[h].parent
        BY <1>6, <2>4, <4>1
      <4>3. Acyclic(folder') /\ \A h \in Folders : Nesting(folder', h) = Nesting(folder, h)
        BY <1>6, <2>1, <4>2, SameParents, TreeFacts
      <4>4. ASSUME trouble = {}
            PROVE  DepthsBut(folder', rest)
        <5>1. \A h \in Stored(folder) : 
                Nesting(folder, h) = IF h \in Stored(todo) THEN todo[h].depth
                                     ELSE folder[h].depth
          BY <2>2, <4>1, <4>4 DEF DepthsBut
        <5>2. ASSUME NEW h \in Stored(folder')
              PROVE  Nesting(folder', h) = IF h \in Stored(rest) THEN rest[h].depth
                                           ELSE folder'[h].depth
          <6>1. h \in Folders /\ h \in Stored(folder)
            BY <1>6 DEF Stored
          <6>2. CASE h = g
            BY <1>1, <1>5, <2>4, <4>3, <5>1, <6>1, <6>2 DEF row
          <6>3. CASE h # g
            BY <1>5, <1>6, <4>3, <5>1, <6>1, <6>3
          <6>. QED
            BY <6>2, <6>3
        <5>. QED
          BY <5>2 DEF DepthsBut
      <4>. QED
        BY <4>3, <4>4
    <3>. QED
      BY <3>1, <3>2
  <2>. QED
    BY <2>3, <2>4, <2>5, <2>6
<1>12. "overlap" \notin trouble' => Serial' /\ (trouble' = {} => Depths')
  <2> SUFFICES ASSUME "overlap" \notin trouble
               PROVE  Serial' /\ (trouble = {} => Depths')
    BY <1>1
  <2>1. CASE EndEdit(e) /\ (rest = Nothing \/ (g \in Stored(folder) /\ ~RowFits(row)))
    <3>1. Stored(rest) = {}
      BY <1>11, <2>1 DEF Nothing, Stored
    <3>2. Acyclic(folder') /\ (trouble = {} => DepthsTrue(folder'))
      BY <1>11, <3>1 DEF DepthsBut, DepthsTrue
    <3>. QED
      BY <1>1, <2>1, <3>2, Ending, AllIdle
  <2>2. CASE edit' = [edit EXCEPT ![e].todo = rest]
    <3>1. \A d \in Edits \ {e} : edit[d].op = "none"
      BY <1>1 DEF TreeInv, Serial, Alone, Working
    <3>2. MoveStands(e)' /\ (trouble = {} => MoveAccounts(e)')
      BY <1>9, <1>11, <2>2 DEF MoveStands, MoveAccounts
    <3>. QED
      BY <1>1, <1>9, <1>11, <2>2, <3>1, <3>2
         DEF Serial, Depths, Alone, Working
  <2>. QED
    BY <1>3, <2>1, <2>2
<1>. QED
  BY <1>1, <1>7, <1>8, <1>10, <1>12 DEF TreeInv



\* What stays has the same above it.
LEMMA DeleteStep ==
  ASSUME TreeInv, NEW f \in Folders, DeleteFolder(f)
  PROVE  TreeInv'
<1>1. /\ f \in Stored(folder) /\ edit' = edit /\ used' = used
      /\ folder' = [g \in Folders |->
           IF g = f \/ g \in Below(folder, f) THEN NoFolder ELSE folder[g]]
      /\ trouble' = IF \E e \in Edits : Working(e) THEN trouble \union {"overlap"} ELSE trouble
  BY DEF DeleteFolder
<1>2. /\ folder' \in Tables /\ Stored(folder') \subseteq Stored(folder) /\ Grounded(folder')
      /\ \A g \in Stored(folder') : /\ folder'[g] = folder[g]
                                    /\ Above(folder', g) = Above(folder, g)
                                    /\ Nesting(folder', g) = Nesting(folder, g)
  BY <1>1, Removal, TreeFacts
<1>3. TreeTypeOK' /\ ParentsExist' /\ EditsKnown' /\ IdsKnown'
  <2>1. TreeTypeOK'
    BY <1>1, <1>2 DEF TreeInv, TreeTypeOK
  <2>2. ParentsExist'
    BY <1>2 DEF Grounded, ParentsExist, RowFits
  <2>3. EditsKnown' /\ IdsKnown'
    BY <1>1, <1>2 DEF TreeInv, EditsKnown, IdsKnown
  <2>. QED
    BY <2>1, <2>2, <2>3
<1>4. ASSUME "overlap" \notin trouble'
      PROVE  /\ \A e \in Edits : edit[e].op = "none"
             /\ "overlap" \notin trouble /\ trouble' = trouble
  BY <1>1, <1>4 DEF Working
<1>5. ASSUME "overlap" \notin trouble'
      PROVE  Serial'
  BY <1>1, <1>2, <1>4, <1>5, AllIdle DEF TreeInv, Serial, Acyclic
<1>6. ASSUME trouble' = {}
      PROVE  Depths'
  BY <1>1, <1>2, <1>4, <1>6 DEF TreeInv, Depths, DepthsTrue
<1>. QED
  BY <1>3, <1>5, <1>6 DEF TreeInv

\* A forest it stays, whatever is not written.
LEMMA CutStep ==
  ASSUME TreeInv, NEW e \in Edits, CutEdit(e)
  PROVE  TreeInv'
<1>1. /\ Working(e) /\ EndEdit(e) /\ folder' = folder /\ used' = used
      /\ trouble' = trouble \union {"cut"}
  BY DEF CutEdit
<1>2. TreeTypeOK' /\ ParentsExist' /\ EditsKnown' /\ IdsKnown'
  BY <1>1, Ending
     DEF TreeInv, TreeTypeOK, Requested, ParentsExist, RowFits, IdsKnown,
         Tables
<1>3. "overlap" \notin trouble' => Serial'
  BY <1>1, Ending, AllIdle DEF TreeInv, Serial
<1>. QED
  BY <1>1, <1>2, <1>3 DEF TreeInv

\* All steps together.
LEMMA TreeStep == TreeInv /\ [TreeNext]_treeVars => TreeInv'
<1> SUFFICES ASSUME TreeInv, [TreeNext]_treeVars
             PROVE  TreeInv'
  OBVIOUS
<1>1. CASE UNCHANGED treeVars
  <2>1. folder' = folder /\ used' = used /\ edit' = edit /\ trouble' = trouble
    BY <1>1 DEF treeVars
  <2>2. TreeTypeOK' /\ ParentsExist' /\ EditsKnown' /\ IdsKnown'
    BY <2>1
       DEF TreeInv, TreeTypeOK, ParentsExist, RowFits, EditsKnown, IdsKnown
  <2>3. Serial' = Serial
    BY <2>1 DEF Serial, Alone, Working, MoveStands, CreateStands
  <2>4. Depths' = Depths
    <3>1. \A e \in Edits : /\ MoveAccounts(e)' = MoveAccounts(e)
                           /\ CreateAccounts(e)' = CreateAccounts(e)
      BY <2>1 DEF MoveAccounts, CreateAccounts, Rewrites, DepthsUnder
    <3>. QED
      BY <2>1, <3>1 DEF Depths, Working
  <2>. QED
    BY <2>1, <2>2, <2>3, <2>4 DEF TreeInv
<1>2. CASE TreeNext
  BY <1>2, DeleteStep, CreateStep, MoveStep, UpdateStep, InsertStep, CutStep
     DEF TreeNext
<1>. QED
  BY <1>1, <1>2

\* No folder, and nobody at work.
LEMMA TreeInitInv == TreeInit => TreeInv
<1> SUFFICES ASSUME TreeInit
             PROVE  TreeInv
  OBVIOUS
<1>1. folder = Nothing /\ used = {} /\ edit = [e \in Edits |-> IdleEdit] /\ trouble = {}
  BY DEF TreeInit
<1>2. Stored(folder) = {} /\ IsFiniteSet({})
  BY <1>1, FS_EmptySet DEF Nothing, Stored
<1>3. \A e \in Edits : edit[e] = IdleEdit /\ edit[e].op = "none" /\ ~Working(e)
  BY <1>1 DEF IdleEdit, Working
<1>4. TreeTypeOK
  BY <1>1 DEF TreeTypeOK, Nothing, IdleEdit
<1>5. EditsKnown /\ IdsKnown /\ ParentsExist
  BY <1>1, <1>2, <1>3 DEF EditsKnown, IdsKnown, ParentsExist
<1>6. Serial /\ Depths
  BY <1>2, <1>3 DEF Serial, Alone, Acyclic, Depths, DepthsTrue
<1>. QED
  BY <1>4, <1>5, <1>6 DEF TreeInv

\* The invariant holds.
LEMMA TreeInvariant == TreeSpec => []TreeInv
BY TreeInitInv, TreeStep, PTL DEF TreeSpec

\* Types: no stored depth reaches the cap, whatever stale depths were used.
THEOREM TreeTypeCorrect == TreeSpec => []TreeTypeOK
<1>1. TreeInv => TreeTypeOK
  BY DEF TreeInv
<1>. QED
  BY <1>1, TreeInvariant, PTL

\* No folder outlives its parent, whoever else is at work.
THEOREM NoOrphanFolders == TreeSpec => []ParentsExist
<1>1. TreeInv => ParentsExist
  BY DEF TreeInv
<1>. QED
  BY <1>1, TreeInvariant, PTL

\* No move makes a cycle, as long as requests do not overlap: neither between its
\* writes nor when it was cut off.
THEOREM MovesKeepForest == TreeSpec => []SerialForest
<1>1. TreeInv => SerialForest
  BY DEF TreeInv, Serial, SerialForest, Forest, Acyclic
<1>. QED
  BY <1>1, TreeInvariant, PTL

\* Requests that neither overlap nor are cut off leave every row its true depth.
THEOREM DepthsStayTrue == TreeSpec => []SerialDepths
<1>1. TreeInv => SerialDepths
  BY DEF TreeInv, Depths, SerialDepths, DepthsTrue
<1>. QED
  BY <1>1, TreeInvariant, PTL


=============================================================================
