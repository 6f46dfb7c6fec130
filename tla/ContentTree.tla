---------------------------- MODULE ContentTree ----------------------------
(* The folders of one project: createFolder, moveFolder and deleteFolder   *)
(* of ContentService over the folder table. A request reads the tree, and  *)
(* writes rows one awaited UPDATE at a time; requests interleave between   *)
(* the reading and each write, and may be cut off at any await.            *)
EXTENDS Naturals, FiniteSets

CONSTANTS
  Folders,        \* folder ids, each given out once
  Root,           \* the parent of a folder at the top of the project
  Edits,          \* requests that may be served at the same time
  MaxNesting,     \* MAX_FOLDER_NESTING_DEPTH
  Contended       \* bound: folders ever created when two requests overlap

ASSUME TreeAssumption == MaxNesting \in Nat \ {0} /\ Root \notin Folders

VARIABLES
  folder,         \* folder -> row
  used,           \* ids given out so far
  edit,           \* request -> what it has still to write
  trouble         \* history: "overlap" and "cut" once they happened

treeVars == <<folder, used, edit, trouble>>

(* A row, or NoFolder. The name plays no part. *)
NoFolder == [parent |-> Root, depth |-> MaxNesting]
Row == [parent: Folders \union {Root}, depth: 0..MaxNesting - 1]
Stored(t) == {f \in Folders : t[f] # NoFolder}

(* A set that holds, with a folder, the parent of that folder.             *)
Closed(t, S) == \A f \in S : t[f].parent \in S \union {Root}

(* The folders above f in the tree t: its parent, the parent of that...,   *)
(* which is what every closed set with the parent of f has.                *)
Above(t, f) ==
  LET holders == {S \in SUBSET Folders : t[f].parent \in S \union {Root} /\ Closed(t, S)}
  IN {g \in Folders : \A S \in holders : g \in S}

Below(t, f) == {g \in Stored(t) : f \in Above(t, g)}

(* How deep f really lies. *)
Nesting(t, f) == Cardinality(Above(t, f))

Nothing == [f \in Folders |-> NoFolder]
IdleEdit == [op |-> "none", todo |-> Nothing, top |-> Root]
Working(e) == edit[e].op # "none"
EndEdit(e) == edit' = [edit EXCEPT ![e] = IdleEdit]

MayBegin(e, ids) ==
  ~Working(e) /\ ((\E d \in Edits : Working(d)) => Cardinality(ids) <= Contended)

BeginEdit(e, work) ==
  /\ edit' = [edit EXCEPT ![e] = work]
  /\ trouble' = IF \E d \in Edits : Working(d) THEN trouble \union {"overlap"} ELSE trouble

TreeInit ==
  /\ folder = Nothing
  /\ used = {}
  /\ edit = [e \in Edits |-> IdleEdit]
  /\ trouble = {}

(* The depth of a child of p, as the row of p has it. *)
DepthUnder(t, p) == IF p = Root THEN 0 ELSE t[p].depth + 1

(* createFolder: the parent is read and its depth checked, then the insert *)
(* is refused if the parent is gone by then.                               *)
CreateFolder(e, p) ==
  LET f == CHOOSE id \in Folders : id \notin used
  IN /\ used # Folders /\ MayBegin(e, used \union {f})
     /\ p = Root \/ p \in Stored(folder)
     /\ DepthUnder(folder, p) < MaxNesting
     /\ used' = used \union {f}
     /\ BeginEdit(e, [op |-> "create", top |-> f,
                      todo |-> [Nothing EXCEPT ![f] = [parent |-> p, depth |-> DepthUnder(folder, p)]]])
     /\ UNCHANGED folder

(* The foreign key to the parent row. *)
RowFits(row) == row.parent = Root \/ row.parent \in Stored(folder)

InsertFolder(e) ==
  LET f == edit[e].top
      row == edit[e].todo[f]
  IN /\ edit[e].op = "create"
     /\ folder' = IF RowFits(row) THEN [folder EXCEPT ![f] = row] ELSE folder
     /\ EndEdit(e)
     /\ UNCHANGED <<used, trouble>>

(* The depths the subtree of f will have under p: the breadth-first walk.  *)
DepthsUnder(f, p) ==
  LET offset == DepthUnder(folder, p) - Nesting(folder, f)
  IN [g \in Below(folder, f) \union {f} |-> Nesting(folder, g) + offset]

(* Faulty variants: the destination is compared with the descendants only; *)
(* the cap is checked for the folder moved only.                           *)
MayMoveOntoItself(f, p, depths) ==
  p \notin DOMAIN depths \ {f} /\ \A g \in DOMAIN depths : depths[g] < MaxNesting
MayMoveShallow(f, p, depths) == p \notin DOMAIN depths /\ depths[f] < MaxNesting

(* moveFolder: not under itself or a descendant, and nothing at the cap.   *)
MayMove(f, p, depths) ==
  p \notin DOMAIN depths /\ \A g \in DOMAIN depths : depths[g] < MaxNesting

(* Faulty variant: the descendants keep their depths. *)
RewritesTop(f, p, depths) == [Nothing EXCEPT ![f] = [parent |-> p, depth |-> depths[f]]]

(* What it will write: the row of f with its new parent, and the whole     *)
(* rows, as read, of the descendants whose depth changes.                  *)
Rewrites(f, p, depths) ==
  [g \in Folders |->
     IF g = f THEN [parent |-> p, depth |-> depths[f]]
     ELSE IF g \in DOMAIN depths /\ depths[g] # folder[g].depth
          THEN [folder[g] EXCEPT !.depth = depths[g]]
          ELSE NoFolder]

(* moveFolder, on the tree it reads. *)
MoveFolder(e, f, p) ==
  LET depths == DepthsUnder(f, p)
  IN /\ MayBegin(e, used)
     /\ f \in Stored(folder)
     /\ f \notin Above(folder, f)    \* the walk over a cycle never returns
     /\ p = Root \/ p \in Stored(folder)
     /\ MayMove(f, p, depths)
     /\ UNCHANGED <<folder, used>>
     /\ BeginEdit(e, [op |-> "move", top |-> f, todo |-> Rewrites(f, p, depths)])

(* updateFolder: UPDATE of the row, if it is still there; refused, and the *)
(* request with it, if the parent written is not. The moved folder comes   *)
(* first, a descendant after those above it.                               *)
NextWrite(e, g) ==
  LET left == Stored(edit[e].todo)
  IN g \in left /\ IF edit[e].top \in left THEN g = edit[e].top
                   ELSE edit[e].todo[g].parent \notin left

UpdateFolder(e, g) ==
  LET row == edit[e].todo[g]
      rest == [edit[e].todo EXCEPT ![g] = NoFolder]
  IN /\ edit[e].op = "move"
     /\ NextWrite(e, g)
     /\ folder' = IF g \in Stored(folder) /\ RowFits(row)
                  THEN [folder EXCEPT ![g] = row] ELSE folder
     /\ IF (g \in Stored(folder) /\ ~RowFits(row)) \/ rest = Nothing
        THEN EndEdit(e)
        ELSE edit' = [edit EXCEPT ![e].todo = rest]
     /\ UNCHANGED <<used, trouble>>

(* deleteFolder: one DELETE, and every folder below goes with it. *)
DeleteFolder(f) ==
  /\ f \in Stored(folder)
  /\ folder' = [g \in Folders |-> IF g = f \/ g \in Below(folder, f) THEN NoFolder ELSE folder[g]]
  /\ trouble' = IF \E e \in Edits : Working(e) THEN trouble \union {"overlap"} ELSE trouble
  /\ UNCHANGED <<used, edit>>

(* The process ends, or an UPDATE rejects, between two writes. *)
CutEdit(e) ==
  /\ Working(e)
  /\ EndEdit(e)
  /\ trouble' = trouble \union {"cut"}
  /\ UNCHANGED <<folder, used>>

TreeNext ==
  \/ \E f \in Folders : DeleteFolder(f)
  \/ \E e \in Edits :
       \/ \E p \in Folders \union {Root} :
            CreateFolder(e, p) \/ \E f \in Folders : MoveFolder(e, f, p)
       \/ \E g \in Folders : UpdateFolder(e, g)
       \/ InsertFolder(e)
       \/ CutEdit(e)

TreeSpec == TreeInit /\ [][TreeNext]_treeVars

---------------------------------------------------------------------------
(* Every variable holds a value of its type; no stored depth reaches the   *)
(* cap, whatever stale depths the requests worked from.                    *)
TreeTypeOK ==
  /\ folder \in [Folders -> Row \union {NoFolder}]
  /\ used \subseteq Folders
  /\ edit \in [Edits -> [op: {"none", "create", "move"}, top: Folders \union {Root},
                         todo: [Folders -> Row \union {NoFolder}]]]
  /\ trouble \subseteq {"overlap", "cut"}

(* No folder outlives its parent, though an insert or a move into a folder *)
(* may meet the deletion of that folder.                                   *)
ParentsExist == \A f \in Stored(folder) : RowFits(folder[f])

Forest == \A f \in Stored(folder) : f \notin Above(folder, f)

(* moveFolder's cycle check: as long as requests do not overlap the        *)
(* folders form a forest, between the writes of a move and after one that  *)
(* was cut off as well.                                                    *)
SerialForest == "overlap" \notin trouble => Forest

(* Requests that neither overlapped nor were cut off leave every row with  *)
(* the depth at which it lies: the stored depths later checks rely on. As  *)
(* depths are below the cap, no folder then lies deeper either.            *)
SerialDepths ==
  trouble = {} /\ (\A e \in Edits : ~Working(e))
    => \A f \in Stored(folder) : folder[f].depth = Nesting(folder, f)
=============================================================================
