----------------------------- MODULE Categories -----------------------------
(***************************************************************************)
(* The category tree.  Each category stores its parent and, denormalised,   *)
(* the path from the root; a move rewrites the paths of a whole subtree     *)
(* from rows it read before, without locking them.  The storefront's menu   *)
(* follows the parents, listings and counts follow the paths.               *)
(***************************************************************************)
EXTENDS Naturals, Sequences, FiniteSets, Functions

CONSTANTS
  Ids,        \* category ids
  Forests,    \* the trees it starts from: the path of each category there is
  Staff,      \* back-office requests
  MaxEdits,   \* bound on the requests that commit
  None

VARIABLES
  cat,        \* the category rows: [parent, path, active], None where there is none
  item,       \* a product: its category and the path on its card
  edit,       \* a request: [pc, op, prefix, old, from, paths]
  clashed,    \* two requests have worked on related categories at once
  edits

categoryVars == <<cat, item, edit, clashed, edits>>

There == {c \in Ids : cat[c] # None}
NoEdit == [pc |-> "idle", op |-> None, prefix |-> <<>>, old |-> <<>>, from |-> None,
           paths |-> <<>>]

\* _resolve_path
ResolvePath(parent) == IF parent = None THEN <<>> ELSE cat[parent].path

\* A category's parent, from its path.
Above(path) == IF Len(path) = 1 THEN None ELSE path[Len(path) - 1]

Init ==
  /\ \E forest \in Forests :
       cat = [c \in Ids |->
                IF c \notin DOMAIN forest THEN None
                ELSE [parent |-> Above(forest[c]), path |-> forest[c], active |-> TRUE]]
  /\ \E c \in There : item = [home |-> c, path |-> cat[c].path]
  /\ edit = [e \in Staff |-> NoEdit]
  /\ clashed = FALSE
  /\ edits = 0

Ops ==
  [kind : {"create", "move"}, id : Ids, parent : Ids \cup {None}] \cup
  [kind : {"delete", "show"}, id : Ids, parent : {None}]

\* The categories below and including one, as move_category finds them.
Subtree(c) == {m \in There : c \in Range(cat[m].path)}

\* What a request builds on, and what it rewrites.
Reads(op) == {op.id, op.parent} \cup Range(ResolvePath(op.parent))
Rewrites(op) == IF op.kind = "create" THEN {} ELSE Subtree(op.id) \cup {op.id}

Related(op, other) ==
  \/ Rewrites(op) \cap (Reads(other) \cup Rewrites(other)) # {}
  \/ Rewrites(other) \cap Reads(op) # {}

\* A move under the own subtree; a deletion of a category that has children or products.
Refused(op) ==
  \/ op.kind = "move" /\ op.id \in Range(ResolvePath(op.parent))
  \/ op.kind = "delete" /\ (item.home = op.id \/ \E c \in There : cat[c].parent = op.id)

\* create_category, move_category, delete_category and update_category read the rows
\* they are about and refuse what they can see is wrong.
Begin(e, op) ==
  /\ edit[e].pc = "idle"
  /\ edits + Cardinality({f \in Staff : edit[f].pc # "idle"}) < MaxEdits
  /\ op.kind = "create" => cat[op.id] = None /\ \A f \in Staff : edit[f].op # None => edit[f].op.id # op.id
  /\ op.kind # "create" => op.id \in There
  /\ op.parent # None => op.parent \in There
  /\ ~Refused(op)
  /\ edit' = [edit EXCEPT ![e] = [NoEdit EXCEPT !.pc = IF op.kind = "move" THEN "begun" ELSE "ready",
                                    !.op = op, !.prefix = ResolvePath(op.parent),
                                    !.old = IF op.kind = "create" THEN <<>> ELSE cat[op.id].path,
                                    !.from = IF op.kind = "create" THEN None ELSE cat[op.id].parent]]
  /\ clashed' = (clashed \/ \E f \in Staff : edit[f].pc # "idle" /\ Related(op, edit[f].op))
  /\ UNCHANGED <<cat, item, edits>>

\* The members of the subtree as this request sees them: the node itself and its new parent
\* are as they were first read.
SeenPath(e, m) ==
  IF m = edit[e].op.id THEN edit[e].old
  ELSE IF m = edit[e].op.parent THEN edit[e].prefix ELSE cat[m].path

\* Mutant: the tail is cut after as many ids as the new path has.
MovedPathNew(e, m) ==
  LET new == Append(edit[e].prefix, edit[e].op.id)
  IN  new \o SubSeq(SeenPath(e, m), Len(new) + 1, Len(SeenPath(e, m)))

\* The old prefix gives way to the node's new path.
MovedPath(e, m) ==
  Append(edit[e].prefix, edit[e].op.id) \o
    SubSeq(SeenPath(e, m), Len(edit[e].old) + 1, Len(SeenPath(e, m)))

\* The subtree is read, and the paths that change are computed.
ReadSubtree(e) ==
  LET id == edit[e].op.id
      changed == {m \in Subtree(id) \cup {id} : MovedPath(e, m) # SeenPath(e, m)}
  IN  /\ edit[e].pc = "begun"
      /\ edit' = [edit EXCEPT ![e].pc = "ready", ![e].paths = [m \in changed |-> MovedPath(e, m)]]
      /\ UNCHANGED <<cat, item, clashed, edits>>

\* A foreign key or a row that is gone undoes the request.
Fails(op, paths) ==
  \/ op.parent # None /\ op.parent \notin There
  \/ op.kind # "create" /\ ~({op.id} \cup DOMAIN paths \subseteq There)
  \/ op.kind = "delete" /\ Refused(op)

\* The rows after the commit.
Rows(e) ==
  LET op == edit[e].op
  IN  CASE op.kind = "create" ->
             [cat EXCEPT ![op.id] = [parent |-> op.parent, path |-> Append(edit[e].prefix, op.id), active |-> TRUE]]
        [] op.kind = "move" ->
             [c \in Ids |-> IF c \notin DOMAIN edit[e].paths THEN cat[c]
                            ELSE [cat[c] EXCEPT !.path = edit[e].paths[c],
                                    !.parent = IF c = op.id /\ op.parent # edit[e].from THEN op.parent ELSE cat[c].parent]]
        [] op.kind = "delete" -> [cat EXCEPT ![op.id] = None]
        [] OTHER -> [cat EXCEPT ![op.id].active = ~@]

Commit(e) ==
  /\ edit[e].pc = "ready"
  /\ edit' = [edit EXCEPT ![e] = NoEdit]
  /\ IF Fails(edit[e].op, edit[e].paths) THEN UNCHANGED <<cat, edits>>
     ELSE cat' = Rows(e) /\ edits' = edits + 1
  /\ UNCHANGED <<item, clashed>>

\* A product is saved, perhaps into another category: its card takes the category's path.
\* Moving a category rebuilds no card.
SaveProduct(c) ==
  /\ c \in There
  /\ item' = [home |-> c, path |-> cat[c].path]
  /\ UNCHANGED <<cat, edit, clashed, edits>>

Next ==
  \/ \E e \in Staff, op \in Ops : Begin(e, op)
  \/ \E e \in Staff : ReadSubtree(e) \/ Commit(e)
  \/ \E c \in Ids : SaveProduct(c)

Spec == Init /\ [][Next]_categoryVars
-----------------------------------------------------------------------------
\* What the storefront reads

Listed == {c \in There : cat[c].active}

\* list_categories: a category hangs under its parent, or at the top when that is not shown.
MenuRoots == {c \in Listed : cat[c].parent \notin Listed}
MenuChildren(c) == {d \in Listed : cat[d].parent = c}

\* The menu as it is nested: what every set holds that has its roots, and with a category
\* those below it.
Menu ==
  {c \in Listed : \A M \in SUBSET Listed :
     MenuRoots \subseteq M /\ (\A d \in M : MenuChildren(d) \subseteq M) => c \in M}

\* count_products_by_category: the card's path is unnested.
CountOf(c) == Cardinality({i \in DOMAIN item.path : item.path[i] = c})

\* The category page lists a card once whose path holds the category.
OnPage(c) == IF c \in Range(item.path) THEN 1 ELSE 0
-----------------------------------------------------------------------------
\* Properties

\* Rows have their shape, and foreign keys hold.
TypeOK ==
  /\ \A c \in There : /\ cat[c].path # <<>>
                      /\ cat[c].parent \in There \cup {None}
                      /\ Range(cat[c].path) \subseteq Ids
  /\ item.home \in There
  /\ edits \in 0 .. MaxEdits

\* Unless two requests worked on related categories at once, every path is the parent's path
\* and the category, so that no category is its own ancestor, and the menu reaches every
\* category that is shown: requests on unrelated categories never disturb each other.
TreeIsSound ==
  ~clashed => /\ \A c \in There : cat[c].path = Append(ResolvePath(cat[c].parent), c)
              /\ Menu = Listed

\* The number beside a category is what its page shows, unless requests clashed.
CountMatchesPage == ~clashed => \A c \in Ids : CountOf(c) = OnPage(c)
=============================================================================
