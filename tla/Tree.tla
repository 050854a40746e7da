------------------------------- MODULE Tree -------------------------------
(***************************************************************************)
(* Tree traversal over a repository whose rows name their parent.  A walk  *)
(* is one repository call after another, each of them a snapshot of its    *)
(* own; other clients re-parent and delete rows between them.  A list call *)
(* goes out with the default paging: a level is cut to its first PageLimit *)
(* rows in primary key order.                                              *)
(***************************************************************************)
EXTENDS Naturals, Sequences, FiniteSets, SequencesExt

CONSTANTS
  None,
  Ids,         \* primary keys, numbers
  Parents,     \* the parent columns explored: [Ids -> Ids \cup {Null, Gone}]
  Null, Gone,  \* a root; no row of that id
  Walks,       \* [kind, id, other, cap]
  PageLimit,   \* the default page size
  MaxEdits     \* bound: rows changed while the walk runs

VARIABLES
  parent,      \* the rows
  walk,        \* the walk asked for
  cursor, visited, chain, above,    \* ancestors, is_ancestor; above: the parent to be read next
  frontier, depth, found,           \* subtree
  walked,      \* the answer, None while the walk runs
  edits

treeVars == <<parent, walk, cursor, visited, chain, above, frontier, depth, found, walked, edits>>

Row(id) == parent[id] # Gone
Ok(value) == [ok |-> TRUE, value |-> value]
Cycle == [ok |-> FALSE, value |-> "cycle"]

-----------------------------------------------------------------------------
TreeInit ==
  /\ parent \in Parents /\ walk \in Walks
  /\ cursor = walk.id /\ visited = {walk.id} /\ chain = <<>> /\ above = None
  /\ frontier = <<walk.id>> /\ depth = 0 /\ found = <<>> /\ walked = None /\ edits = 0

Answer(a) == walked' = a /\ UNCHANGED <<parent, walk, cursor, visited, chain, above, frontier, depth, found, edits>>

(* ancestors: the cursor's row, then its parent's row, two calls a level.  *)
ancestors ==
  /\ walk.kind = "ancestors" /\ walked = None
  /\ IF above = None
     THEN CASE parent[cursor] \in {Null, Gone} -> Answer(Ok(Reverse(chain)))
            [] parent[cursor] \in visited -> Answer(Cycle)
            [] OTHER -> /\ visited' = visited \cup {parent[cursor]} /\ above' = parent[cursor]
                        /\ UNCHANGED <<parent, walk, cursor, chain, frontier, depth, found, walked, edits>>
     ELSE IF Row(above)
          THEN /\ chain' = Append(chain, above) /\ cursor' = above /\ above' = None
               /\ UNCHANGED <<parent, walk, visited, frontier, depth, found, walked, edits>>
          ELSE Answer(Ok(Reverse(chain)))

(* is_ancestor: one call a level, the parent's own row is never asked for. *)
is_ancestor ==
  /\ walk.kind = "is_ancestor" /\ walked = None
  /\ CASE parent[cursor] \in {Null, Gone} -> Answer(Ok(FALSE))
       [] parent[cursor] = walk.other -> Answer(Ok(TRUE))
       [] parent[cursor] \in visited \ {walk.other} -> Answer(Cycle)
       [] OTHER -> /\ visited' = visited \cup {parent[cursor]} /\ cursor' = parent[cursor]
                   /\ UNCHANGED <<parent, walk, chain, above, frontier, depth, found, walked, edits>>

(* One list call: the rows whose parent is one of these, a page of them.   *)
rows_with_parent(ps) ==
  LET rows == SetToSortSeq({r \in Ids : parent[r] \in ps}, <)
  IN  SubSeq(rows, 1, IF Len(rows) < PageLimit THEN Len(rows) ELSE PageLimit)
children_or_roots ==
  /\ walk.kind \in {"children", "roots"} /\ walked = None
  /\ Answer(Ok(rows_with_parent(IF walk.kind = "roots" THEN {Null} ELSE {walk.id})))

(* subtree: one list call a level; a row met before ends the sweep.        *)
CapReached == walk.cap # None /\ depth >= walk.cap
subtree ==
  /\ walk.kind = "subtree" /\ walked = None
  /\ LET level == rows_with_parent(Range(frontier)) IN
     CASE frontier = <<>> \/ CapReached -> Answer(Ok(found))
       [] (frontier # <<>> /\ ~CapReached) /\ Range(level) \cap visited # {} -> Answer(Cycle)
       [] OTHER ->
            /\ depth' = depth + 1 /\ visited' = visited \cup Range(level) /\ frontier' = level
            /\ found' = found \o [i \in DOMAIN level |-> <<depth + 1, level[i]>>]
            /\ UNCHANGED <<parent, walk, cursor, chain, above, walked, edits>>

(* Another client moves a row, deletes it or creates it.                   *)
Edit(id, p) ==
  /\ edits < MaxEdits /\ walked = None /\ parent[id] # p
  /\ parent' = [parent EXCEPT ![id] = p] /\ edits' = edits + 1
  /\ UNCHANGED <<walk, cursor, visited, chain, above, frontier, depth, found, walked>>

Walk == ancestors \/ is_ancestor \/ children_or_roots \/ subtree
TreeNext == Walk \/ \E id \in Ids, p \in Ids \cup {Null, Gone} : Edit(id, p)

-----------------------------------------------------------------------------
(* The tree itself: Up(id)[n] is the n-th row above id.                    *)
Up(id) ==
  LET up[n \in 0..Cardinality(Ids)] ==
        IF n = 0 THEN id ELSE IF up[n - 1] \in Ids THEN parent[up[n - 1]] ELSE Null
  IN  up
Height == 1..Cardinality(Ids)
OnCycle(id) == \E n \in Height : Up(id)[n] = id
ReachesCycle(id) == OnCycle(id) \/ \E n \in Height : Up(id)[n] \in Ids /\ OnCycle(Up(id)[n])
Above(id) == SelectSeq([n \in Height |-> Up(id)[n]], LAMBDA a : a \in Ids /\ Row(a))
Below(id, cap) == {<<n, r>> \in Height \X Ids : Up(r)[n] = id /\ (cap = None \/ n <= cap)}
LevelFits(id) == \A n \in Height : Cardinality({r \in Ids : Up(r)[n] = id}) <= PageLimit

(* A walk nobody disturbs is right: the ancestors, root first and without  *)
(* the row itself, up to a row that is not there; the branch by its        *)
(* distances, up to the cap and as far as each level fits a page; a cycle  *)
(* is reported exactly where the walk runs into it.                        *)
QuietWalksAreRight ==
  walked # None /\ edits = 0 =>
    CASE walk.kind = "ancestors" ->
           IF ReachesCycle(walk.id) THEN walked = Cycle ELSE walked = Ok(Reverse(Above(walk.id)))
      [] walk.kind = "is_ancestor" ->
           IF \E n \in Height : Up(walk.id)[n] = walk.other THEN walked = Ok(TRUE)
           ELSE IF ReachesCycle(walk.id) THEN walked = Cycle ELSE walked = Ok(FALSE)
      [] walk.kind = "subtree" /\ LevelFits(walk.id) ->
           IF \E n \in Height : Up(walk.id)[n] = walk.id /\ (walk.cap = None \/ n <= walk.cap)
           THEN walked = Cycle
           ELSE /\ walked.ok /\ Range(walked.value) = Below(walk.id, walk.cap)
                /\ Len(walked.value) = Cardinality(Below(walk.id, walk.cap))
      [] walk.kind = "children" /\ Cardinality({r \in Ids : parent[r] = walk.id}) <= PageLimit ->
           Range(walked.value) = {r \in Ids : parent[r] = walk.id}
      [] OTHER -> TRUE

(* However the rows move under it, a walk ends: no chain of re-parented    *)
(* rows leads it round for ever.                                           *)
WalkEnded == walked # None
=============================================================================
