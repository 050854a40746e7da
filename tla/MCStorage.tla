----------------------------- MODULE MCStorage -----------------------------
(***************************************************************************)
(* Instances for TLC of the repositories: clients working on a table, the  *)
(* cache-aside decorator, walks of a tree, and questions to the filter     *)
(* language, each in a state of its own.  They share no state beyond the   *)
(* table a decorator wraps, which every module has its own view of; turn   *)
(* is the one that runs.                                                   *)
(***************************************************************************)
EXTENDS CacheAside, Storage, TLC

CONSTANTS
  None, r1, r2, r3, own, shared

VARIABLES
  turn, ask,
  parent, walk, cursor, visited, chain, above, frontier, depth, found, walked, edits

TwoScopes == (r1 :> own) @@ (r2 :> own) @@ (r3 :> shared)
F == INSTANCE Filters

-----------------------------------------------------------------------------
(* Trees of three rows, every parent map of them, dangling ids and cycles. *)
T == INSTANCE Tree WITH
       Ids <- 1..3, Null <- 0, Gone <- 4, Parents <- [1..3 -> 0..4],
       Walks <- {[kind |-> k, id |-> 1, other |-> 3, cap |-> None] :
                    k \in {"ancestors", "is_ancestor", "children", "roots"}}
                \cup {[kind |-> "subtree", id |-> 1, other |-> None, cap |-> cap] : cap \in {None, 1}},
       PageLimit <- 2, MaxEdits <- 2

-----------------------------------------------------------------------------
\* Texts of rows and operands, and the rows the trees are judged on.
TextsOf(chars, n) == UNION {[1..k -> chars] : k \in 0..n}
Names == {F!Text(s) : s \in TextsOf({"a", "A", "*"}, 2) \cup TextsOf({"\\", "?"}, 1)
                            \cup TextsOf({"a", "*"}, 3)}
Operands == {F!Text(s) : s \in TextsOf({"a", "A", "%", "_", "*", "\\"}, 2) \cup TextsOf({"a", "%"}, 3) \cup TextsOf({"?"}, 1)}
Ages == {F!Number(i) : i \in 0..2}
Row(name, age) == [id |-> F!Number(1), name |-> name, age |-> age]
A == F!Text(<<"a">>)
JudgedRows == {Row(name, age) : name \in {A, F!Text(<<"A">>)}, age \in Ages}

\* Leaves over both columns, and groups of two of them, nested once.
Ranged == {F!Cond("age", o, <<F!Number(1)>>) : o \in DOMAIN F!Relations}
          \cup {F!Cond("age", o, <<F!Number(i), F!Number(j)>>) :
                  o \in {"In", "NotIn", "Between", "NotBetween"}, i, j \in 0..2}
          \cup {F!Cond("age", o, <<>>) : o \in {"IsNull", "IsNotNull"}}
Patterned == {F!Cond("name", o, <<v>>) : o \in F!Patterns, v \in Operands}
Leaves == {F!Cond("age", "Eq", <<F!Number(1)>>), F!Cond("age", "Lt", <<F!Number(1)>>),
           F!Cond("age", "NotIn", <<F!Number(0), F!Number(2)>>), F!Cond("name", "NotEq", <<A>>)}
Groups(parts) == {F!AllOf(<<p, q>>) : p, q \in parts} \cup {F!AnyOf(<<p, q>>) : p, q \in parts}
Pairs == Groups(Leaves)
Trees == Leaves \cup Pairs
         \cup {F!AllOf(<<p, q>>) : p \in Pairs, q \in Leaves} \cup {F!AnyOf(<<p, q>>) : p \in Leaves, q \in Pairs}

WirePatterns == {"LIKE", "NOT_LIKE", "ILIKE", "CONTAINS", "STARTS_WITH", "ENDS_WITH",
                 "ICONTAINS", "ISTARTS_WITH", "IENDS_WITH"}
Questions ==
  {[what |-> "wire", of |-> [field |-> "name", op |-> o, values |-> <<v>>], row |-> Row(name, F!Null)] :
     o \in WirePatterns, v \in Operands, name \in Names}
  \cup {[what |-> "filter", of |-> c, row |-> Row(name, F!Null)] : c \in Patterned, name \in Names \cup {F!Null}}
  \cup {[what |-> "filter", of |-> c, row |-> Row(A, age)] : c \in Ranged, age \in Ages \cup {F!Null}}
  \cup {[what |-> "filter", of |-> n, row |-> r] : n \in Trees, r \in JudgedRows}
  \cup {[what |-> "text", of |-> n, juxtaposed |-> j] : n \in Trees, j \in BOOLEAN}
NoQuestion == [what |-> "none"]
LikeQuestions == {[what |-> "like", text |-> F!Text(t), pattern |-> F!Text(p)] :
                    t \in TextsOf({"a", "%"}, 2), p \in TextsOf({"a", "%"}, 2)}

-----------------------------------------------------------------------------
treeVars == <<parent, walk, cursor, visited, chain, above, frontier, depth, found, walked, edits>>
allVars == <<turn, ask, vars, tableVars, treeVars>>

(* A part whose turn it is not rests in one of its initial states.         *)
Rested ==
  /\ Init
  /\ TableInit /\ (turn = "table" \/ (engine = "memory" /\ ~soft /\ table = [i \in Ids |-> {}]))
  /\ T!TreeInit /\ (turn = "tree" \/ (walk.kind = "roots" /\ parent = [i \in 1..3 |-> 0]))

MCInit ==
  /\ turn \in {"cache", "table", "tree", "ask"}
  /\ Rested
  /\ ask \in IF turn = "ask" THEN Questions ELSE {NoQuestion}

InCache(step) == turn = "cache" /\ step /\ UNCHANGED <<turn, ask, tableVars, treeVars>>
InTable(step) == turn = "table" /\ step /\ UNCHANGED <<turn, ask, vars, treeVars>>
InTree(step) == turn = "tree" /\ step /\ UNCHANGED <<turn, ask, vars, tableVars>>

MCNext == InCache(Next) \/ InTable(TableNext) \/ InTree(T!TreeNext)

(* The inner engine answers and a loader that is not dropped is polled; a  *)
(* walk goes on.                                                           *)
MCSpec ==
  /\ MCInit /\ [][MCNext]_allVars
  /\ WF_allVars(InCache(\E r \in Readers : Proceeds(r)) \/ InTree(T!Walk))

-----------------------------------------------------------------------------
(* A token walk lists once what could be listed all along, whatever is     *)
(* written between its pages; a tree walk that nobody disturbs is right,   *)
(* cycles and dangling parents included.                                   *)
WalksAreRight ==
  /\ turn = "table" => WalkIsComplete
  /\ turn = "tree" => T!QuietWalksAreRight

(* A pattern operator of the wire selects the rows its name says, every    *)
(* engine that translates a filter selects those the reference evaluator   *)
(* selects ("the conformance suite pins that translation against a         *)
(* Rust-side reference evaluator", filter.rs), and the text syntax reads   *)
(* back as the tree it was written from (text.rs).                         *)
EnginesAgree ==
  /\ ask.what = "wire" => F!MeansWhatItSays(ask.of, ask.row)
  /\ ask.what = "filter" => F!Agrees(ask.of, ask.row)
  /\ ask.what = "text" => F!ReadsBack(ask.of, ask.juxtaposed, JudgedRows)

(* Unless a caller drops one, every get is answered; every walk ends.      *)
ReadsEnd ==
  []<>/\ \A r \in Readers : AnsweredUnlessDropped(r)
      /\ turn = "tree" => T!WalkEnded

(* "`%` matches any sequence and `_` matches exactly one character"        *)
(* (filter.rs:17): LIKE, whatever the text holds.  The matcher compares    *)
(* the characters before it looks for a wildcard, so a "%" in the text     *)
(* uses the "%" of the pattern up (filter.rs:388-394).                     *)
WildcardMatchesAnything ==
  ask.what = "like" => F!Like(ask.text, ask.pattern, FALSE) = F!IsLike(ask.text.s, ask.pattern.s)
LikeSpec == turn = "ask" /\ Rested /\ ask \in LikeQuestions /\ [][FALSE]_allVars
=============================================================================
