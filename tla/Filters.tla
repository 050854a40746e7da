------------------------------ MODULE Filters ------------------------------
(***************************************************************************)
(* The filter language of the storage contract (rushwind-storage), from    *)
(* the request to the row: the wire operators, the text syntax, the checks *)
(* against the schema, the reference evaluator, and the translation every  *)
(* engine makes into the predicates of its own database.                   *)
(*                                                                         *)
(* A text is a sequence of characters.  What a database makes of a         *)
(* predicate is external: SQL is three-valued, MongoDB and Elasticsearch   *)
(* are two-valued, each has its own pattern language.  LIKE is taken with  *)
(* a case-sensitive collation and without escapes.                         *)
(***************************************************************************)
EXTENDS Integers, Sequences, FiniteSets, TLC, SequencesExt

Null == [kind |-> "null"]
Number(n) == [kind |-> "int", n |-> n]
Text(s) == [kind |-> "text", s |-> s]

\* The characters the model tells apart, in their order.
CharCode == [c \in {"%", "*", "?", "A", "\\", "_", "a"} |->
               CASE c = "%" -> 37 [] c = "*" -> 42 [] c = "?" -> 63 [] c = "A" -> 65
                 [] c = "\\" -> 92 [] c = "_" -> 95 [] c = "a" -> 97]
Lower(s) == [i \in DOMAIN s |-> IF s[i] = "A" THEN "a" ELSE s[i]]
Fold(fold, s) == IF fold THEN Lower(s) ELSE s
Has(s, chars) == \E i \in DOMAIN s : s[i] \in chars

TextBelow(s, t) ==
  \/ Len(s) < Len(t) /\ SubSeq(t, 1, Len(s)) = s
  \/ \E k \in DOMAIN s \cap DOMAIN t :
       /\ CharCode[s[k]] < CharCode[t[k]]
       /\ \A j \in 1..(k - 1) : s[j] = t[j]

Rank == [null |-> 0, int |-> 2, text |-> 3]
Below(v, w) ==
  \/ Rank[v.kind] < Rank[w.kind]
  \/ v.kind = "int" /\ w.kind = "int" /\ v.n < w.n
  \/ v.kind = "text" /\ w.kind = "text" /\ TextBelow(v.s, w.s)

Related(rel, v, w) ==
  CASE rel = "="  -> v = w
    [] rel = "<>" -> v # w
    [] rel = ">"  -> Below(w, v)
    [] rel = ">=" -> ~Below(v, w)
    [] rel = "<"  -> Below(v, w)
    [] rel = "<=" -> ~Below(w, v)

----------------------------------------------------------------------------
(* Conditions and trees, and what the schema accepts of them.              *)

Relations == [Eq |-> "=", NotEq |-> "<>", Gt |-> ">", Gte |-> ">=", Lt |-> "<", Lte |-> "<="]
Patterns == {"Like", "NotLike", "Ilike", "Contains", "StartsWith", "EndsWith"}
Derived == {"Contains", "StartsWith", "EndsWith"}

Cond(field, op, values) == [node |-> "Cond", field |-> field, op |-> op, values |-> values]
AllOf(parts) == [node |-> "All", parts |-> parts]
AnyOf(parts) == [node |-> "Any", parts |-> parts]

ArityOk(op, n) ==
  CASE op \in {"IsNull", "IsNotNull"}      -> n = 0
    [] op \in {"Between", "NotBetween"}    -> n = 2
    [] op \in {"In", "NotIn"}              -> n >= 1
    [] OTHER                               -> n = 1

Columns == [id |-> "int", name |-> "text", age |-> "int"]
Accepts(column, v) == v.kind \in {column, "null"}

RECURSIVE Valid(_)
Valid(n) ==
  IF n.node # "Cond" THEN \A i \in DOMAIN n.parts : Valid(n.parts[i])
  ELSE /\ n.field \in DOMAIN Columns
       /\ ArityOk(n.op, Len(n.values))
       /\ n.op \in Patterns => Columns[n.field] = "text"
       /\ \A i \in DOMAIN n.values : Accepts(Columns[n.field], n.values[i])

Nth(c, k) == IF k \in DOMAIN c.values THEN c.values[k] ELSE Null

\* The pattern a derived operator stands for.
Wrapped(op, s) ==
  CASE op = "Contains"   -> <<"%">> \o s \o <<"%">>
    [] op = "StartsWith" -> s \o <<"%">>
    [] op = "EndsWith"   -> <<"%">> \o s
    [] OTHER             -> s

----------------------------------------------------------------------------
(* The reference evaluator.                                                *)

\* The greedy matcher: star is the last % taken as a wildcard (0 for none),
\* mark the place in the text it has swallowed up to.
RECURSIVE LikeFrom(_, _, _, _, _, _)
LikeFrom(t, p, ti, pi, star, mark) ==
  IF ti > Len(t) THEN \A k \in pi..Len(p) : p[k] = "%"
  ELSE IF pi <= Len(p) /\ p[pi] \in {"_", t[ti]} THEN LikeFrom(t, p, ti + 1, pi + 1, star, mark)
  ELSE IF pi <= Len(p) /\ p[pi] = "%" THEN LikeFrom(t, p, ti, pi + 1, pi, ti)
  ELSE star # 0 /\ LikeFrom(t, p, mark + 1, star + 1, star, mark + 1)

Like(v, p, fold) ==
  v.kind = "text" /\ p.kind = "text" /\ LikeFrom(Fold(fold, v.s), Fold(fold, p.s), 1, 1, 0, 0)

EvalCond(c, row) ==
  LET v == row[c.field]
      first == Nth(c, 1)
      text == IF first.kind = "text" THEN Text(Wrapped(c.op, first.s)) ELSE Null
      among == \E i \in DOMAIN c.values : v = c.values[i]
      inside == ~Below(v, first) /\ ~Below(Nth(c, 2), v)
  IN  CASE c.op \in DOMAIN Relations -> Related(Relations[c.op], v, first)
        [] c.op = "In"         -> among
        [] c.op = "NotIn"      -> ~among
        [] c.op = "Like"       -> Like(v, first, FALSE)
        [] c.op = "NotLike"    -> ~Like(v, first, FALSE)
        [] c.op = "Ilike"      -> Like(v, first, TRUE)
        [] c.op = "IsNull"     -> v = Null
        [] c.op = "IsNotNull"  -> v # Null
        [] c.op = "Between"    -> inside
        [] c.op = "NotBetween" -> ~inside
        [] c.op \in Derived    -> Like(v, text, FALSE)

RECURSIVE Matches(_, _)
Matches(n, row) ==
  CASE n.node = "All"  -> \A i \in DOMAIN n.parts : Matches(n.parts[i], row)
    [] n.node = "Any"  -> \E i \in DOMAIN n.parts : Matches(n.parts[i], row)
    [] n.node = "Cond" -> EvalCond(n, row)

\* LIKE by its definition: % is any sequence, _ any one character.
RECURSIVE IsLike(_, _)
IsLike(t, p) ==
  IF p = <<>> THEN t = <<>>
  ELSE IF Head(p) = "%" THEN \E k \in 0..Len(t) : IsLike(SubSeq(t, k + 1, Len(t)), Tail(p))
  ELSE t # <<>> /\ Head(p) \in {"_", Head(t)} /\ IsLike(Tail(t), Tail(p))

----------------------------------------------------------------------------
(* The wire: protojson filters become trees.                               *)

Refused == [node |-> "Refused"]

WireOps == [EQ |-> "Eq", EXACT |-> "Eq", NEQ |-> "NotEq", GT |-> "Gt", GTE |-> "Gte",
            LT |-> "Lt", LTE |-> "Lte", LIKE |-> "Like", NOT_LIKE |-> "NotLike",
            ILIKE |-> "Ilike", NIN |-> "NotIn", IS_NULL |-> "IsNull",
            IS_NOT_NULL |-> "IsNotNull", BETWEEN |-> "Between", CONTAINS |-> "Contains",
            STARTS_WITH |-> "StartsWith", ENDS_WITH |-> "EndsWith", ICONTAINS |-> "Ilike",
            ISTARTS_WITH |-> "Ilike", IENDS_WITH |-> "Ilike"] @@ ("IN" :> "In")
WireUnsupported == {"OPERATOR_UNSPECIFIED", "REGEXP", "IREGEXP", "JSON_CONTAINS",
                    "ARRAY_CONTAINS", "EXISTS", "SEARCH", "IEXACT"}

\* The operator whose pattern a case-blind wire operator borrows.
Borrowed == [ICONTAINS |-> "Contains", ISTARTS_WITH |-> "StartsWith", IENDS_WITH |-> "EndsWith"]
WrapPattern(op, v) ==
  IF v.kind = "text" /\ op \in DOMAIN Borrowed THEN Text(Wrapped(Borrowed[op], v.s)) ELSE v

FromWire(w) ==
  IF w.op \in WireUnsupported THEN Refused
  ELSE LET values == IF w.op \in {"IS_NULL", "IS_NOT_NULL"} THEN <<>> ELSE w.values
       IN  Cond(w.field, WireOps[w.op], [i \in DOMAIN values |-> WrapPattern(w.op, values[i])])

\* A group holds its conditions, then its inner groups; only OR is Any.
RECURSIVE FromProto(_)
FromProto(g) ==
  LET parts == [i \in DOMAIN g.conditions |-> FromWire(g.conditions[i])]
               \o [i \in DOMAIN g.groups |-> FromProto(g.groups[i])]
  IN  IF \E i \in DOMAIN parts : parts[i] = Refused THEN Refused
      ELSE IF g.type = "OR" THEN AnyOf(parts) ELSE AllOf(parts)

----------------------------------------------------------------------------
(* The translations: what every engine asks its database, as tests of one  *)
(* field.  like holds a LIKE pattern, regex and wildcard the symbols of a  *)
(* regular expression and of a wildcard query.                             *)

Compare(rel, c) == [test |-> "compare", rel |-> rel, field |-> c.field, with |-> Nth(c, 1)]
Among(c) == [test |-> "among", field |-> c.field, values |-> c.values]
IsNull(c) == [test |-> "null", field |-> c.field]
Between(c) == [test |-> "range", field |-> c.field, low |-> Nth(c, 1), high |-> Nth(c, 2)]
Not(t) == [test |-> "not", of |-> t]
Pattern(test, fold, c, body) == [test |-> test, fold |-> fold, field |-> c.field, body |-> body]

\* What the SQL dialects share.
SqlScalar(c) ==
  CASE c.op \in DOMAIN Relations -> Compare(Relations[c.op], c)
    [] c.op = "In"         -> Among(c)
    [] c.op = "NotIn"      -> Not(Among(c))
    [] c.op = "IsNull"     -> IsNull(c)
    [] c.op = "IsNotNull"  -> Not(IsNull(c))
    [] c.op = "Between"    -> Between(c)
    [] c.op = "NotBetween" -> Not(Between(c))

\* seaorm lowers the column itself, there is no ILIKE in SQLite and MySQL.
SeaormTest(c) ==
  LET operand == IF Nth(c, 1).kind = "text" THEN Wrapped(c.op, Nth(c, 1).s) ELSE <<>>
  IN  CASE c.op \notin Patterns -> SqlScalar(c)
        [] c.op = "NotLike" -> Not(Pattern("like", FALSE, c, operand))
        [] c.op = "Ilike"   -> Pattern("lower like", FALSE, c, Lower(operand))
        [] OTHER            -> Pattern("like", FALSE, c, operand)

ClickhouseTest(c) ==
  CASE c.op \notin Patterns      -> SqlScalar(c)
    [] Nth(c, 1).kind # "text"   -> Refused
    [] c.op = "NotLike"          -> Not(Pattern("like", FALSE, c, Nth(c, 1).s))
    [] c.op = "Ilike"            -> Pattern("like", TRUE, c, Lower(Nth(c, 1).s))
    [] OTHER                     -> Pattern("like", FALSE, c, Wrapped(c.op, Nth(c, 1).s))

Symbols(s, Of(_)) == FlattenSeq([i \in DOMAIN s |-> Of(s[i])])

RegexMeta == {"*", "?", "\\"}
EscapeRegexNothing(s) == s
EscapeRegex(s) == Symbols(s, LAMBDA c : IF c \in RegexMeta THEN <<"\\", c>> ELSE <<c>>)
LikeToRegex(s) ==
  LET symbols(c) == CASE c = "%" -> <<".", "*">> [] c = "_" -> <<".">> [] OTHER -> EscapeRegex(<<c>>)
  IN  <<"^">> \o Symbols(s, symbols) \o <<"$">>
DerivedRegex(op, s) ==
  (IF op = "StartsWith" THEN <<"^">> ELSE <<>>) \o EscapeRegex(s)
    \o (IF op = "EndsWith" THEN <<"$">> ELSE <<>>)

\* The derived operators fold case whatever the operator.
MongoTest(c) ==
  CASE c.op \in {"NotBetween"} ->
         [test |-> "either", of |-> <<Compare("<", c), [Compare(">", c) EXCEPT !.with = Nth(c, 2)]>>]
    [] c.op \in DOMAIN Relations -> Compare(Relations[c.op], c)
    [] c.op = "In"         -> Among(c)
    [] c.op = "NotIn"      -> Not(Among(c))
    [] c.op = "IsNull"     -> IsNull(c)
    [] c.op = "IsNotNull"  -> Not(IsNull(c))
    [] c.op = "Between"    -> Between(c)
    [] Nth(c, 1).kind # "text" -> Refused
    [] c.op = "Like"       -> Pattern("regex", FALSE, c, LikeToRegex(Nth(c, 1).s))
    [] c.op = "NotLike"    -> Not(Pattern("regex", FALSE, c, LikeToRegex(Nth(c, 1).s)))
    [] c.op = "Ilike"      -> Pattern("regex", TRUE, c, LikeToRegex(Nth(c, 1).s))
    [] c.op \in Derived    -> Pattern("regex", TRUE, c, DerivedRegex(c.op, Nth(c, 1).s))

WildcardBody(s) ==
  Symbols(s, LAMBDA c : CASE c = "%" -> <<"*">> [] c = "_" -> <<"?">>
                          [] c \in {"\\", "*", "?"} -> <<"\\", c>> [] OTHER -> <<c>>)

ElasticTest(c) ==
  CASE c.op = "NotEq"      -> Not(Compare("=", c))
    [] c.op \in DOMAIN Relations -> Compare(Relations[c.op], c)
    [] c.op = "In"         -> Among(c)
    [] c.op = "NotIn"      -> Not(Among(c))
    [] c.op = "IsNull"     -> IsNull(c)
    [] c.op = "IsNotNull"  -> Not(IsNull(c))
    [] c.op = "Between"    -> Between(c)
    [] c.op = "NotBetween" -> Not(Between(c))
    [] Nth(c, 1).kind # "text" -> Refused
    [] c.op = "NotLike"    -> Not(Pattern("wildcard", FALSE, c, WildcardBody(Nth(c, 1).s)))
    [] OTHER               -> Pattern("wildcard", c.op = "Ilike", c, WildcardBody(Wrapped(c.op, Nth(c, 1).s)))

----------------------------------------------------------------------------
(* External: how the databases judge a test.  0 is false, 1 unknown, 2 true. *)

Truth(b) == IF b THEN 2 ELSE 0

\* A body of literals, escapes, "." and "x*", between its anchors.
RECURSIVE RegexHere(_, _)
RegexHere(t, r) ==
  IF r = <<>> THEN TRUE
  ELSE IF r = <<"$">> THEN t = <<>>
  ELSE LET escaped == r[1] = "\\"
           rest == SubSeq(r, IF escaped THEN 3 ELSE 2, Len(r))
           fits(c) == IF escaped THEN c = r[2] ELSE r[1] \in {".", c}
       IN  IF rest # <<>> /\ rest[1] = "*"
           THEN \E k \in 0..Len(t) : /\ \A j \in 1..k : fits(t[j])
                                     /\ RegexHere(SubSeq(t, k + 1, Len(t)), Tail(rest))
           ELSE t # <<>> /\ fits(t[1]) /\ RegexHere(Tail(t), rest)
RegexFinds(t, r) ==
  IF r # <<>> /\ r[1] = "^" THEN RegexHere(t, Tail(r))
  ELSE \E k \in 0..Len(t) : RegexHere(SubSeq(t, k + 1, Len(t)), r)

RECURSIVE WildcardFits(_, _)
WildcardFits(t, w) ==
  IF w = <<>> THEN t = <<>>
  ELSE IF w[1] = "*" THEN \E k \in 0..Len(t) : WildcardFits(SubSeq(t, k + 1, Len(t)), Tail(w))
  ELSE LET escaped == w[1] = "\\"
       IN  /\ t # <<>>
           /\ t[1] = (IF escaped THEN w[2] ELSE w[1]) \/ (~escaped /\ w[1] = "?")
           /\ WildcardFits(Tail(t), SubSeq(w, IF escaped THEN 3 ELSE 2, Len(w)))

PatternFits(test, s) ==
  LET text == Fold(test.fold, s)
      body == Fold(test.fold, test.body)
  IN  CASE test.test = "like"       -> IsLike(text, body)
        [] test.test = "lower like" -> IsLike(Lower(s), body)
        [] test.test = "regex"      -> RegexFinds(text, body)
        [] test.test = "wildcard"   -> WildcardFits(text, body)

\* SQL knows nothing of NULL; a document without the field only fails.
RECURSIVE Judged(_, _, _)
Judged(sql, test, row) ==
  IF test.test = "not" THEN 2 - Judged(sql, test.of, row)
  ELSE IF test.test = "either" THEN Truth(\E i \in DOMAIN test.of : Judged(sql, test.of[i], row) = 2)
  ELSE LET v == row[test.field]
           compared(rel, w) == IF rel = "<>" THEN v # w ELSE v.kind = w.kind /\ Related(rel, v, w)
       IN  CASE test.test = "null"    -> Truth(v = Null)
             [] v = Null /\ sql       -> 1
             [] test.test = "compare" -> Truth(compared(test.rel, test.with))
             [] test.test = "among"   -> Truth(\E i \in DOMAIN test.values : v = test.values[i])
             [] test.test = "range"   -> Truth(compared(">=", test.low) /\ compared("<=", test.high))
             [] OTHER                 -> Truth(v.kind = "text" /\ PatternFits(test, v.s))

Translators == {"seaorm", "clickhouse", "mongodb", "elasticsearch"}
TestOf(e, c) ==
  CASE e = "seaorm" -> SeaormTest(c) [] e = "clickhouse" -> ClickhouseTest(c)
    [] e = "mongodb" -> MongoTest(c) [] e = "elasticsearch" -> ElasticTest(c)

\* Groups become AND and OR, $and and $or, must and should.
RECURSIVE Judgement(_, _, _)
Judgement(e, n, row) ==
  IF n.node = "Cond" THEN Judged(e \in {"seaorm", "clickhouse"}, TestOf(e, n), row)
  ELSE LET votes == {Judgement(e, n.parts[i], row) : i \in DOMAIN n.parts}
           all == CHOOSE v \in votes \cup {2} : \A w \in votes \cup {2} : v <= w
           any == CHOOSE v \in votes \cup {0} : \A w \in votes \cup {0} : v >= w
       IN  IF n.node = "All" THEN all ELSE any
Selects(e, n, row) == Judgement(e, n, row) = 2

----------------------------------------------------------------------------
(* The text syntax.  A text is its tokens: words (fields and keywords),     *)
(* symbols, and values (quoted texts and numbers).                          *)

Word(s) == [token |-> "word", is |-> s]
Symbol(s) == [token |-> "symbol", is |-> s]
Literal(v) == [token |-> "value", is |-> v]

At(ts, i, token) == i <= Len(ts) /\ ts[i].token = token.token /\ ts[i].is = token.is
IsA(ts, i, token) == i <= Len(ts) /\ ts[i].token = token

Failed == [ok |-> FALSE]
Parsed(n, at) == [ok |-> TRUE, n |-> n, at |-> at]

\* A bareword is read as a text (true, false and null, which are not, are left out).
AipValue(ts, i) == IF ts[i].token = "word" THEN Text(<<ts[i].is>>) ELSE ts[i].is
IsValue(ts, i) == IsA(ts, i, "word") \/ IsA(ts, i, "value")

RECURSIVE ValueList(_, _, _, _, _)
ValueList(ts, field, op, values, i) ==
  IF ~IsValue(ts, i) THEN Failed
  ELSE LET more == Append(values, AipValue(ts, i))
       IN  IF At(ts, i + 1, Symbol(",")) THEN ValueList(ts, field, op, more, i + 2)
           ELSE IF At(ts, i + 1, Symbol(")")) THEN Parsed(Cond(field, op, more), i + 2)
           ELSE Failed

AipOps == ("=" :> "Eq") @@ ("!=" :> "NotEq") @@ ("<>" :> "NotEq") @@ (">" :> "Gt")
          @@ (">=" :> "Gte") @@ ("<" :> "Lt") @@ ("<=" :> "Lte")

ParseComparison(ts, i) ==
  CASE ~IsA(ts, i, "word") -> Failed
    [] At(ts, i + 1, Word("IN")) /\ At(ts, i + 2, Symbol("(")) ->
         ValueList(ts, ts[i].is, "In", <<>>, i + 3)
    [] At(ts, i + 1, Word("NOT")) /\ At(ts, i + 2, Word("IN")) /\ At(ts, i + 3, Symbol("(")) ->
         ValueList(ts, ts[i].is, "NotIn", <<>>, i + 4)
    [] IsA(ts, i + 1, "symbol") /\ ts[i + 1].is \in DOMAIN AipOps /\ IsValue(ts, i + 2) ->
         Parsed(Cond(ts[i].is, AipOps[ts[i + 1].is], <<AipValue(ts, i + 2)>>), i + 3)
    [] OTHER -> Failed

Complements == { {"Eq", "NotEq"}, {"Gt", "Lte"}, {"Gte", "Lt"}, {"In", "NotIn"}, {"Like", "NotLike"},
                 {"IsNull", "IsNotNull"}, {"Between", "NotBetween"} }
Complement(op) == CHOOSE other \in UNION Complements : other # op /\ {op, other} \in Complements

\* Groups swap, a pattern operator without a complement is refused.
RECURSIVE Negate(_)
Negate(n) ==
  IF n.node = "Cond"
  THEN IF n.op \in UNION Complements THEN [n EXCEPT !.op = Complement(n.op)] ELSE Refused
  ELSE LET parts == [i \in DOMAIN n.parts |-> Negate(n.parts[i])]
       IN  IF \E i \in DOMAIN parts : parts[i] = Refused THEN Refused
           ELSE IF n.node = "All" THEN AnyOf(parts) ELSE AllOf(parts)

\* The leaves are negated, the groups keep their combinator.
RECURSIVE NegateLeaves(_)
NegateLeaves(n) ==
  IF n.node = "Cond"
  THEN IF n.op \in UNION Complements THEN [n EXCEPT !.op = Complement(n.op)] ELSE Refused
  ELSE [n EXCEPT !.parts = [i \in DOMAIN n.parts |-> NegateLeaves(n.parts[i])]]

Negated(n) == Negate(n)

Only(parts, group) == IF Len(parts) = 1 THEN parts[1] ELSE group

RECURSIVE ParseOr(_, _), OrMore(_, _, _), ParseAnd(_, _, _), ParseFactor(_, _)
ParseOr(ts, i) ==
  LET p == ParseAnd(ts, <<>>, i) IN IF p.ok THEN OrMore(ts, <<p.n>>, p.at) ELSE Failed
OrMore(ts, parts, i) ==
  IF ~At(ts, i, Word("OR")) THEN Parsed(Only(parts, AnyOf(parts)), i)
  ELSE LET p == ParseAnd(ts, <<>>, i + 1)
       IN  IF p.ok THEN OrMore(ts, Append(parts, p.n), p.at) ELSE Failed
ParseAnd(ts, parts, i) ==
  IF i > Len(ts) \/ At(ts, i, Symbol(")")) \/ At(ts, i, Word("OR"))
  THEN Parsed(Only(parts, AllOf(parts)), i)
  ELSE LET p == ParseFactor(ts, IF At(ts, i, Word("AND")) THEN i + 1 ELSE i)
       IN  IF p.ok THEN ParseAnd(ts, Append(parts, p.n), p.at) ELSE Failed
ParseFactor(ts, i) ==
  IF At(ts, i, Symbol("("))
  THEN LET p == ParseOr(ts, i + 1)
       IN  IF p.ok /\ At(ts, p.at, Symbol(")")) THEN Parsed(p.n, p.at + 1) ELSE Failed
  ELSE IF At(ts, i, Word("NOT"))
  THEN LET p == ParseFactor(ts, i + 1)
       IN  IF p.ok /\ Negated(p.n) # Refused THEN Parsed(Negated(p.n), p.at) ELSE Failed
  ELSE ParseComparison(ts, i)

FromAip(ts) ==
  LET p == ParseOr(ts, 1) IN IF p.ok /\ p.at = Len(ts) + 1 THEN p.n ELSE Refused

----------------------------------------------------------------------------
(* What the functions promise.                                              *)

\* A wire pattern operator by its meaning, on texts without "%" (the matcher
\* takes one in the text for a literal) and operands without wildcards.
Meaning(op, t, s) ==
  CASE op = "CONTAINS"    -> \E k \in 0..Len(t) : IsPrefix(s, SubSeq(t, k + 1, Len(t)))
    [] op = "STARTS_WITH" -> IsPrefix(s, t)
    [] op = "ENDS_WITH"   -> IsSuffix(s, t)
Plain == [ICONTAINS |-> "CONTAINS", ISTARTS_WITH |-> "STARTS_WITH", IENDS_WITH |-> "ENDS_WITH"]

MeansWhatItSays(w, row) ==
  LET n == FromProto([type |-> "AND", conditions |-> <<w>>, groups |-> <<>>])
      t == row.name.s
      s == w.values[1].s
  IN  /\ n # Refused /\ Valid(n)
      /\ Matches(n, row) =
           CASE w.op = "LIKE"             -> IsLike(t, s)
             [] w.op = "NOT_LIKE"         -> ~IsLike(t, s)
             [] w.op = "ILIKE"            -> IsLike(Lower(t), Lower(s))
             [] Has(s, {"%", "_"})        -> Matches(n, row)
             [] w.op \in DOMAIN Plain     -> Meaning(Plain[w.op], Lower(t), Lower(s))
             [] OTHER                     -> Meaning(w.op, t, s)

\* Where an engine is held to the reference: on a NULL only the operators that
\* select nothing then; MongoDB's derived operators fold case and take
\* wildcards for letters; the reference takes a "%" in a text for a letter.
NullSafe == {"Eq", "In", "Gt", "Gte", "Between", "Like", "Ilike", "IsNull", "IsNotNull"} \cup Derived
Held(e, c, row) ==
  /\ row[c.field] = Null => c.op \in NullSafe
  /\ \A i \in DOMAIN c.values : c.values[i] # Null
  /\ c.op \in Patterns /\ row[c.field] # Null => ~Has(row[c.field].s, {"%"})
  /\ e = "mongodb" /\ c.op \in Derived => ~Has(c.values[1].s, {"%", "_", "A"})
                                          /\ (row[c.field] # Null => ~Has(row[c.field].s, {"A"}))
RECURSIVE HeldAll(_, _, _)
HeldAll(e, n, row) ==
  IF n.node = "Cond" THEN Held(e, n, row)
  ELSE (n.node = "Any" => n.parts # <<>>) /\ \A i \in DOMAIN n.parts : HeldAll(e, n.parts[i], row)

Agrees(n, row) ==
  Valid(n) => \A e \in Translators : HeldAll(e, n, row) => Selects(e, n, row) = Matches(n, row)

\* The tokens of a tree: AND binds tighter than OR, juxtaposition is AND.
SymbolOf(op) == CHOOSE s \in {"=", "!=", ">", ">=", "<", "<="} : AipOps[s] = op
RECURSIVE Tokens(_, _)
Tokens(n, juxtaposed) ==
  LET inner(part) == IF part.node = "Any" \/ (n.node = "All" /\ part.node = "All")
                     THEN <<Symbol("(")>> \o Tokens(part, juxtaposed) \o <<Symbol(")")>>
                     ELSE Tokens(part, juxtaposed)
      between == IF n.node = "Any" THEN <<Word("OR")>> ELSE IF juxtaposed THEN <<>> ELSE <<Word("AND")>>
      list == FlattenSeq([i \in DOMAIN n.values |->
                            (IF i = 1 THEN <<>> ELSE <<Symbol(",")>>) \o <<Literal(n.values[i])>>])
  IN  CASE n.node # "Cond" ->
             FlattenSeq([i \in DOMAIN n.parts |->
                           (IF i = 1 THEN <<>> ELSE between) \o inner(n.parts[i])])
        [] n.node = "Cond" /\ n.op = "In" ->
             <<Word(n.field), Word("IN"), Symbol("(")>> \o list \o <<Symbol(")")>>
        [] n.node = "Cond" /\ n.op = "NotIn" ->
             <<Word(n.field), Word("NOT"), Word("IN"), Symbol("(")>> \o list \o <<Symbol(")")>>
        [] OTHER -> <<Word(n.field), Symbol(SymbolOf(n.op)), Literal(n.values[1])>>

ReadsBack(n, juxtaposed, rows) ==
  LET text == Tokens(n, juxtaposed)
      read == FromAip(text)
      complement == FromAip(<<Word("NOT"), Symbol("(")>> \o text \o <<Symbol(")")>>)
  IN  /\ read # Refused /\ complement # Refused
      /\ \A row \in rows : Matches(read, row) = Matches(n, row) /\ Matches(complement, row) # Matches(n, row)

====
