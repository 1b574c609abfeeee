-------------------------------- MODULE Grammar --------------------------------
(****************************************************************************)
(* query/parser/grammar: the recognizer that ANTLR generates from           *)
(* IIC3413DBParser.g4, one operator for each rule function.                 *)
(*                                                                          *)
(* A token is <<type, text>>; for a literal the text is its value.  A rule  *)
(* maps a sequence of tokens to the set of the trees it derives for the     *)
(* whole sequence, in the form that QueryPreprocessor visits: a record      *)
(* whose field kind names the rule, without the tokens that it ignores.     *)
(* The error listener throws at the first syntax error, so a text without a *)
(* tree ends in an exception.                                               *)
(****************************************************************************)
EXTENDS Integers, Sequences, SequencesExt

CONSTANT NoLimit  \* the limit of a SELECT without LIMIT

Is(w, i, type) == i \in DOMAIN w /\ w[i][1] = type
Begins(w, types) == \A i \in DOMAIN types : Is(w, i, types[i])
Positions(w, types) == {i \in DOMAIN w : w[i][1] \in types}
From(w, i) == SubSeq(w, i, Len(w))
When(test, trees) == IF test THEN trees ELSE {}

\* item (separator item)*: the trees of the items between the separators.  A
\* separator's type may also be an identifier, or belong to an item.
Chains(w, separators, Item(_)) ==
    LET Trees(cuts) ==
            LET ends == <<0>> \o cuts \o <<Len(w) + 1>>
                parts == [k \in 1..(Len(ends) - 1) |-> Item(SubSeq(w, ends[k] + 1, ends[k + 1] - 1))]
            IN  IF {} \in Range(parts) THEN {}
                ELSE {[args |-> f, ops |-> [k \in DOMAIN cuts |-> w[cuts[k]][1]]] :
                        f \in {g \in [DOMAIN parts -> UNION Range(parts)] :
                                \A k \in DOMAIN parts : g[k] \in parts[k]}}
    IN  UNION {Trees(SetToSortSeq(P, <)) : P \in SUBSET Positions(w, separators)}
Lists(w, separator, Item(_)) == {c.args : c \in Chains(w, {separator}, Item)}

(****************************************************************************)
(* Names and literals.                                                      *)
(****************************************************************************)
Keyword == {"AND", "AS", "BETWEEN", "CREATE", "DISTINCT", "FROM", "INSERT", "INTO", "INT",
            "LIKE", "LIMIT", "OR", "SELECT", "SET", "STR", "TABLE", "UPDATE", "VALUES", "WHERE"}
Identifier(w) == When(Len(w) = 1 /\ w[1][1] \in Keyword \cup {"IDENTIFIER"}, {w[i][2] : i \in {1}})
Constant(w) == When(Len(w) = 1 /\ w[1][1] \in {"INTEGER", "STRING"}, {w[i][2] : i \in {1}})
Datatype(w) == When(Len(w) = 1 /\ w[1][1] \in {"STR", "INT"}, {w[i][1] : i \in {1}})

Column(w) ==
    {[alias |-> "", name |-> n] : n \in Identifier(w)}
    \cup When(Len(w) = 3 /\ Is(w, 2, "."),
              {[alias |-> a, name |-> n] : a \in Identifier(SubSeq(w, 1, 1)), n \in Identifier(From(w, 3))})

ColumnOrConstant(w) ==
    {[kind |-> "ref", ref |-> r] : r \in Column(w)} \cup {[kind |-> "constant", value |-> v] : v \in Constant(w)}

(****************************************************************************)
(* WHERE.                                                                   *)
(****************************************************************************)
NoOperand == [kind |-> "none"]

\* The operator and the right side are optional.
ComparisonExpr(w) ==
    {[kind |-> "compare", op |-> "", lhs |-> l, rhs |-> NoOperand] : l \in ColumnOrConstant(w)}
    \cup UNION {{[kind |-> "compare", op |-> w[i][1], lhs |-> l, rhs |-> r] :
                    l \in ColumnOrConstant(SubSeq(w, 1, i - 1)), r \in ColumnOrConstant(From(w, i + 1))} :
                i \in Positions(w, {"==", "!=", "<", ">", "<=", ">="})}

LikeExpr(w) ==
    UNION {When(Len(w) = i + 1 /\ Is(w, i + 1, "STRING"),
                {[kind |-> "like", ref |-> r, pattern |-> w[i + 1][2].v] : r \in Column(SubSeq(w, 1, i - 1))}) :
           i \in Positions(w, {"LIKE"})}

BetweenExpr(w) ==
    UNION {When(Len(w) = i + 3 /\ Is(w, i + 2, "AND"),
                {[kind |-> "between", ref |-> r, lower |-> l, upper |-> u] :
                    r \in Column(SubSeq(w, 1, i - 1)),
                    l \in Constant(SubSeq(w, i + 1, i + 1)), u \in Constant(From(w, i + 3))}) :
           i \in Positions(w, {"BETWEEN"})}

SimpleExpr(w) == ComparisonExpr(w) \cup LikeExpr(w) \cup BetweenExpr(w)
AndExpr(w) == Lists(w, "AND", SimpleExpr)
WhereStatement(w) == When(Begins(w, <<"WHERE">>), AndExpr(From(w, 2)))
OptionalWhere(w) == IF w = <<>> THEN {<<>>} ELSE WhereStatement(w)

(****************************************************************************)
(* FROM.                                                                    *)
(****************************************************************************)
Table(w) ==
    {[kind |-> "table", table |-> n, alias |-> ""] : n \in Identifier(w)}
    \cup When(Len(w) = 3 /\ Is(w, 2, "AS"),
              {[kind |-> "table", table |-> n, alias |-> a] :
                    n \in Identifier(SubSeq(w, 1, 1)), a \in Identifier(From(w, 3))})

OuterJoinComp(w) ==
    UNION {{<<l, r>> : l \in Column(SubSeq(w, 1, i - 1)), r \in Column(From(w, i + 1))} :
           i \in Positions(w, {"=="})}
OuterJoinOn(w) == Lists(w, "AND", OuterJoinComp)

OuterJoin(kind, side, w) ==
    LET n == Len(w)
    IN  When(/\ n > 10 /\ Is(w, 1, "(") /\ Is(w, 3, side) /\ Is(w, 4, "OUTER")
             /\ Is(w, 5, "JOIN") /\ Is(w, 7, "ON") /\ Is(w, n - 2, ")") /\ Is(w, n - 1, "AS"),
             {[kind |-> kind, l |-> l, r |-> r, alias |-> a, on |-> on] :
                l \in Identifier(SubSeq(w, 2, 2)), r \in Identifier(SubSeq(w, 6, 6)),
                a \in Identifier(From(w, n)), on \in OuterJoinOn(SubSeq(w, 8, n - 3))})
LeftOuterJoin(w) == OuterJoin("left", "LEFT", w)
FullOuterJoin(w) == OuterJoin("full", "FULL", w)

TableListItem(w) == LeftOuterJoin(w) \cup FullOuterJoin(w) \cup Table(w)
TableList(w) == Lists(w, ",", TableListItem)
FromStatement(w) == When(Begins(w, <<"FROM">>), TableList(From(w, 2)))

(****************************************************************************)
(* SET.  unaryExpr and atomicExpr may be empty, so the grammar is ambiguous *)
(* wherever there is a sign: the sign is that of a unaryExpr, or an         *)
(* operator whose left operand is empty.                                    *)
(****************************************************************************)
Operators(w, ops, Item(_)) ==
    {IF c.ops = <<>> THEN c.args[1] ELSE [kind |-> "chain", args |-> c.args, ops |-> c.ops] :
        c \in Chains(w, ops, Item)}

RECURSIVE UnaryExpr(_), AtomicExpr(_), MultiplicativeExpr(_), AdditiveExpr(_)

UnaryExpr(w) ==
    IF w = <<>> THEN {[kind |-> "empty"]}
    ELSE AtomicExpr(w)
         \cup When(Is(w, 1, "+"), {[kind |-> "plus", arg |-> a] : a \in UnaryExpr(From(w, 2))})
         \cup When(Is(w, 1, "-"), {[kind |-> "minus", arg |-> a] : a \in UnaryExpr(From(w, 2))})

AtomicExpr(w) ==
    IF w = <<>> THEN {[kind |-> "empty"]}
    ELSE ColumnOrConstant(w)
         \cup When(Is(w, 1, "(") /\ Is(w, Len(w), ")"), AdditiveExpr(SubSeq(w, 2, Len(w) - 1)))

MultiplicativeExpr(w) == Operators(w, {"*", "/", "%"}, UnaryExpr)

\* Mutant: one level of precedence.
AdditiveExpr_OneLevel(w) == Operators(w, {"+", "-", "*", "/", "%"}, UnaryExpr)

AdditiveExpr(w) == Operators(w, {"+", "-"}, MultiplicativeExpr)

Assignment(w) ==
    When(Is(w, 2, "="),
         {[name |-> n, expr |-> e] : n \in Identifier(SubSeq(w, 1, 1)), e \in AdditiveExpr(From(w, 3))})
AssignmentList(w) == Lists(w, ",", Assignment)

(****************************************************************************)
(* Statements.                                                              *)
(****************************************************************************)
ColumnList(w) == Lists(w, ",", Column)

\* <<>> stands for *.
SelectStatement(w) ==
    LET After(i, distinct) ==
            {[distinct |-> distinct, columns |-> cs] :
                cs \in IF Len(w) = i /\ Is(w, i, "*") THEN {<<>>} ELSE ColumnList(From(w, i))}
    IN  When(Begins(w, <<"SELECT">>), After(2, FALSE))
        \cup When(Begins(w, <<"SELECT", "DISTINCT">>), After(3, TRUE))

LimitStatement(w) == When(Len(w) = 2 /\ Begins(w, <<"LIMIT", "INTEGER">>), {w[i][2].v : i \in {2}})

\* cuts: where FROM, WHERE and LIMIT begin, or would.
SelectQuery(w) ==
    LET end == Len(w) + 1
        cuts == {c \in Positions(w, {"FROM"}) \X (Positions(w, {"WHERE", "LIMIT"}) \cup {end})
                        \X (Positions(w, {"LIMIT"}) \cup {end}) :
                    c[1] < c[2] /\ c[2] <= c[3]}
    IN  UNION {{[kind |-> "select", distinct |-> s.distinct, columns |-> s.columns, from |-> f,
                 where |-> e, limit |-> n] :
                    s \in SelectStatement(SubSeq(w, 1, c[1] - 1)),
                    f \in FromStatement(SubSeq(w, c[1], c[2] - 1)),
                    e \in OptionalWhere(SubSeq(w, c[2], c[3] - 1)),
                    n \in IF c[3] = end THEN {NoLimit} ELSE LimitStatement(From(w, c[3]))} : c \in cuts}

UpdateQuery(w) ==
    UNION {When(Begins(w, <<"UPDATE">>) /\ Is(w, 3, "SET"),
                {[kind |-> "update", table |-> t, set |-> a, where |-> e] :
                    t \in Identifier(SubSeq(w, 2, 2)), a \in AssignmentList(SubSeq(w, 4, c - 1)),
                    e \in OptionalWhere(From(w, c))}) :
           c \in Positions(w, {"WHERE"}) \cup {Len(w) + 1}}

DeleteQuery(w) ==
    When(Begins(w, <<"DELETE", "FROM">>),
         {[kind |-> "delete", table |-> t, where |-> e] :
            t \in Identifier(SubSeq(w, 3, 3)), e \in OptionalWhere(From(w, 4))})

InsertQuery(w) ==
    When(Begins(w, <<"INSERT", "INTO">>) /\ Is(w, 4, "VALUES") /\ Is(w, 5, "(") /\ Is(w, Len(w), ")"),
         {[kind |-> "insert", table |-> t, values |-> vs] :
            t \in Identifier(SubSeq(w, 3, 3)), vs \in Lists(SubSeq(w, 6, Len(w) - 1), ",", Constant)})

Schema(w) ==
    {[name |-> n, type |-> d] : n \in Identifier(SubSeq(w, 1, 1)), d \in Datatype(From(w, 2))}

CreateQuery(w) ==
    When(Begins(w, <<"CREATE", "TABLE">>) /\ Is(w, 4, "(") /\ Is(w, Len(w), ")"),
         {[kind |-> "create", table |-> t, columns |-> cs] :
            t \in Identifier(SubSeq(w, 3, 3)), cs \in Lists(SubSeq(w, 5, Len(w) - 1), ",", Schema)})

Query(w) ==
    CreateQuery(w) \cup InsertQuery(w) \cup SelectQuery(w) \cup UpdateQuery(w) \cup DeleteQuery(w)

\* root: the whole text is one query.
Root(w) == Query(w)

RECURSIVE HasSign(_)
HasSign(e) ==
    CASE e.kind = "chain" -> \E i \in DOMAIN e.args : HasSign(e.args[i])
      [] OTHER -> e.kind \in {"plus", "minus"}
Signed(tree) == tree.kind = "update" /\ \E i \in DOMAIN tree.set : HasSign(tree.set[i].expr)

\* The derivation that the recognizer follows.  Of the alternatives of unaryExpr
\* that lead to the end of the text adaptivePredict takes the first, and the
\* empty one, which comes before the signs, leads there whenever a sign does.
Predicted(w) == {tree \in Root(w) : ~Signed(tree)}
================================================================================
