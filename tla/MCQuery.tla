-------------------------------- MODULE MCQuery --------------------------------
(* Tables t(a INT, b STR) and s(a INT, c INT), which a statement may call T and *)
(* S as well; x and j are aliases, zz is nothing.                               *)
EXTENDS Query

Info(name, type) == [name |-> name, type |-> type]
MCSchemas == [t |-> <<Info("a", "INT"), Info("b", "STR"), Info("RID", "RID")>>,
              s |-> <<Info("a", "INT"), Info("c", "INT"), Info("RID", "RID")>>]
MCNormalize == [t |-> "t", T |-> "t", s |-> "s", zz |-> "zz"]
MCNameOrder == <<"T", "j", "s", "t", "x", "zz">>

RowT(a, b) == <<IntValue(a), StrValue(b)>>
RowS(a, c) == <<IntValue(a), IntValue(c)>>
MCDatabases ==
    {[t |-> <<RowT(1, 1), RowT(2, 2)>>, s |-> <<RowS(1, 2), RowS(1, 1)>>],
     [t |-> <<RowT(2, 1), <<>>, RowT(1, 2)>>, s |-> <<RowS(3, 2)>>],
     [t |-> <<>>, s |-> <<RowS(1, 1), RowS(2, 2)>>],
     [t |-> <<RowT(MinInt, 1), RowT(-MinInt - 1, 2)>>, s |-> <<>>]}
MCRecords == [t |-> {RowT(1, 1), RowT(2, 2)}, s |-> {RowS(1, 1), RowS(2, 2)}]

Ref(alias, name) == [alias |-> alias, name |-> name]
R(alias, name) == [kind |-> "ref", ref |-> Ref(alias, name)]
C(value) == [kind |-> "constant", value |-> value]
Cmp(l, op, r) == [kind |-> "compare", op |-> op, lhs |-> l, rhs |-> r]
Like(ref) == [kind |-> "like", ref |-> ref, pattern |-> 1]
Between(ref, lo, hi) == [kind |-> "between", ref |-> ref, lower |-> lo, upper |-> hi]

Tbl(table) == TableItem(table)
As(table, alias) == [kind |-> "table", table |-> table, alias |-> alias]
Outer(kind, l, r, on) == [kind |-> kind, l |-> l, r |-> r, alias |-> "j", on |-> on]
Select(columns, from, where, limit) ==
    [kind |-> "select", distinct |-> FALSE, columns |-> columns, from |-> from,
     where |-> where, limit |-> limit]
Selects(Cs, F, Ws, L) == {Select(c, F, w, L) : c \in Cs, w \in Ws}
One == IntValue(1)

OneTable ==
    Selects({<<>>, <<Ref("", "a")>>, <<Ref("t", "b")>>, <<Ref("t", "b"), Ref("t", "a")>>,
             <<Ref("t", "zz")>>, <<Ref("", "zz")>>, <<Ref("t", "RID")>>},
            <<Tbl("t")>>,
            {<<>>, <<Cmp(R("", "a"), ">", C(One))>>, <<Cmp(C(One), ">=", R("t", "a"))>>,
             <<Cmp(R("t", "a"), "!=", C(One)), Like(Ref("t", "b"))>>,
             <<Between(Ref("t", "a"), One, One)>>, <<Like(Ref("", "a"))>>,
             <<Cmp(R("t", "a"), "==", R("t", "b"))>>, <<Cmp(R("t", "a"), "<", C(Thrown))>>,
             <<Cmp(R("t", "a"), "==", R("t", "a"))>>}, NoLimit)
    \cup {Select(<<>>, <<Tbl("t")>>, <<>>, n) : n \in {0, 1}}
    \cup {[Select(<<>>, <<Tbl("t")>>, <<>>, NoLimit) EXCEPT !.distinct = TRUE]}
    \cup Selects({<<>>, <<Ref("T", "a")>>}, <<Tbl("T")>>, {<<>>}, NoLimit)
    \cup Selects({<<>>}, <<Tbl("zz")>>, {<<>>}, NoLimit)

Products2 ==
    Selects({<<>>, <<Ref("s", "a"), Ref("t", "a"), Ref("t", "b")>>, <<Ref("", "a")>>},
            <<Tbl("t"), Tbl("s")>>,
            {<<>>, <<Cmp(R("t", "a"), "==", R("s", "a")), Cmp(R("s", "c"), "==", R("t", "a"))>>,
             <<Cmp(R("s", "a"), "==", R("t", "a")), Cmp(R("s", "a"), "<=", R("s", "c")),
               Cmp(R("t", "b"), "<", C(StrValue(2)))>>,
             <<Cmp(R("t", "a"), "<", R("s", "a")), Cmp(C(One), "==", C(One))>>}, NoLimit)
    \cup Selects({<<>>}, <<Tbl("t"), As("t", "x")>>,
                 {<<Cmp(R("t", "a"), "<", R("x", "a"))>>, <<Cmp(R("x", "a"), "==", R("t", "a"))>>}, 2)
    \cup Selects({<<>>}, <<Tbl("t"), Tbl("t")>>, {<<>>}, NoLimit)

Products3 ==
    Selects({<<>>, <<Ref("x", "a")>>}, <<Tbl("t"), Tbl("s"), As("s", "x")>>,
            {<<>>, <<Cmp(R("t", "a"), "==", R("x", "a"))>>,
             <<Cmp(R("x", "a"), "==", R("t", "a")), Cmp(R("t", "a"), "==", R("s", "a"))>>}, NoLimit)

On == <<Ref("t", "a"), Ref("s", "a")>>
OuterJoins ==
    UNION {Selects({<<>>, <<Ref("j", "a"), Ref("j", "b"), Ref("j", "c")>>, <<Ref("j", "a")>>,
                    <<Ref("j", "zz")>>},
                   <<Outer(k, "t", "s", on)>>,
                   {<<>>, <<Cmp(R("j", "a"), "<", C(IntValue(2)))>>,
                    <<Cmp(R("j", "c"), "<", C(IntValue(2)))>>,
                    <<Cmp(R("j", "a"), "<", R("j", "c"))>>}, NoLimit) :
            k \in {"left", "full"}, on \in {<<On>>, <<Reverse(On), <<Ref("t", "a"), Ref("s", "c")>>>>}}
    \cup {Select(<<>>, <<Outer("left", "t", "s", <<<<l, r>>>>)>>, <<>>, NoLimit) :
            l \in {Ref("t", "a"), Ref("t", "b"), Ref("s", "c"), Ref("", "a")},
            r \in {Ref("s", "c"), Ref("zz", "a"), Ref("s", "zz")}}
    \cup Selects({<<>>, <<Ref("j", "a"), Ref("j", "b")>>}, <<Outer("left", "t", "t", <<<<Ref("t", "a"), Ref("t", "a")>>>>)>>,
                 {<<>>, <<Cmp(R("j", "a"), "<", C(IntValue(2)))>>}, NoLimit)
    \cup Selects({<<>>}, <<Tbl("t"), Outer("full", "t", "s", <<On>>)>>, {<<>>}, NoLimit)

Negative(expr) == [kind |-> "minus", arg |-> expr]
Chain(args, ops) == [kind |-> "chain", args |-> args, ops |-> ops]
Set(name, expr) == [name |-> name, expr |-> expr]
Update(table, set, where) == [kind |-> "update", table |-> table, set |-> set, where |-> where]
Changes ==
    {Update(n, set, w) :
        n \in {"t", "T", "zz"},
        set \in {<<Set("a", Chain(<<R("", "a"), C(One)>>, <<"+">>))>>,
                 <<Set("a", C(IntValue(2))), Set("a", Chain(<<Chain(<<R("", "a"), C(One)>>, <<"-">>), R("", "a")>>, <<"*">>))>>,
                 <<Set("a", Chain(<<R("", "a"), C(IntValue(0))>>, <<"/">>))>>,
                 <<Set("b", R("", "a"))>>, <<Set("a", Negative(C(One)))>>,
                 <<Set("a", Chain(<<R("", "a"), C(IntValue(-1))>>, <<"/">>))>>,
                 <<Set("a", Chain(<<Chain(<<R("", "a"), C(IntValue(2))>>, <<"/">>), C(IntValue(3))>>, <<"%">>))>>,
                 <<Set("a", [kind |-> "empty"])>>,
                 <<Set("zz", C(One))>>},
        w \in {<<>>, <<Cmp(R("", "a"), "<", C(IntValue(2)))>>}}
    \cup {[kind |-> "delete", table |-> n, where |-> w] :
            n \in {"t", "zz"}, w \in {<<>>, <<Cmp(R("", "a"), "==", C(One))>>, <<Like(Ref("", "b"))>>}}
    \cup {[kind |-> "insert", table |-> n, values |-> v] :
            n \in {"s", "zz"}, v \in {RowS(1, 2), RowT(1, 2), <<One>>}}
    \cup {[kind |-> "create", table |-> n, columns |-> <<Info("a", "INT")>>] : n \in {"t", "zz"}}

MCStatements == OneTable \cup Products2 \cup Products3 \cup OuterJoins \cup Changes

(* Texts with a keyword for a name, signs, levels of operators, brackets without *)
(* need, half a comparison, and with no tree at all.                             *)
Words(types) == FlattenSeq([i \in DOMAIN types |->
    CASE types[i] \in {"a", "b", "t"} -> Name(types[i])
      [] types[i] = "1" -> Literal(One)
      [] OTHER -> Token(types[i])])
Text(types, tree) == [text |-> Words(types), tree |-> tree]
FromT == <<Tbl("t")>>
SetA(expr) == Update("t", <<Set("a", expr)>>, <<>>)
OtherTexts ==
    {Text(<<"UPDATE", "t", "SET", "a", "=", "a", "-", "1", "*", "a">>,
          SetA(Chain(<<R("", "a"), Chain(<<C(One), R("", "a")>>, <<"*">>)>>, <<"-">>))),
     Text(<<"UPDATE", "t", "SET", "a", "=", "a", "*", "1", "+", "a", "-", "1">>,
          SetA(Chain(<<Chain(<<R("", "a"), C(One)>>, <<"*">>), R("", "a"), C(One)>>, <<"+", "-">>))),
     Text(<<"UPDATE", "t", "SET", "a", "=", "(", "a", "+", "(", "1", ")", ")">>,
          SetA(Chain(<<R("", "a"), C(One)>>, <<"+">>))),
     Text(<<"UPDATE", "t", "SET", "a", "=", "a", "*", "-", "1", "+", "+", "a">>,
          SetA(Chain(<<Chain(<<R("", "a"), Negative(C(One))>>, <<"*">>), [kind |-> "plus", arg |-> R("", "a")]>>, <<"+">>))),
     Text(<<"UPDATE", "t", "SET", "a", "=", "WHERE", "WHERE", "a", "==", "1">>,
          Update("t", <<Set("a", R("", "WHERE"))>>, <<Cmp(R("", "a"), "==", C(One))>>)),
     Text(<<"SELECT", "DISTINCT", "FROM", "t">>, Select(<<Ref("", "DISTINCT")>>, FromT, <<>>, NoLimit)),
     Text(<<"SELECT", "LIMIT", ".", "a", "FROM", "t", "AS", "LIMIT", "LIMIT", "1">>,
          Select(<<Ref("LIMIT", "a")>>, <<As("t", "LIMIT")>>, <<>>, 1)),
     Text(<<"SELECT", "*", "FROM", "t", "WHERE", "a", "BETWEEN", "1", "AND", "1", "AND", "b", "==", "b">>,
          Select(<<>>, FromT, <<Between(Ref("", "a"), One, One), Cmp(R("", "b"), "==", R("", "b"))>>, NoLimit)),
     Text(<<"SELECT", "*", "FROM", "t", "WHERE", "AND", "AND", "AND", "==", "1">>,
          Select(<<>>, FromT, <<Cmp(R("", "AND"), "", [kind |-> "none"]), Cmp(R("", "AND"), "==", C(One))>>, NoLimit)),
     Text(<<"SELECT", "*", "FROM", "t", "WHERE", "a">>,
          Select(<<>>, FromT, <<Cmp(R("", "a"), "", [kind |-> "none"])>>, NoLimit)),
     Text(<<"DELETE", "FROM", "t", "WHERE", "a">>,
          [kind |-> "delete", table |-> "t", where |-> <<Cmp(R("", "a"), "", [kind |-> "none"])>>])}
    \cup {Text(types, NoStatement) :
            types \in {<<"SELECT", "FROM", "t">>, <<"SELECT", "a", "-", "1", "FROM", "t">>,
                       <<"SELECT", "*", "FROM", "t", "WHERE">>, <<"SELECT", "JOIN", "FROM", "t">>,
                       <<"UPDATE", "t", "SET", "a", "=", "(", "1">>, <<"DELETE", "t">>}}

MCTexts == {[text |-> StatementText(s), tree |-> s] : s \in MCStatements} \cup OtherTexts
================================================================================
