---------------------------- MODULE QueryReference -----------------------------
(****************************************************************************)
(* What a SELECT and an UPDATE promise, stated on the statement itself and  *)
(* not on plans or iterators: the abstract specification of the query layer.*)
(*                                                                          *)
(* An answer is a set of bindings, one for each row of the result.  A       *)
(* binding gives each item of FROM a pair of slots: a table uses the first  *)
(* one only, an outer join both, and 0 stands for a missing partner.        *)
(****************************************************************************)
EXTENDS QueryPreprocessor

Live(rows, table) == {i \in DOMAIN rows[Normalize[table]] : rows[Normalize[table]][i] # <<>>}

\* Position of a column in a table, 0 if it has none of the name.
PositionOf(table, name) == SelectInSeq(TableColumns(table), LAMBDA c : c.name = name)

\* The value of a column in a slot; NULL is written -1.
ValueIn(rows, table, slot, pos) ==
    IF slot = 0 THEN [type |-> TableColumns(table)[pos].type, v |-> -1]
    ELSE IF pos = Len(TableColumns(table)) THEN RidValue(slot)
    ELSE rows[Normalize[table]][slot][pos]

(****************************************************************************)
(* FROM.                                                                    *)
(****************************************************************************)
OnHolds(rows, item, pair) ==
    \A k \in DOMAIN item.on :
        LET Val(ref) == IF ref.alias = item.l
                        THEN ValueIn(rows, item.l, pair[1], PositionOf(item.l, ref.name))
                        ELSE ValueIn(rows, item.r, pair[2], PositionOf(item.r, ref.name))
        IN  Val(item.on[k][1]) = Val(item.on[k][2])

ItemBindings(rows, item) ==
    IF item.kind = "table" THEN Live(rows, item.table) \X {0}
    ELSE LET l == Live(rows, item.l)
             r == Live(rows, item.r)
             pairs == {p \in l \X r : OnHolds(rows, item, p)}
             lonely_l == {<<i, 0>> : i \in l \ {p[1] : p \in pairs}}
             lonely_r == {<<0, i>> : i \in r \ {p[2] : p \in pairs}}
         IN  pairs \cup lonely_l \cup (IF item.kind = "full" THEN lonely_r ELSE {})

FromBindings(rows, from) ==
    LET some == UNION {ItemBindings(rows, from[i]) : i \in DOMAIN from}
    IN  {b \in [DOMAIN from -> some] : \A i \in DOMAIN from : b[i] \in ItemBindings(rows, from[i])}

(****************************************************************************)
(* Columns and WHERE.                                                       *)
(****************************************************************************)
Tables(item) == IF item.kind = "table" THEN <<item.table>> ELSE <<item.l, item.r>>

\* Where a column is: item, side and position.
Place(from, ref) ==
    LET Has(i, side) ==
            /\ side \in DOMAIN Tables(from[i])
            /\ PositionOf(Tables(from[i])[side], ref.name) # 0
            /\ IF ref.alias = "" THEN from[i].kind = "table" /\ AliasOf(from[i]) = from[i].table
               ELSE AliasOf(from[i]) = ref.alias
        p == CHOOSE p \in (DOMAIN from) \X {1, 2} :
                Has(p[1], p[2]) /\ (p[2] = 1 \/ ~Has(p[1], 1))
        table == Tables(from[p[1]])[p[2]]
    IN  [item |-> p[1], side |-> p[2], table |-> table, pos |-> PositionOf(table, ref.name)]

ValueOf(rows, from, b, ref) ==
    LET p == Place(from, ref) IN ValueIn(rows, p.table, b[p.item][p.side], p.pos)

Operand(rows, from, b, o) ==
    IF o.kind = "constant" THEN o.value ELSE ValueOf(rows, from, b, o.ref)

Satisfies(rows, from, b, e) ==
    CASE e.kind = "compare" ->
            LET x == Operand(rows, from, b, e.lhs).v
                y == Operand(rows, from, b, e.rhs).v
            IN  \/ e.op \in {"==", "<=", ">="} /\ x = y
                \/ e.op \in {"<", "<=", "!="} /\ x < y
                \/ e.op \in {">", ">=", "!="} /\ x > y
      [] e.kind = "between" ->
            LET v == ValueOf(rows, from, b, e.ref).v IN e.lower.v <= v /\ v <= e.upper.v

Answer(rows, s) ==
    {b \in FromBindings(rows, s.from) :
        \A i \in DOMAIN s.where : Satisfies(rows, s.from, b, s.where[i])}

\* The row of the result that belongs to a binding.
StarRefs(s) ==
    LET cols == AllColumns(Context(s.from))
    IN  [i \in DOMAIN cols |-> [alias |-> cols[i].alias, name |-> cols[i].name]]
RowOf(rows, s, b) ==
    LET refs == IF s.columns = <<>> THEN StarRefs(s) ELSE s.columns
    IN  [i \in DOMAIN refs |-> ValueOf(rows, s.from, b, refs[i])]

\* result is the answer as a bag, or as much of it as LIMIT admits.
IsAnswer(result, rows, s) ==
    LET answer == Answer(rows, s)
        Wanted(r) == Cardinality({b \in answer : RowOf(rows, s, b) = r})
        Given(r) == Cardinality({i \in DOMAIN result : result[i] = r})
    IN  /\ \A r \in ToSet(result) : Given(r) <= Wanted(r)
        /\ Len(result) = IF s.limit < Cardinality(answer) THEN s.limit
                         ELSE Cardinality(answer)

(****************************************************************************)
(* UPDATE: the assignments see the values of the ones before them.          *)
(****************************************************************************)
\* The quotient whose remainder is smaller than y and has the sign of x.
Truncated(x, y) ==
    CHOOSE q \in MinInt..(-MinInt) : Abs(x - q * y) < Abs(y) /\ (x - q * y) * x >= 0

RECURSIVE SetValue(_, _, _)
SetValue(table, record, e) ==
    CASE e.kind = "ref" -> record[PositionOf(table, e.ref.name)].v
      [] e.kind = "constant" -> e.value.v
      [] e.kind = "chain" ->
            LET upto[i \in DOMAIN e.args] ==
                    LET x == SetValue(table, record, e.args[i])
                    IN  IF i = 1 THEN x
                        ELSE Wrapped(CASE e.ops[i - 1] = "+" -> upto[i - 1] + x
                                       [] e.ops[i - 1] = "-" -> upto[i - 1] - x
                                       [] e.ops[i - 1] = "*" -> upto[i - 1] * x
                                       [] e.ops[i - 1] = "/" -> Truncated(upto[i - 1], x)
                                       [] e.ops[i - 1] = "%" -> upto[i - 1] - x * Truncated(upto[i - 1], x))
            IN  upto[Len(e.args)]

UpdatedRow(s, record) ==
    LET step[n \in 0..Len(s.set)] ==
            IF n = 0 THEN record
            ELSE [step[n - 1] EXCEPT ![PositionOf(s.table, s.set[n].name)].v =
                    SetValue(s.table, step[n - 1], s.set[n].expr)]
    IN  step[Len(s.set)]

\* Does a slot satisfy the WHERE of an UPDATE?
SlotSatisfies(rows, s, i) ==
    \A k \in DOMAIN s.where :
        Satisfies(rows, <<TableItem(s.table)>>, <<<<i, 0>>>>, s.where[k])

(****************************************************************************)
(* The meaning of a logical plan: bindings of <<alias, table>> to slots.    *)
(****************************************************************************)
PlanOperand(rows, b, e) ==
    IF e.kind = "term" THEN e.value
    ELSE ValueIn(rows, e.column.table, b[<<e.column.alias, e.column.table>>],
                 PositionOf(e.column.table, e.column.name))

PlanHolds(rows, b, e) ==
    CASE e.kind = "between" ->
            LET v == PlanOperand(rows, b, e.child).v IN e.lower.v <= v /\ v <= e.upper.v
      [] e.kind = "like" -> PlanOperand(rows, b, e.child).v = e.pattern
      [] OTHER ->
            LET x == PlanOperand(rows, b, e.lhs).v
                y == PlanOperand(rows, b, e.rhs).v
            IN  \/ e.kind \in {"equals", "less_or_equals"} /\ x = y
                \/ e.kind \in {"less", "less_or_equals", "not_equals"} /\ x < y
                \/ e.kind = "not_equals" /\ x > y

PairsHold(rows, b, pairs) ==
    \A i \in DOMAIN pairs :
        PlanOperand(rows, b, ColumnExpr(pairs[i][1])) = PlanOperand(rows, b, ColumnExpr(pairs[i][2]))

\* The union of two functions, and all unions of the members of two sets.
Merged(f, g) == [x \in DOMAIN f \cup DOMAIN g |-> IF x \in DOMAIN f THEN f[x] ELSE g[x]]
Products(F, G) == {Merged(f, g) : f \in F, g \in G}

RECURSIVE PlanMeaning(_, _)
PlanMeaning(rows, p) ==
    CASE p.kind = "relation" ->
            {[x \in {<<p.alias, p.table>>} |-> i] : i \in Live(rows, p.table)}
      [] p.kind \in {"product", "join"} ->
            LET upto[i \in DOMAIN p.children] ==
                    IF i = 1 THEN PlanMeaning(rows, p.children[1])
                    ELSE Products(upto[i - 1], PlanMeaning(rows, p.children[i]))
            IN  {b \in upto[Len(p.children)] :
                    p.kind = "join" => PairsHold(rows, b, p.columns)}
      [] p.kind \in {"left", "full"} ->
            LET l == PlanMeaning(rows, p.lchild)
                r == PlanMeaning(rows, p.rchild)
                Pair(f, g) == PairsHold(rows, Merged(f, g), p.columns)
                Nulls(q) == {[x \in {<<q.alias, q.table>>} |-> 0]}
                Base(q) == IF q.kind = "selection" THEN q.child ELSE q
            IN  {b \in Products(l, r) : PairsHold(rows, b, p.columns)}
                \cup Products({f \in l : \A g \in r : ~Pair(f, g)}, Nulls(Base(p.rchild)))
                \cup (IF p.kind = "left" THEN {}
                      ELSE Products(Nulls(Base(p.lchild)), {g \in r : \A f \in l : ~Pair(f, g)}))
      [] p.kind = "selection" ->
            {b \in PlanMeaning(rows, p.child) :
                \A i \in DOMAIN p.expressions : PlanHolds(rows, b, p.expressions[i])}
      [] p.kind = "projection" -> PlanMeaning(rows, p.child)

(****************************************************************************)
(* The text of a statement, as a sequence of tokens <<type, text>>.         *)
(****************************************************************************)
Token(type) == <<<<type, type>>>>
Name(n) == <<<<"IDENTIFIER", n>>>>
Literal(v) == <<<<IF v = Thrown \/ v.type = "INT" THEN "INTEGER" ELSE "STRING", v>>>>
Joined(parts, separator) ==
    FlattenSeq([i \in DOMAIN parts |-> IF i = 1 THEN parts[i] ELSE Token(separator) \o parts[i]])

RefText(r) == IF r.alias = "" THEN Name(r.name) ELSE Name(r.alias) \o Token(".") \o Name(r.name)
OperandText(o) == IF o.kind = "ref" THEN RefText(o.ref) ELSE Literal(o.value)
ExprText(e) ==
    CASE e.kind = "compare" -> OperandText(e.lhs) \o Token(e.op) \o OperandText(e.rhs)
      [] e.kind = "like" -> RefText(e.ref) \o Token("LIKE") \o Literal(StrValue(e.pattern))
      [] e.kind = "between" -> RefText(e.ref) \o Token("BETWEEN") \o Literal(e.lower)
                                    \o Token("AND") \o Literal(e.upper)
WhereText(es) ==
    IF es = <<>> THEN <<>>
    ELSE Token("WHERE") \o Joined([i \in DOMAIN es |-> ExprText(es[i])], "AND")

ItemText(item) ==
    IF item.kind = "table"
    THEN Name(item.table) \o IF item.alias = "" THEN <<>> ELSE Token("AS") \o Name(item.alias)
    ELSE Token("(") \o Name(item.l) \o Token(IF item.kind = "left" THEN "LEFT" ELSE "FULL")
            \o Token("OUTER") \o Token("JOIN") \o Name(item.r) \o Token("ON")
            \o Joined([k \in DOMAIN item.on |->
                          RefText(item.on[k][1]) \o Token("==") \o RefText(item.on[k][2])], "AND")
            \o Token(")") \o Token("AS") \o Name(item.alias)

\* Operators of one chain share a level, so a chain in a chain is in brackets.
RECURSIVE SumText(_)
SumText(a) ==
    CASE a.kind = "chain" ->
            FlattenSeq([i \in DOMAIN a.args |->
                (IF i = 1 THEN <<>> ELSE Token(a.ops[i - 1]))
                    \o IF a.args[i].kind = "chain"
                       THEN Token("(") \o SumText(a.args[i]) \o Token(")") ELSE SumText(a.args[i])])
      [] a.kind = "minus" -> Token("-") \o SumText(a.arg)
      [] a.kind = "empty" -> <<>>
      [] OTHER -> OperandText(a)

StatementText(s) ==
    CASE s.kind = "select" ->
            Token("SELECT") \o (IF s.distinct THEN Token("DISTINCT") ELSE <<>>)
                \o (IF s.columns = <<>> THEN Token("*")
                    ELSE Joined([i \in DOMAIN s.columns |-> RefText(s.columns[i])], ","))
                \o Token("FROM") \o Joined([i \in DOMAIN s.from |-> ItemText(s.from[i])], ",")
                \o WhereText(s.where)
                \o IF s.limit = NoLimit THEN <<>> ELSE Token("LIMIT") \o Literal(IntValue(s.limit))
      [] s.kind = "update" ->
            Token("UPDATE") \o Name(s.table) \o Token("SET")
                \o Joined([i \in DOMAIN s.set |->
                              Name(s.set[i].name) \o Token("=") \o SumText(s.set[i].expr)], ",")
                \o WhereText(s.where)
      [] s.kind = "delete" -> Token("DELETE") \o Token("FROM") \o Name(s.table) \o WhereText(s.where)
      [] s.kind = "insert" ->
            Token("INSERT") \o Token("INTO") \o Name(s.table) \o Token("VALUES") \o Token("(")
                \o Joined([i \in DOMAIN s.values |-> Literal(s.values[i])], ",") \o Token(")")
      [] s.kind = "create" ->
            Token("CREATE") \o Token("TABLE") \o Name(s.table) \o Token("(")
                \o Joined([i \in DOMAIN s.columns |->
                              Name(s.columns[i].name) \o Token(s.columns[i].type)], ",") \o Token(")")
================================================================================
