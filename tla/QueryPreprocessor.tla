--------------------------- MODULE QueryPreprocessor ---------------------------
(****************************************************************************)
(* query/parser/query_preprocessor: the visitor that turns the parse tree   *)
(* of a statement into a logical plan, or throws a QueryException.          *)
(*                                                                          *)
(* The parse tree is a record whose field kind names the rule.  Throwing    *)
(* has no effect but the error reply, so the checks of a visit method are   *)
(* the conjuncts of an operator ...Accepts, in the order of the code, and   *)
(* what it builds is another operator, defined where the checks hold.       *)
(****************************************************************************)
EXTENDS QueryPlan

CONSTANT NameOrder  \* the names of a model, in the order of std::string

NoLimit == 99       \* INT64_MAX: more rows than any model has
NoColumn == Column("", "", [name |-> "", type |-> "INVALID"])

\* get_constant.  A literal too long for a STR or too large for an INT is Thrown.
ConstantAccepts(c) == c # Thrown

(****************************************************************************)
(* FROM.  ctx holds the two maps from_tables and from_outer_join_tables.    *)
(****************************************************************************)
AliasOf(item) == IF item.alias = "" THEN item.table ELSE item.alias
Context(items) ==
    LET Of(kinds) == {i \in DOMAIN items : items[i].kind \in kinds}
    IN  [tables |-> [a \in {AliasOf(items[i]) : i \in Of({"table"})} |->
                        (CHOOSE x \in ToSet(items) :
                            x.kind = "table" /\ AliasOf(x) = a).table],
         outer |-> [a \in {items[i].alias : i \in Of({"left", "full"})} |->
                        LET x == CHOOSE x \in ToSet(items) :
                                    x.kind # "table" /\ x.alias = a
                        IN  <<x.l, x.r>>]]

\* The ColumnInfo of a name in a table; the last one if the name is repeated.
InfoOf(table, name) ==
    LET i == SelectLastInSeq(TableColumns(table), LAMBDA c : c.name = name)
    IN  IF i = 0 THEN [name |-> name, type |-> "INVALID"] ELSE TableColumns(table)[i]

TableHasColumn(table, name) == \E c \in ToSet(TableColumns(table)) : c.name = name

\* get_outer_join_table_column: a column of ON, which names its table.
OnColumn(alias, ref) == Column(alias, ref.alias, InfoOf(ref.alias, ref.name))
OnAccepts(alias, on) ==
    /\ \A side \in {1, 2} :
        on[side].alias # "" /\ TableHasColumn(on[side].alias, on[side].name)
    /\ OnColumn(alias, on[1]).type = OnColumn(alias, on[2]).type

\* The table a column of ON names is looked up without a test for nullptr.
OnCrashes(items) ==
    \E i \in DOMAIN items :
        items[i].kind # "table" /\ \E k \in DOMAIN items[i].on, side \in {1, 2} :
            items[i].on[k][side].alias # "" /\ ~TableExists(items[i].on[k][side].alias)

\* visitTable, visitLeftOuterJoin and visitFullOuterJoin.
ItemAccepts(item) ==
    IF item.kind = "table" THEN TableExists(item.table)
    ELSE /\ TableExists(item.l) /\ TableExists(item.r)
         /\ \A i \in DOMAIN item.on : OnAccepts(item.alias, item.on[i])

\* Within each of the two maps an alias appears once; nothing compares the maps.
FromAccepts(items) ==
    /\ \A i \in DOMAIN items : ItemAccepts(items[i])
    /\ \A i, j \in DOMAIN items :
        i < j /\ (items[i].kind = "table") = (items[j].kind = "table")
            => AliasOf(items[i]) # AliasOf(items[j])

ItemPlan(item) ==
    IF item.kind = "table" THEN RelationPlan(AliasOf(item), item.table)
    ELSE OuterJoinPlan(item.kind, item.alias, RelationPlan(item.alias, item.l),
                       RelationPlan(item.alias, item.r),
                       [i \in DOMAIN item.on |->
                            <<OnColumn(item.alias, item.on[i][1]),
                              OnColumn(item.alias, item.on[i][2])>>])

\* visitTableList.
FromPlan(items) ==
    IF Len(items) = 1 THEN ItemPlan(items[1])
    ELSE CartesianProductPlan([i \in DOMAIN items |-> ItemPlan(items[i])])

(****************************************************************************)
(* Columns of SELECT, WHERE and SET.                                        *)
(****************************************************************************)

\* get_column with an alias: the tables of an outer join in their order, then
\* the tables of FROM, whose columns are not checked to exist.
QualifiedColumn(ctx, ref) ==
    IF ref.alias \in DOMAIN ctx.outer
    THEN LET i == SelectInSeq(ctx.outer[ref.alias], LAMBDA t : TableHasColumn(t, ref.name))
         IN  IF i = 0 THEN NoColumn
             ELSE Column(ref.alias, ctx.outer[ref.alias][i],
                         InfoOf(ctx.outer[ref.alias][i], ref.name))
    ELSE IF ref.alias \in DOMAIN ctx.tables
    THEN Column(ref.alias, ctx.tables[ref.alias],
                InfoOf(ctx.tables[ref.alias], ref.name))
    ELSE NoColumn

\* get_column without one: a table of FROM that has no alias, and only one.
InferredColumn(ctx, ref) ==
    LET found == {p \in (DOMAIN ctx.tables) \X (1..10) :
                    /\ ctx.tables[p[1]] = p[1]
                    /\ p[2] \in DOMAIN TableColumns(p[1])
                    /\ TableColumns(p[1])[p[2]].name = ref.name}
    IN  IF Cardinality(found) # 1 THEN NoColumn
        ELSE LET t == (CHOOSE p \in found : TRUE)[1] IN Column(t, t, InfoOf(t, ref.name))

GetColumn(ctx, ref) ==
    IF ref.alias # "" THEN QualifiedColumn(ctx, ref) ELSE InferredColumn(ctx, ref)
ColumnAccepts(ctx, ref) == GetColumn(ctx, ref) # NoColumn

(****************************************************************************)
(* WHERE.                                                                   *)
(****************************************************************************)

\* visitColumnOrConstant.
OperandAccepts(ctx, o) ==
    IF o.kind = "ref" THEN ColumnAccepts(ctx, o.ref) ELSE ConstantAccepts(o.value)
OperandPlan(ctx, o) ==
    IF o.kind = "ref" THEN ColumnExpr(GetColumn(ctx, o.ref)) ELSE TermExpr(o.value)

\* visitComparisonExpr, visitLikeExpr and visitBetweenExpr.
SimpleExprAccepts(ctx, e) ==
    CASE e.kind = "compare" ->
            /\ OperandAccepts(ctx, e.lhs)
            /\ OperandAccepts(ctx, e.rhs)
            /\ GetDatatype(OperandPlan(ctx, e.lhs)) = GetDatatype(OperandPlan(ctx, e.rhs))
      [] e.kind = "like" ->
            ColumnAccepts(ctx, e.ref) /\ GetColumn(ctx, e.ref).type = "STR"
      [] e.kind = "between" ->
            /\ ColumnAccepts(ctx, e.ref)
            /\ ConstantAccepts(e.lower) /\ ConstantAccepts(e.upper)
            /\ e.lower.type = e.upper.type
            /\ e.lower.type = GetColumn(ctx, e.ref).type

ComparisonPlan(op, l, r) ==
    CASE op = "==" -> BinaryExpr("equals", l, r)
      [] op = "!=" -> BinaryExpr("not_equals", l, r)
      [] op = "<"  -> BinaryExpr("less", l, r)
      [] op = "<=" -> BinaryExpr("less_or_equals", l, r)
      [] op = ">=" -> BinaryExpr("less_or_equals", r, l)
      [] op = ">"  -> BinaryExpr("less", r, l)

SimpleExprPlan(ctx, e) ==
    CASE e.kind = "compare" ->
            ComparisonPlan(e.op, OperandPlan(ctx, e.lhs), OperandPlan(ctx, e.rhs))
      [] e.kind = "like" -> LikeExpr(GetColumn(ctx, e.ref), e.pattern)
      [] e.kind = "between" -> BetweenExpr(GetColumn(ctx, e.ref), e.lower, e.upper)

WhereAccepts(ctx, es) == \A i \in DOMAIN es : SimpleExprAccepts(ctx, es[i])

\* visitAndExpr; <<>> stands for no WHERE.
WherePlan(ctx, es, child) ==
    IF es = <<>> THEN child
    ELSE SelectionPlan(child, [i \in DOMAIN es |-> SimpleExprPlan(ctx, es[i])])

(****************************************************************************)
(* SET.  visitAdditiveExpr and visitMultiplicativeExpr build the same left- *)
(* deep tree from their operands; the grammar lets an operand be empty, and *)
(* then current_expr is what the last std::move left, a null pointer.       *)
(****************************************************************************)
RECURSIVE AssignmentAccepts(_, _)
AssignmentAccepts(ctx, a) ==
    CASE a.kind = "chain" -> \A i \in DOMAIN a.args : AssignmentAccepts(ctx, a.args[i])
      [] a.kind \in {"plus", "minus"} -> AssignmentAccepts(ctx, a.arg)
      [] a.kind = "empty" -> TRUE
      [] OTHER -> OperandAccepts(ctx, a)

RECURSIVE AssignmentPlan(_, _)
AssignmentPlan(ctx, a) ==
    CASE a.kind = "chain" ->
            LET arg == [i \in DOMAIN a.args |-> AssignmentPlan(ctx, a.args[i])]
                upto[i \in DOMAIN arg] ==
                    IF i = 1 THEN arg[1]
                    ELSE ArithmeticExpr(upto[i - 1], a.ops[i - 1], arg[i])
            IN  upto[Len(arg)]
      [] a.kind = "minus" -> ArithmeticExpr(NoExpr, "-", AssignmentPlan(ctx, a.arg))
      [] a.kind = "plus" -> AssignmentPlan(ctx, a.arg)
      [] a.kind = "empty" -> NoExpr
      [] OTHER -> OperandPlan(ctx, a)

(****************************************************************************)
(* Statements.                                                              *)
(****************************************************************************)

\* The columns of *: by alias, tables first, and with the RIDs of outer joins.
AllColumns(ctx) ==
    LET Of(alias, table) ==
            [i \in DOMAIN TableColumns(table) |-> Column(alias, table, TableColumns(table)[i])]
        OfTable(alias) ==
            SelectSeq(Of(alias, ctx.tables[alias]), LAMBDA c : c.type # "RID")
        OfOuter(alias) ==
            Of(alias, ctx.outer[alias][1]) \o Of(alias, ctx.outer[alias][2])
        InOrder(names) == SelectSeq(NameOrder, LAMBDA a : a \in names)
        tables == InOrder(DOMAIN ctx.tables)
        outer == InOrder(DOMAIN ctx.outer)
    IN  FlattenSeq([i \in DOMAIN tables |-> OfTable(tables[i])])
            \o FlattenSeq([i \in DOMAIN outer |-> OfOuter(outer[i])])

\* visitSelectStatement; <<>> stands for *.
SelectColumns(ctx, refs) ==
    IF refs = <<>> THEN AllColumns(ctx)
    ELSE [i \in DOMAIN refs |-> GetColumn(ctx, refs[i])]

SelectAccepts(s) ==
    /\ s.limit > 0
    /\ FromAccepts(s.from)
    /\ WhereAccepts(Context(s.from), s.where)
    /\ \A i \in DOMAIN s.columns : ColumnAccepts(Context(s.from), s.columns[i])

\* visitSelectQuery.
SelectPlan(s) ==
    LET ctx == Context(s.from)
    IN  ProjectionPlan(WherePlan(ctx, s.where, FromPlan(s.from)), s.distinct, s.limit,
                       SelectColumns(ctx, s.columns))

\* UPDATE and DELETE name one table, without an alias.
TableItem(table) == [kind |-> "table", table |-> table, alias |-> ""]

UpdateAccepts(s) ==
    LET ctx == Context(<<TableItem(s.table)>>)
    IN  /\ TableExists(s.table)
        /\ \A i \in DOMAIN s.set :
            /\ TableHasColumn(s.table, s.set[i].name)
            /\ AssignmentAccepts(ctx, s.set[i].expr)
        /\ WhereAccepts(ctx, s.where)

\* visitUpdateQuery: an assignment keeps the position of its column.
UpdateQueryPlan(s) ==
    LET ctx == Context(<<TableItem(s.table)>>)
        Position(name) == SelectInSeq(TableColumns(s.table), LAMBDA c : c.name = name)
    IN  UpdatePlan(Normalize[s.table],
                   [i \in DOMAIN s.set |->
                        <<Position(s.set[i].name), AssignmentPlan(ctx, s.set[i].expr)>>],
                   WherePlan(ctx, s.where, RelationPlan(s.table, s.table)))

DeleteAccepts(s) ==
    TableExists(s.table) /\ WhereAccepts(Context(<<TableItem(s.table)>>), s.where)

\* visitDeleteQuery.
DeleteQueryPlan(s) ==
    DeletionPlan(Normalize[s.table],
                 WherePlan(Context(<<TableItem(s.table)>>), s.where,
                           RelationPlan(s.table, s.table)))

\* visitInsertQuery.
InsertAccepts(s) ==
    /\ TableExists(s.table)
    /\ Len(TableColumns(s.table)) - 1 = Len(s.values)
    /\ \A i \in DOMAIN s.values :
        ConstantAccepts(s.values[i]) /\ s.values[i].type = TableColumns(s.table)[i].type

\* visitCreateQuery: neither the name nor repeated columns are looked at here.
CreateAccepts(s) == ~TableExists(s.table)

Accepts(s) ==
    CASE s.kind = "select" -> SelectAccepts(s)
      [] s.kind = "update" -> UpdateAccepts(s)
      [] s.kind = "delete" -> DeleteAccepts(s)
      [] s.kind = "insert" -> InsertAccepts(s)
      [] s.kind = "create" -> CreateAccepts(s)

\* visitComparisonExpr visits the second operand, which the grammar lets be absent.
WhereCrashes(ctx, es) ==
    \E i \in DOMAIN es :
        /\ es[i].kind = "compare" /\ es[i].op = ""
        /\ OperandAccepts(ctx, es[i].lhs)
        /\ WhereAccepts(ctx, SubSeq(es, 1, i - 1))

\* Null pointers that the visit follows.
PreprocessorCrashes(s) ==
    CASE s.kind = "select" ->
            /\ s.limit > 0
            /\ \/ OnCrashes(s.from)
               \/ FromAccepts(s.from) /\ WhereCrashes(Context(s.from), s.where)
      [] s.kind = "update" ->
            UpdateAccepts([s EXCEPT !.where = <<>>])
                /\ WhereCrashes(Context(<<TableItem(s.table)>>), s.where)
      [] s.kind = "delete" ->
            TableExists(s.table) /\ WhereCrashes(Context(<<TableItem(s.table)>>), s.where)
      [] OTHER -> FALSE

\* QueryPreprocessor::do_visit.
Preprocess(s) ==
    CASE s.kind = "select" -> SelectPlan(s)
      [] s.kind = "update" -> UpdateQueryPlan(s)
      [] s.kind = "delete" -> DeleteQueryPlan(s)
      [] s.kind = "insert" -> InsertionPlan(s.table, s.values)
      [] s.kind = "create" -> CreationPlan(s.table, s.columns)
================================================================================
