------------------------------- MODULE QueryPlan -------------------------------
(****************************************************************************)
(* relational_model/{value,schema,record} and                               *)
(* query/parser/logical_plan: values, columns, the expressions of WHERE and *)
(* SET, and the logical plans that the visitors of the query layer rewrite. *)
(*                                                                          *)
(* A plan and an expression are trees of records whose field kind names the *)
(* class.  clone and the accept_visitor double dispatch have no counterpart *)
(* here: TLA+ values are not shared, and an operator chooses by kind.       *)
(* Strings are abstracted to numbers that keep their order.                 *)
(****************************************************************************)
EXTENDS Integers, Sequences, FiniteSets, SequencesExt

CONSTANTS
    Schemas,    \* table name, as the catalog keeps it |-> its ColumnInfos
    Normalize,  \* name as a statement writes it |-> name in the catalog
    INT_BITS    \* width of an INT; 64 in the code

ASSUME IntBitsAssumption == INT_BITS \in Nat \ {0}
ASSUME SchemasAssumption ==
    \* create_table appends the implicit RID column.
    \A t \in DOMAIN Schemas : Last(Schemas[t]) = [name |-> "RID", type |-> "RID"]

(****************************************************************************)
(* Values.                                                                  *)
(****************************************************************************)
IntValue(n) == [type |-> "INT", v |-> n]
StrValue(n) == [type |-> "STR", v |-> n]
RidValue(n) == [type |-> "RID", v |-> n]

\* What an expression gives that throws a QueryException, that ends the process
\* (a failed assertion, a division that traps), and whose behaviour is undefined
\* (a read past the end of a vector, a function that ends without a return).
Thrown == [type |-> "THROWN", v |-> 0]
Asserted == [type |-> "ASSERTED", v |-> 0]
Undefined == [type |-> "UNDEFINED", v |-> 0]

Failures == {Thrown, Asserted, Undefined}

\* Value::operator<, on variant<string, int64_t, RID>: first the alternative.
Rank == [STR |-> 0, INT |-> 1, RID |-> 2, THROWN |-> 3, ASSERTED |-> 3, UNDEFINED |-> 3]

ValueLess(a, b) ==
    \/ Rank[a.type] < Rank[b.type]
    \/ a.type = b.type /\ a.v < b.v

\* Comparisons give an int: there are no booleans.
Truth(b) == IntValue(IF b THEN 1 ELSE 0)

\* Two's complement: what the builds make of an overflow.
MinInt == -(2 ^ (INT_BITS - 1))
Wrapped(n) == ((n - MinInt) % (2 ^ INT_BITS)) + MinInt

\* C++ division truncates towards zero, and the remainder follows it.
Abs(n) == IF n < 0 THEN -n ELSE n
Quotient(a, b) ==
    LET q == Abs(a) \div Abs(b) IN IF (a < 0) = (b < 0) THEN q ELSE -q

\* The operators + - * / % of Value, after ExprArithmetic::eval has evaluated lhs
\* and rhs.  The quotient of MinInt by -1 is no INT: the instruction traps.
Arithmetic(a, op, b) ==
    IF a \in Failures THEN a
    ELSE IF b \in Failures THEN b
    ELSE IF a.type # "INT" \/ b.type # "INT" \/ (op \in {"/", "%"} /\ b.v = 0) THEN Thrown
    ELSE IF op \in {"/", "%"} /\ a.v = MinInt /\ b.v = -1 THEN Asserted
    ELSE IntValue(Wrapped(CASE op = "+" -> a.v + b.v
                            [] op = "-" -> a.v - b.v
                            [] op = "*" -> a.v * b.v
                            [] op = "/" -> Quotient(a.v, b.v)
                            [] op = "%" -> a.v - b.v * Quotient(a.v, b.v)))

(****************************************************************************)
(* Columns.  Two of them are equal when alias and name are.                 *)
(****************************************************************************)
Column(alias, table, info) ==
    [alias |-> alias, table |-> table, name |-> info.name, type |-> info.type]
SameColumn(c, d) == c.alias = d.alias /\ c.name = d.name
Key(c) == <<c.alias, c.name>>

(****************************************************************************)
(* Expressions.                                                             *)
(****************************************************************************)
ColumnExpr(c) == [kind |-> "column", column |-> c]
TermExpr(v) == [kind |-> "term", value |-> v]
BinaryExpr(kind, lhs, rhs) == [kind |-> kind, lhs |-> lhs, rhs |-> rhs]
BetweenExpr(c, lo, hi) ==
    [kind |-> "between", child |-> ColumnExpr(c), lower |-> lo, upper |-> hi]
LikeExpr(c, pattern) ==
    [kind |-> "like", child |-> ColumnExpr(c), pattern |-> pattern]
ArithmeticExpr(lhs, op, rhs) ==
    [kind |-> "arithmetic", lhs |-> lhs, op |-> op, rhs |-> rhs]
NoExpr == [kind |-> "nullptr"]

\* ExprPlan::get_columns.
RECURSIVE GetColumns(_)
GetColumns(e) ==
    CASE e.kind = "column" -> {e.column}
      [] e.kind = "term" -> {}
      [] e.kind \in {"between", "like"} -> GetColumns(e.child)
      [] e.kind \in {"equals", "not_equals", "less", "less_or_equals", "arithmetic"} ->
            GetColumns(e.lhs) \cup GetColumns(e.rhs)

\* ExprPlan::get_datatype of a column or a term, the operands of a comparison.
GetDatatype(e) == IF e.kind = "column" THEN e.column.type ELSE e.value.type

(****************************************************************************)
(* Logical plans.                                                           *)
(****************************************************************************)
RelationPlan(alias, table) == [kind |-> "relation", alias |-> alias, table |-> table]
CartesianProductPlan(children) == [kind |-> "product", children |-> children]
JoinPlan(children, eqs) == [kind |-> "join", children |-> children, columns |-> eqs]
\* kind is "left" (LeftOuterJoinPlan) or "full" (FullOuterJoinPlan).
OuterJoinPlan(kind, alias, l, r, eqs) ==
    [kind |-> kind, alias |-> alias, lchild |-> l, rchild |-> r, columns |-> eqs]
SelectionPlan(child, es) == [kind |-> "selection", child |-> child, expressions |-> es]
ProjectionPlan(child, distinct, limit, cols) ==
    [kind |-> "projection", child |-> child, distinct |-> distinct, limit |-> limit,
     columns |-> cols]
UpdatePlan(table, values, child) ==
    [kind |-> "update", table |-> table, values |-> values, child |-> child]
DeletionPlan(table, child) == [kind |-> "deletion", table |-> table, child |-> child]
InsertionPlan(table, values) == [kind |-> "insertion", table |-> table, values |-> values]
CreationPlan(table, schema) == [kind |-> "creation", table |-> table, schema |-> schema]

\* LogicalPlan::is_action: the plans that are not rewritten.
IsAction(plan) == plan.kind \in {"update", "deletion", "insertion", "creation"}
NoPlan == [kind |-> "none"]

\* The ColumnInfos of a table as the statement names it.
TableColumns(table) == Schemas[Normalize[table]]
TableExists(table) == Normalize[table] \in DOMAIN Schemas
================================================================================
