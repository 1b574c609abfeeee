------------------------------- MODULE Optimizer -------------------------------
(****************************************************************************)
(* query/optimizer: the visitor that turns a logical plan into a tree of    *)
(* iterators, and the iterators' constructors and get_columns.              *)
(*                                                                          *)
(* column_usage counts uses up on the way down and down again on the way    *)
(* up, so the counts a visit sees are those of its ancestors: here the set  *)
(* used of the keys counted above zero.  A failed assertion and an access   *)
(* past the end of a vector are iterators of their own, anywhere in the     *)
(* tree; Kinds looks for them.                                              *)
(****************************************************************************)
EXTENDS QueryRewriter

AssertionFails == [kind |-> "assertion"]
OutOfRange == [kind |-> "undefined"]

(****************************************************************************)
(* get_columns.                                                             *)
(****************************************************************************)
ColumnsOf(projected) == [i \in DOMAIN projected |-> projected[i].col]

RECURSIVE IterColumns(_)
IterColumns(it) ==
    CASE it.kind = "relation" -> ColumnsOf(it.projected)
      [] it.kind \in {"product", "join", "left", "full"} ->
            ColumnsOf(it.projected_lhs) \o ColumnsOf(it.projected_rhs)
      [] it.kind \in {"selection", "update", "deletion"} -> IterColumns(it.child)
      [] it.kind = "projection" -> it.columns
      [] OTHER -> <<>>

\* The loops that fill a projected_..._columns of a binary iterator.
Projected(columns, used) ==
    LET keep == SelectSeq([i \in DOMAIN columns |-> i], LAMBDA i : Key(columns[i]) \in used)
    IN  [k \in DOMAIN keep |-> [pos |-> keep[k], col |-> columns[keep[k]]]]

(****************************************************************************)
(* ExprOptimizer: a column becomes its position in the child's get_columns. *)
(****************************************************************************)
RECURSIVE Resolve(_, _)
Resolve(e, columns) ==
    CASE e.kind = "column" ->
            LET i == SelectInSeq(columns, LAMBDA c : SameColumn(c, e.column))
            IN  IF i = 0 THEN AssertionFails ELSE [kind |-> "at", index |-> i]
      [] e.kind = "term" -> e
      [] e.kind = "nullptr" -> AssertionFails
      [] e.kind \in {"between", "like"} -> [e EXCEPT !.child = Resolve(@, columns)]
      [] OTHER -> [e EXCEPT !.lhs = Resolve(@, columns), !.rhs = Resolve(@, columns)]

RECURSIVE ExprKinds(_)
ExprKinds(e) ==
    {e.kind} \cup
    CASE e.kind \in {"between", "like"} -> ExprKinds(e.child)
      [] e.kind \in {"equals", "not_equals", "less", "less_or_equals", "arithmetic"} ->
            ExprKinds(e.lhs) \cup ExprKinds(e.rhs)
      [] OTHER -> {}

(****************************************************************************)
(* The constructors.                                                        *)
(****************************************************************************)

\* The values that stand for NULL, one for each projected column that has one.
NullsOf(projected) ==
    LET cols == SelectSeq(ColumnsOf(projected), LAMBDA c : c.type \in {"INT", "STR"})
    IN  [i \in DOMAIN cols |-> [type |-> cols[i].type, v |-> -1]]

\* CartesianProduct, Join, LeftOuterJoin and FullOuterJoin differ in next.
BinaryIter(kind, lhs, rhs, used, eqs) ==
    LET l == Projected(IterColumns(lhs), used)
        r == Projected(IterColumns(rhs), used)
    IN  [kind |-> kind, lhs |-> lhs, rhs |-> rhs, projected_lhs |-> l,
         projected_rhs |-> r, equalities |-> eqs, lhs_null |-> NullsOf(l),
         rhs_null |-> NullsOf(r), valid_lhs |-> FALSE, current_lhs |-> <<>>,
         outer_match |-> FALSE, valid_rhs |-> FALSE, rhs_index |-> 0, matched_rhs |-> <<>>]

\* HeapFileIter is at the record before the first one.
RelationIter(plan, used) ==
    LET columns == [i \in DOMAIN TableColumns(plan.table) |->
                        Column(plan.alias, plan.table, TableColumns(plan.table)[i])]
        keep == SelectSeq([i \in DOMAIN columns |-> i],
                          LAMBDA i : Key(columns[i]) \in used \/ i = Len(columns))
    IN  [kind |-> "relation", table |-> plan.table, current |-> 0, ended |-> FALSE,
         projected |-> [k \in DOMAIN keep |-> [pos |-> keep[k], col |-> columns[keep[k]]]]]

(****************************************************************************)
(* Equalities.  Join finds its columns by alias and name, the outer joins   *)
(* by name and type; each first looks whether the pair is written the other *)
(* way round.  A pair that is not found on both sides is skipped.           *)
(****************************************************************************)
Equalities(pairs, lcols, rcols, Swapped(_), Same(_, _)) ==
    LET Pos(cols, c) == SelectInSeq(cols, LAMBDA x : Same(x, c))
        At(p) == IF Swapped(p) THEN <<Pos(lcols, p[2]), Pos(rcols, p[1])>>
                 ELSE <<Pos(lcols, p[1]), Pos(rcols, p[2])>>
        all == IF lcols = <<>> \/ rcols = <<>> THEN <<>>
               ELSE [i \in DOMAIN pairs |-> At(pairs[i])]
    IN  SelectSeq(all, LAMBDA q : q[1] # 0 /\ q[2] # 0)

JoinEqualities(pairs, lcols, rcols) ==
    Equalities(pairs, lcols, rcols, LAMBDA p : p[1].alias = rcols[1].alias, SameColumn)

SameInfo(c, d) == c.name = d.name /\ c.type = d.type
OuterJoinEqualities(pairs, lcols, rcols) ==
    Equalities(pairs, lcols, rcols, LAMBDA p : p[1].table = rcols[1].table, SameInfo)

\* The body of beam_search_join_order is left open (TODO: LAB5 Problem 2): it
\* returns the order of the empty path, for rank = <<>>.  join_order.h promises an
\* order of the children: the one of rank, an order of all the aliases.
BeamSearchJoinOrder(children, rank) ==
    LET AliasOfChild(c) == IF c.kind = "selection" THEN c.child.alias ELSE c.alias
        Index(a) == SelectInSeq(children, LAMBDA c : AliasOfChild(c) = a)
    IN  SelectSeq([i \in DOMAIN rank |-> Index(rank[i])], LAMBDA i : i # 0)

PairKeys(pairs) == UNION {{Key(pairs[i][1]), Key(pairs[i][2])} : i \in DOMAIN pairs}

(****************************************************************************)
(* The visit methods.                                                       *)
(****************************************************************************)
RECURSIVE Optimize(_, _, _)

OptimizeProduct(children, used, rank) ==
    LET upto[i \in DOMAIN children] ==
            IF i = 1 THEN Optimize(children[1], used, rank)
            ELSE BinaryIter("product", upto[i - 1], Optimize(children[i], used, rank),
                            used, <<>>)
    IN  upto[Len(children)]

OptimizeJoin(join, used, rank) ==
    LET order == BeamSearchJoinOrder(join.children, rank)
        all == used \cup PairKeys(join.columns)
        upto[i \in DOMAIN order] ==
            LET child == Optimize(join.children[order[i]], all, rank)
                eqs == JoinEqualities(join.columns, IterColumns(upto[i - 1]),
                                      IterColumns(child))
            IN  IF i = 1 THEN child
                ELSE BinaryIter(IF eqs = <<>> THEN "product" ELSE "join",
                                upto[i - 1], child, all, eqs)
    IN  IF order = <<>> THEN OutOfRange ELSE upto[Len(order)]

OptimizeOuterJoin(join, used, rank) ==
    LET all == used \cup PairKeys(join.columns)
        l == Optimize(join.lchild, all, rank)
        r == Optimize(join.rchild, all, rank)
        eqs == OuterJoinEqualities(join.columns, IterColumns(l), IterColumns(r))
    IN  IF eqs = <<>> THEN AssertionFails ELSE BinaryIter(join.kind, l, r, all, eqs)

OptimizeSelection(selection, used, rank) ==
    LET es == selection.expressions
        all == used \cup UNION {{Key(c) : c \in GetColumns(es[i])} : i \in DOMAIN es}
        child == Optimize(selection.child, all, rank)
    IN  IF es = <<>> THEN child
        ELSE [kind |-> "selection", child |-> child,
              expressions |-> [i \in DOMAIN es |-> Resolve(es[i], IterColumns(child))]]

OptimizeProjection(plan, rank) ==
    [kind |-> "projection", columns |-> plan.columns, limit |-> plan.limit, result_count |-> 0,
     child |-> Optimize(plan.child, {Key(plan.columns[i]) : i \in DOMAIN plan.columns}, rank)]

\* UPDATE and DELETE use every column, under the table's name in the catalog.
AllColumnsUsed(table) == {<<table, Schemas[table][i].name>> : i \in DOMAIN Schemas[table]}

OptimizeUpdate(plan, rank) ==
    LET child == Optimize(plan.child, AllColumnsUsed(plan.table), rank)
    IN  [kind |-> "update", child |-> child,
         assignments |-> [i \in DOMAIN plan.values |->
            <<plan.values[i][1], Resolve(plan.values[i][2], IterColumns(child))>>]]

OptimizeDeletion(plan, rank) ==
    [kind |-> "deletion", child |-> Optimize(plan.child, AllColumnsUsed(plan.table), rank)]

\* create_physical_plan.
Optimize(plan, used, rank) ==
    CASE plan.kind = "relation" -> RelationIter(plan, used)
      [] plan.kind = "product" -> OptimizeProduct(plan.children, used, rank)
      [] plan.kind = "join" -> OptimizeJoin(plan, used, rank)
      [] plan.kind \in {"left", "full"} -> OptimizeOuterJoin(plan, used, rank)
      [] plan.kind = "selection" -> OptimizeSelection(plan, used, rank)
      [] plan.kind = "projection" -> OptimizeProjection(plan, rank)
      [] plan.kind = "update" -> OptimizeUpdate(plan, rank)
      [] plan.kind = "deletion" -> OptimizeDeletion(plan, rank)
      [] OTHER -> plan

\* visit(ProjectionPlan) throws NotImplementedException.
OptimizerThrows(plan) == plan.kind = "projection" /\ plan.distinct

\* The kinds of iterator and expression in a tree.
RECURSIVE Kinds(_)
Kinds(it) ==
    {it.kind} \cup
    CASE it.kind \in {"product", "join", "left", "full"} -> Kinds(it.lhs) \cup Kinds(it.rhs)
      [] it.kind = "selection" ->
            Kinds(it.child) \cup UNION {ExprKinds(it.expressions[i]) : i \in DOMAIN it.expressions}
      [] it.kind = "update" ->
            Kinds(it.child) \cup UNION {ExprKinds(it.assignments[i][2]) : i \in DOMAIN it.assignments}
      [] it.kind \in {"projection", "deletion"} -> Kinds(it.child)
      [] OTHER -> {}
================================================================================
