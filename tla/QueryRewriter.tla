----------------------------- MODULE QueryRewriter -----------------------------
(****************************************************************************)
(* query/parser/query_rewriter: BuildJoins collects the equalities of two   *)
(* columns and groups the tables they connect; PushSelection moves the      *)
(* predicates on one table down to it.  Both rewrite SELECT only.           *)
(****************************************************************************)
EXTENDS QueryPreprocessor

(****************************************************************************)
(* BuildJoins.                                                              *)
(****************************************************************************)
IsColumnEquality(e) ==
    e.kind = "equals" /\ e.lhs.kind = "column" /\ e.rhs.kind = "column"

\* The loop over pending_aliases: the aliases connected to one by equalities.
Connected(alias, eqs) ==
    LET Linked(s) == UNION {IF eqs[i][1].alias \in s \/ eqs[i][2].alias \in s
                            THEN {eqs[i][1].alias, eqs[i][2].alias} ELSE {} :
                                i \in DOMAIN eqs}
        reached[n \in 0..Len(eqs)] ==
            IF n = 0 THEN {alias} ELSE reached[n - 1] \cup Linked(reached[n - 1])
    IN  reached[Len(eqs)]

JoinColumns(aliases, eqs) ==
    SelectSeq(eqs, LAMBDA eq : eq[1].alias \in aliases \/ eq[2].alias \in aliases)

\* The groups of a product, in the order of their first table.
Groups(children, eqs) ==
    LET Group(i) == Connected(children[i].alias, eqs)
        firsts == SelectSeq([i \in DOMAIN children |-> i],
                            LAMBDA i : \A j \in 1..(i - 1) :
                                children[i].alias \notin Group(j))
        Plan(i) ==
            LET members == SelectSeq(children, LAMBDA c : c.alias \in Group(i))
            IN  IF Len(members) > 1 THEN JoinPlan(members, JoinColumns(Group(i), eqs))
                ELSE members[1]
    IN  [k \in DOMAIN firsts |-> Plan(firsts[k])]

BuildJoinsChild(plan, eqs) ==
    IF plan.kind # "product" THEN plan
    ELSE LET groups == Groups(plan.children, eqs)
         IN  IF Len(groups) > 1 THEN CartesianProductPlan(groups) ELSE groups[1]

BuildJoinsSelection(selection) ==
    LET equalities == SelectSeq(selection.expressions, IsColumnEquality)
        remaining == SelectSeq(selection.expressions, LAMBDA e : ~IsColumnEquality(e))
        child == BuildJoinsChild(selection.child,
                                 [i \in DOMAIN equalities |->
                                    <<equalities[i].lhs.column, equalities[i].rhs.column>>])
    IN  IF remaining = <<>> THEN child ELSE SelectionPlan(child, remaining)

\* The plan is a ProjectionPlan over an optional SelectionPlan.
BuildJoins(plan) ==
    [plan EXCEPT !.child = IF @.kind = "selection" THEN BuildJoinsSelection(@)
                           ELSE BuildJoinsChild(@, <<>>)]

\* The assertion of the loop over a product's children: Expected a relation.
BuildJoinsAsserts(plan) ==
    LET from == IF plan.child.kind = "selection" THEN plan.child.child ELSE plan.child
    IN  from.kind = "product" =>
            \A i \in DOMAIN from.children : from.children[i].kind = "relation"

(****************************************************************************)
(* PushSelection.  simple is the map id2simple_expressions, from alias and  *)
(* table to the predicates moved there.  Visiting a relation moves them     *)
(* out, so a second relation of the same alias and table gets an empty list.*)
(****************************************************************************)
IsSimple(e) == Cardinality({Key(c) : c \in GetColumns(e)}) = 1
IdOf(e) == LET c == CHOOSE c \in GetColumns(e) : TRUE IN <<c.alias, c.table>>

SimpleExpressions(es) ==
    LET simple == SelectSeq(es, IsSimple)
    IN  [id \in {IdOf(simple[i]) : i \in DOMAIN simple} |->
            SelectSeq(simple, LAMBDA e : IdOf(e) = id)]

PushRelation(relation, simple) ==
    LET id == <<relation.alias, relation.table>>
    IN  IF id \in DOMAIN simple THEN SelectionPlan(relation, simple[id]) ELSE relation

\* Aliases are unique among the tables of FROM, but both sides of an outer join
\* have its alias.
PushOuterJoin(join, simple) ==
    LET l == <<join.lchild.alias, join.lchild.table>>
        moved == [id \in DOMAIN simple |-> IF id = l THEN <<>> ELSE simple[id]]
    IN  [join EXCEPT !.lchild = PushRelation(@, simple),
                     !.rchild = PushRelation(@, moved)]

RECURSIVE PushDown(_, _)
PushDown(plan, simple) ==
    CASE plan.kind = "relation" -> PushRelation(plan, simple)
      [] plan.kind \in {"left", "full"} -> PushOuterJoin(plan, simple)
      [] plan.kind \in {"product", "join"} ->
            [plan EXCEPT !.children = [i \in DOMAIN @ |-> PushDown(@[i], simple)]]

\* Mutant: a predicate on two columns is dropped with the ones moved down.
PushSelectionRemaining_None(es) == <<>>

PushSelectionRemaining(es) == SelectSeq(es, LAMBDA e : ~IsSimple(e))

PushSelection(plan) ==
    [plan EXCEPT !.child =
        IF @.kind # "selection" THEN PushDown(@, <<>>)
        ELSE LET child == PushDown(@.child, SimpleExpressions(@.expressions))
                 remaining == PushSelectionRemaining(@.expressions)
             IN  IF remaining = <<>> THEN child ELSE SelectionPlan(child, remaining)]
================================================================================
