----------------------------- MODULE QueryExecutor -----------------------------
(****************************************************************************)
(* query/executor: evaluation of expressions, and begin, next and reset of  *)
(* the iterators.                                                           *)
(*                                                                          *)
(* IterNext(it, db) gives the iterator after the call and the record, <<>>  *)
(* for an invalid one.  db holds the version of every record that is        *)
(* visible during the call (rows: table |-> slots, <<>> for a deleted       *)
(* record) and the answer of LIKE: like_match has no return statement, so   *)
(* it is a truth value or Undefined, a call that never comes back.          *)
(* A table is one page here; a RID is the position of its slot.             *)
(****************************************************************************)
EXTENDS Optimizer

\* values[i] of a record.
At(record, i) == IF i \in DOMAIN record THEN record[i] ELSE Undefined

\* A record after which the statement does not go on.
Bad(record) == \E i \in DOMAIN record : record[i] \in Failures

(****************************************************************************)
(* Expr::eval.                                                              *)
(****************************************************************************)
Compare(kind, a, b) ==
    IF Undefined \in {a, b} THEN Undefined
    ELSE Truth(CASE kind = "equals" -> a = b
                 [] kind = "not_equals" -> a # b
                 [] kind = "less" -> ValueLess(a, b)
                 [] kind = "less_or_equals" -> ValueLess(a, b) \/ a = b)

RECURSIVE Eval(_, _, _)
Eval(e, record, like) ==
    CASE e.kind = "at" -> At(record, e.index)
      [] e.kind = "term" -> e.value
      [] e.kind = "between" ->
            LET v == Eval(e.child, record, like)
            IN  Truth(~ValueLess(v, e.lower) /\ ~ValueLess(e.upper, v))
      [] e.kind = "like" ->
            IF Eval(e.child, record, like).type = "STR" THEN like ELSE Asserted
      [] e.kind = "arithmetic" ->
            Arithmetic(Eval(e.lhs, record, like), e.op, Eval(e.rhs, record, like))
      [] OTHER -> Compare(e.kind, Eval(e.lhs, record, like), Eval(e.rhs, record, like))

\* The loop over a Selection's expressions, which stops at the first that is not
\* true: Truth(TRUE), Truth(FALSE) or one of the values that are Bad.
EvalAll(es, record, like) ==
    LET i == SelectInSeq(es, LAMBDA e : Eval(e, record, like) # Truth(TRUE))
    IN  IF i = 0 THEN Truth(TRUE) ELSE Eval(es[i], record, like)

\* Mutant: the record is not tested again once the lock is there.
Matches_Unchecked(it, record, like) == Truth(TRUE)

\* QueryIter::matches: only Selection looks.
Matches(it, record, like) ==
    IF it.kind = "selection" THEN EvalAll(it.expressions, record, like) ELSE Truth(TRUE)

(****************************************************************************)
(* reset and begin.  CartesianProduct and Join leave valid_lhs as it is.    *)
(****************************************************************************)
RECURSIVE Reset(_)
Reset(it) ==
    CASE it.kind = "relation" -> [it EXCEPT !.current = 0, !.ended = FALSE]
      [] it.kind = "selection" -> [it EXCEPT !.child = Reset(@)]
      [] it.kind \in {"product", "join"} ->
            [it EXCEPT !.lhs = Reset(@), !.rhs = Reset(@)]
      [] it.kind = "left" ->
            [it EXCEPT !.lhs = Reset(@), !.rhs = Reset(@), !.valid_lhs = FALSE]
      [] it.kind = "full" ->
            [it EXCEPT !.lhs = Reset(@), !.rhs = Reset(@), !.valid_lhs = FALSE,
                       !.valid_rhs = FALSE, !.rhs_index = 0,
                       !.matched_rhs = [i \in DOMAIN @ |-> FALSE]]

(****************************************************************************)
(* next.                                                                    *)
(****************************************************************************)
RECURSIVE IterNext(_, _)

\* HeapFileIter::next: dir_count is read again in every call, and once the end
\* is reached only reset leads back.
RelationNext(it, db) ==
    LET slots == db.rows[Normalize[it.table]]
        i == SelectInSeq([j \in DOMAIN slots |-> j > it.current /\ slots[j] # <<>>],
                         LAMBDA visible : visible)
    IN  IF it.ended \/ i = 0
        THEN [it |-> [it EXCEPT !.ended = TRUE], record |-> <<>>]
        ELSE [it |-> [it EXCEPT !.current = i], record |-> Append(slots[i], RidValue(i))]

RECURSIVE SelectionNext(_, _)
SelectionNext(it, db) ==
    LET n == IterNext(it.child, db)
        after == [it EXCEPT !.child = n.it]
        holds == EvalAll(it.expressions, n.record, db.like)
    IN  IF n.record = <<>> \/ Bad(n.record) THEN [it |-> after, record |-> n.record]
        ELSE IF holds = Truth(TRUE) THEN [it |-> after, record |-> n.record]
        ELSE IF holds = Truth(FALSE) THEN SelectionNext(after, db)
        ELSE [it |-> after, record |-> <<holds>>]

\* Mutant: only the first pair is compared.
Agree_First(l, r, eqs) == eqs # <<>> => At(l, eqs[1][1]) = At(r, eqs[1][2])

Agree(l, r, eqs) == \A i \in DOMAIN eqs : At(l, eqs[i][1]) = At(r, eqs[i][2])

\* The inner loop: rhs->next() until a record agrees with current_lhs; skipped
\* counts the records that do not.
RECURSIVE NextMatch(_, _, _, _, _)
NextMatch(rhs, l, eqs, db, skipped) ==
    LET n == IterNext(rhs, db)
    IN  IF n.record = <<>> \/ Bad(n.record) \/ Agree(l, n.record, eqs)
        THEN [it |-> n.it, record |-> n.record, skipped |-> skipped]
        ELSE NextMatch(n.it, l, eqs, db, skipped + 1)

Values(projected, record) == [i \in DOMAIN projected |-> At(record, projected[i].pos)]

\* combined_values.
Combined(it, l, r) == Values(it.projected_lhs, l) \o Values(it.projected_rhs, r)

\* CartesianProduct::next and Join::next; a product has no equalities.
RECURSIVE NestedLoopNext(_, _)
NestedLoopNext(it, db) ==
    IF it.valid_lhs
    THEN LET m == NextMatch(it.rhs, it.current_lhs, it.equalities, db, 0)
         IN  IF m.record = <<>>
             THEN NestedLoopNext([it EXCEPT !.rhs = m.it, !.valid_lhs = FALSE], db)
             ELSE [it |-> [it EXCEPT !.rhs = m.it],
                   record |-> IF Bad(m.record) THEN m.record
                              ELSE Combined(it, it.current_lhs, m.record)]
    ELSE LET n == IterNext(it.lhs, db)
         IN  IF n.record = <<>> \/ Bad(n.record)
             THEN [it |-> [it EXCEPT !.lhs = n.it], record |-> n.record]
             ELSE NestedLoopNext([it EXCEPT !.lhs = n.it, !.current_lhs = n.record,
                                            !.valid_lhs = TRUE, !.rhs = Reset(@)], db)

\* The second part of FullOuterJoin::next: the records of the right side that
\* have not been matched.
RECURSIVE UnmatchedNext(_, _)
UnmatchedNext(it, db) ==
    LET n == IterNext(it.rhs, db)
        i == it.rhs_index + 1
        after == [it EXCEPT !.rhs = n.it, !.rhs_index = i]
    IN  IF n.record = <<>> \/ Bad(n.record)
        THEN [it |-> [it EXCEPT !.rhs = n.it], record |-> n.record]
        ELSE IF i \notin DOMAIN it.matched_rhs THEN [it |-> after, record |-> <<Undefined>>]
        ELSE IF it.matched_rhs[i] THEN UnmatchedNext(after, db)
        ELSE [it |-> after, record |-> Combined(it, it.lhs_null, n.record)]

\* LeftOuterJoin::next and FullOuterJoin::next.
RECURSIVE OuterJoinNext(_, _)

\* Mutant: outer_match is not set, so a matched record comes again with nulls.
Matched_OuterMatchKept(it, i) ==
    IF it.kind = "full" THEN [it EXCEPT !.rhs_index = i, !.matched_rhs[i] = TRUE]
    ELSE it

\* The bookkeeping of a match; matched_rhs belongs to FullOuterJoin.
Matched(it, i) ==
    IF it.kind = "full"
    THEN [it EXCEPT !.outer_match = TRUE, !.rhs_index = i, !.matched_rhs[i] = TRUE]
    ELSE [it EXCEPT !.outer_match = TRUE]

OuterJoinProbe(it, db) ==
    LET m == NextMatch(it.rhs, it.current_lhs, it.equalities, db, 0)
        i == it.rhs_index + m.skipped + 1
        probed == [it EXCEPT !.rhs = m.it]
        passed == [probed EXCEPT !.valid_lhs = FALSE, !.rhs_index = @ + m.skipped]
    IN  IF Bad(m.record) THEN [it |-> probed, record |-> m.record]
        ELSE IF m.record # <<>>
        THEN IF it.kind = "full" /\ i \notin DOMAIN it.matched_rhs
             THEN [it |-> probed, record |-> <<Undefined>>]
             ELSE [it |-> Matched(probed, i),
                   record |-> Combined(it, it.current_lhs, m.record)]
        ELSE IF ~it.outer_match
        THEN [it |-> passed, record |-> Combined(it, it.current_lhs, it.rhs_null)]
        ELSE OuterJoinNext(passed, db)

OuterJoinNext(it, db) ==
    LET n == IterNext(it.lhs, db)
        moved == [it EXCEPT !.lhs = n.it]
    IN  IF it.valid_lhs THEN OuterJoinProbe(it, db)
        ELSE IF Bad(n.record) THEN [it |-> moved, record |-> n.record]
        ELSE IF n.record # <<>>
        THEN OuterJoinProbe([moved EXCEPT !.current_lhs = n.record, !.valid_lhs = TRUE,
                                          !.outer_match = FALSE, !.rhs_index = 0,
                                          !.rhs = Reset(@)], db)
        ELSE IF it.kind = "left" THEN [it |-> moved, record |-> <<>>]
        ELSE UnmatchedNext(IF it.valid_rhs THEN moved
                           ELSE [moved EXCEPT !.rhs = Reset(@), !.rhs_index = 0,
                                              !.valid_rhs = TRUE], db)

\* Projection::next asks its child first; a column the child does not list is
\* left out of the record.
ProjectionNext(it, db) ==
    LET n == IterNext(it.child, db)
        cols == IterColumns(it.child)
        Pos(c) == SelectInSeq(cols, LAMBDA x : SameColumn(x, c))
        kept == SelectSeq(it.columns, LAMBDA c : Pos(c) # 0)
    IN  IF Bad(n.record) THEN [it |-> [it EXCEPT !.child = n.it], record |-> n.record]
        ELSE IF n.record = <<>> \/ it.result_count >= it.limit
        THEN [it |-> [it EXCEPT !.child = n.it], record |-> <<>>]
        ELSE [it |-> [it EXCEPT !.child = n.it, !.result_count = @ + 1],
              record |-> [i \in DOMAIN kept |-> At(n.record, Pos(kept[i]))]]

IterNext(it, db) ==
    CASE it.kind = "relation" -> RelationNext(it, db)
      [] it.kind = "selection" -> SelectionNext(it, db)
      [] it.kind \in {"product", "join"} -> NestedLoopNext(it, db)
      [] it.kind \in {"left", "full"} -> OuterJoinNext(it, db)
      [] it.kind = "projection" -> ProjectionNext(it, db)

(****************************************************************************)
(* begin.  Only FullOuterJoin does more than reset counters: it reads the   *)
(* right side once, to size matched_rhs.                                    *)
(****************************************************************************)
RECURSIVE CountRows(_, _)
CountRows(it, db) ==
    LET n == IterNext(it, db)
    IN  IF n.record = <<>> \/ Bad(n.record) THEN 0 ELSE 1 + CountRows(n.it, db)

\* Mutant: the first record is not counted.
InitMatchedRhs_OneShort(it, db) ==
    [it EXCEPT !.matched_rhs = [i \in 1..(CountRows(it.rhs, db) - 1) |-> FALSE],
               !.rhs = Reset(@), !.valid_rhs = FALSE, !.rhs_index = 0]

\* init_matched_rhs.
InitMatchedRhs(it, db) ==
    [it EXCEPT !.matched_rhs = [i \in 1..CountRows(it.rhs, db) |-> FALSE],
               !.rhs = Reset(@), !.valid_rhs = FALSE, !.rhs_index = 0]

RECURSIVE IterBegin(_, _)
IterBegin(it, db) ==
    CASE it.kind = "relation" -> it
      [] it.kind \in {"selection", "update", "deletion"} -> [it EXCEPT !.child = IterBegin(@, db)]
      [] it.kind = "projection" ->
            [it EXCEPT !.child = IterBegin(@, db), !.result_count = 0]
      [] it.kind \in {"product", "join", "left"} ->
            [it EXCEPT !.lhs = IterBegin(@, db), !.rhs = IterBegin(@, db), !.valid_lhs = FALSE]
      [] it.kind = "full" ->
            InitMatchedRhs([it EXCEPT !.lhs = IterBegin(@, db), !.rhs = IterBegin(@, db),
                                      !.valid_lhs = FALSE], db)

(****************************************************************************)
(* UpdateIter::next after the lock: the assignments, in their order, each   *)
(* on the record the ones before it have changed.                           *)
(****************************************************************************)

\* Mutant: any value fits.
Fits_Any(column, v) == v.type \in {"INT", "STR"}

Fits(column, v) == v.type \in {"INT", "STR"} /\ column.type = v.type

Assigned(assignments, columns, record) ==
    LET step[n \in 0..Len(assignments)] ==
            IF n = 0 THEN record
            ELSE LET old == step[n - 1]
                     i == assignments[n][1]
                     v == Eval(assignments[n][2], old, Truth(FALSE))
                 IN  IF Bad(old) THEN old
                     ELSE IF v \in Failures THEN <<v>>
                     ELSE IF i \notin DOMAIN columns THEN <<Undefined>>
                     ELSE IF ~Fits(columns[i], v) THEN <<Thrown>>
                     ELSE [old EXCEPT ![i] = v]
    IN  step[Len(assignments)]
================================================================================
