--------------------------------- MODULE Query ---------------------------------
(****************************************************************************)
(* One statement on its way through Session::execute_query: parser,         *)
(* preprocessor, rewriter, optimizer, and the loop over next() of the root  *)
(* iterator, under READ COMMITTED.  Other transactions commit changes       *)
(* between two calls, and between the call in which UPDATE or DELETE finds  *)
(* a record and the moment it has the record's lock.                        *)
(*                                                                          *)
(* A call of next() is one step: what a commit can do between two page      *)
(* accesses of one read is the subject of HeapFile.  "crashed" is an        *)
(* assertion, a null pointer or a division that traps, "undefined" an       *)
(* access past the end of a vector or a missing return, "error" an          *)
(* exception, which becomes an error reply; the undo of a failed statement  *)
(* belongs to Session and HeapFile.                                         *)
(****************************************************************************)
EXTENDS QueryExecutor, QueryReference

CONSTANTS
    Texts,          \* statements: their tokens, and the tree that is meant
    Databases,      \* initial contents: table |-> sequence of records
    Records,        \* table |-> records that others insert or update to
    MaxCommits,     \* bound: commits of other transactions
    MaxSlots        \* bound: slots of a table

Parser == INSTANCE Grammar
NoStatement == [kind |-> "none"]

VARIABLES
    text,       \* the tokens of the statement
    meant,      \* ghost: the tree they stand for, NoStatement for none
    stmt,       \* the parse tree
    phase,      \* how far execute_query is
    plan,       \* logical_plan
    iter,       \* the root iterator, or the action
    rows,       \* table |-> slots, each the version this transaction sees
    start,      \* rows when the statement started
    out,        \* records of the reply
    pending,    \* record that UPDATE or DELETE has found and not locked, or <<>>
    locked,     \* slots locked by the statement
    applied,    \* ghost: records before and after each update, in their order
    ever,       \* ghost: table |-> records visible so far
    commits     \* commits of others so far

input == <<text, meant, stmt>>
vars == <<input, phase, plan, iter, rows, start, out, pending, locked, applied, ever, commits>>
planning == <<rows, start, out, pending, locked, applied, ever, commits>>

Phases == {"text", "parse", "joins", "push", "optimize", "begin", "next", "lock",
           "done", "error", "crashed", "undefined"}
Final == {"done", "error", "crashed", "undefined"}
Table == DOMAIN Schemas

HasTypes(table, record) ==
    /\ Len(record) = Len(Schemas[table]) - 1
    /\ \A i \in DOMAIN record :
        /\ record[i].type = Schemas[table][i].type
        /\ record[i].type = "INT" => record[i].v \in MinInt..(-MinInt - 1)

\* Every record in a table has the types of its schema: INSERT and UPDATE test
\* theirs (query_preprocessor.cc:142, update_iter.h:69).
TypeOK ==
    /\ stmt.kind \in {"none", "select", "update", "delete", "insert", "create"}
    /\ phase \in Phases
    /\ \A t \in Table, i \in 1..MaxSlots :
        i \in DOMAIN rows[t] => rows[t][i] = <<>> \/ HasTypes(t, rows[t][i])
    /\ locked \subseteq 1..MaxSlots
    /\ phase = "lock" <=> pending # <<>>
    /\ pending # <<>> => Last(pending).type = "RID"
    /\ commits \in 0..MaxCommits

Init ==
    /\ \E t \in Texts : text = t.text /\ meant = t.tree
    /\ stmt = NoStatement
    /\ rows \in Databases
    /\ start = rows
    /\ ever = [t \in Table |-> ToSet(rows[t])]
    /\ phase = "text" /\ plan = NoPlan /\ iter = NoPlan
    /\ out = <<>> /\ pending = <<>> /\ locked = {} /\ applied = <<>> /\ commits = 0

(****************************************************************************)
(* Parser::parse and Optimizer::create_physical_plan.                       *)
(****************************************************************************)
\* The parser's root rule, along the predicted derivation; the error listener throws.
RunParser ==
    /\ phase = "text"
    /\ LET trees == Parser!Predicted(text)
       IN  \/ /\ trees = {} /\ phase' = "error"
              /\ stmt' = stmt
           \/ /\ stmt' \in trees
              /\ phase' = "parse"
    /\ UNCHANGED <<text, meant, plan, iter, planning>>

RunPreprocessor ==
    /\ phase = "parse"
    /\ IF PreprocessorCrashes(stmt)
       THEN phase' = "crashed" /\ plan' = plan
       ELSE IF ~Accepts(stmt) THEN phase' = "error" /\ plan' = plan
       ELSE /\ plan' = Preprocess(stmt)
            /\ phase' = IF IsAction(plan') THEN "optimize" ELSE "joins"
    /\ UNCHANGED <<input, iter, planning>>

RunBuildJoins ==
    /\ phase = "joins"
    /\ IF BuildJoinsAsserts(plan) THEN plan' = BuildJoins(plan) /\ phase' = "push"
       ELSE plan' = plan /\ phase' = "crashed"
    /\ UNCHANGED <<input, iter, planning>>

RunPushSelection ==
    /\ phase = "push"
    /\ plan' = PushSelection(plan)
    /\ phase' = "optimize"
    /\ UNCHANGED <<input, iter, planning>>

\* beam_search_join_order gives no order, or once it is written any order of the
\* aliases of FROM.
Ranks ==
    {<<>>} \cup
    IF stmt.kind # "select" THEN {}
    ELSE {p \in [DOMAIN stmt.from -> {AliasOf(stmt.from[i]) : i \in DOMAIN stmt.from}] :
            IsInjective(p)}

RunOptimizer ==
    /\ phase = "optimize"
    /\ IF OptimizerThrows(plan) THEN phase' = "error" /\ iter' = iter
       ELSE \E rank \in Ranks :
            /\ iter' = Optimize(plan, {}, rank)
            /\ phase' = IF "assertion" \in Kinds(iter') THEN "crashed"
                        ELSE IF "undefined" \in Kinds(iter') THEN "undefined"
                        ELSE "begin"
    /\ UNCHANGED <<input, plan, planning>>

(****************************************************************************)
(* Session::execute_query.                                                  *)
(****************************************************************************)
Db(like) == [rows |-> rows, like |-> like]
Likes == IF "like" \in Kinds(iter) THEN {Truth(TRUE), Truth(FALSE), Undefined}
         ELSE {Truth(FALSE)}
TableOf(it) == Normalize[Last(IterColumns(it)).table]

\* Insertion::execute.  Creation::execute is an action of Session.
ExecuteAction ==
    /\ phase = "begin" /\ iter.kind \in {"insertion", "creation"}
    /\ phase' = "done"
    /\ rows' = IF iter.kind = "creation" THEN rows
               ELSE [rows EXCEPT ![Normalize[iter.table]] = Append(@, iter.values)]
    /\ UNCHANGED <<input, plan, iter, start, out, pending, locked, applied, ever, commits>>

BeginIteration ==
    /\ phase = "begin" /\ iter.kind \notin {"insertion", "creation"}
    /\ iter' = IterBegin(iter, Db(Truth(FALSE)))
    /\ phase' = "next"
    /\ UNCHANGED <<input, plan, planning>>

\* Where a record that ends the statement leads.
After(record) ==
    CASE record = <<>> -> "done"
      [] Undefined \in ToSet(record) -> "undefined"
      [] Asserted \in ToSet(record) -> "crashed"
      [] Thrown \in ToSet(record) -> "error"
      [] OTHER -> "next"

\* The loop over next() of a SELECT.
NextRecord ==
    /\ phase = "next" /\ iter.kind = "projection"
    /\ \E like \in Likes :
        LET n == IterNext(iter, Db(like))
        IN  /\ iter' = n.it
            /\ phase' = After(n.record)
            /\ out' = IF phase' = "next" THEN Append(out, n.record) ELSE out
    /\ UNCHANGED <<input, plan, rows, start, pending, locked, applied, ever, commits>>

\* UpdateIter::next and DeletionIter::next up to try_acquire_lock.
FindRecord ==
    /\ phase = "next" /\ iter.kind \in {"update", "deletion"}
    /\ \E like \in Likes :
        LET n == IterNext(iter.child, Db(like))
        IN  /\ iter' = [iter EXCEPT !.child = n.it]
            /\ IF After(n.record) = "next"
               THEN phase' = "lock" /\ pending' = n.record
               ELSE phase' = After(n.record) /\ pending' = pending
    /\ UNCHANGED <<input, plan, rows, start, out, locked, applied, ever, commits>>

Found == Last(pending).v

\* UpdateIter::next from there: the record is read again, tested again, changed.
UpdateLocked ==
    /\ phase = "lock" /\ iter.kind = "update"
    /\ locked' = locked \cup {Found}
    /\ pending' = <<>>
    /\ \E like \in Likes :
        LET table == TableOf(iter)
            record == rows[table][Found]
            holds == Matches(iter.child, record, like)
            new == Assigned(iter.assignments, IterColumns(iter), Append(record, RidValue(Found)))
        IN  IF record = <<>> \/ holds = Truth(FALSE)
            THEN phase' = "next" /\ UNCHANGED <<rows, out, applied, ever>>
            ELSE IF holds # Truth(TRUE) \/ Bad(new)
            THEN /\ phase' = After(IF holds # Truth(TRUE) THEN <<holds>> ELSE new)
                 /\ UNCHANGED <<rows, out, applied, ever>>
            ELSE /\ rows' = [rows EXCEPT ![table][Found] = Front(new)]
                 /\ out' = Append(out, Front(new))
                 /\ applied' = Append(applied, [slot |-> Found, old |-> record, new |-> Front(new)])
                 /\ ever' = [ever EXCEPT ![table] = @ \cup {Front(new)}]
                 /\ phase' = "next"
    /\ UNCHANGED <<input, plan, iter, start, commits>>

\* DeletionIter::next from there.  HeapFile::delete_record has an empty body.
DeleteLocked ==
    /\ phase = "lock" /\ iter.kind = "deletion"
    /\ locked' = locked \cup {Found}
    /\ pending' = <<>>
    /\ \E like \in Likes :
        LET record == rows[TableOf(iter)][Found]
            holds == Matches(iter.child, record, like)
        IN  IF record = <<>> \/ holds = Truth(FALSE) THEN phase' = "next" /\ out' = out
            ELSE IF holds # Truth(TRUE) THEN phase' = After(<<holds>>) /\ out' = out
            ELSE phase' = "next" /\ out' = Append(out, pending)
    /\ UNCHANGED <<input, plan, iter, rows, start, applied, ever, commits>>

\* try_acquire_lock times out and throws TransactionAbortException.
LockTimeout ==
    /\ phase = "lock"
    /\ phase' = "error" /\ pending' = <<>>
    /\ UNCHANGED <<input, plan, iter, rows, start, out, locked, applied, ever, commits>>

\* Another transaction commits an insertion, an update or a deletion.
OtherCommits(t, i, record) ==
    /\ phase \in {"begin", "next", "lock"} /\ commits < MaxCommits
    /\ iter.kind \in {"update", "deletion"} /\ t = TableOf(iter) => i \notin locked
    /\ \/ i = Len(rows[t]) + 1 /\ i <= MaxSlots /\ record # <<>>
          /\ rows' = [rows EXCEPT ![t] = Append(@, record)]
       \/ i \in DOMAIN rows[t] /\ rows[t][i] \notin {<<>>, record}
          /\ rows' = [rows EXCEPT ![t][i] = record]
    /\ ever' = [ever EXCEPT ![t] = @ \cup {record}]
    /\ commits' = commits + 1
    /\ UNCHANGED <<input, phase, plan, iter, start, out, pending, locked, applied>>

Done == phase \in Final /\ UNCHANGED vars

Next ==
    \/ RunParser \/ RunPreprocessor \/ RunBuildJoins \/ RunPushSelection \/ RunOptimizer
    \/ ExecuteAction \/ BeginIteration \/ NextRecord
    \/ FindRecord \/ UpdateLocked \/ DeleteLocked \/ LockTimeout
    \/ \E t \in Table : \E i \in 1..MaxSlots, r \in Records[t] \cup {<<>>} : OtherCommits(t, i, r)
    \/ Done

Spec == Init /\ [][Next]_vars
--------------------------------------------------------------------------------
(****************************************************************************)
(* Statements the properties leave out, each for something the code does    *)
(* wrong with them (README, section 5).                                     *)
(****************************************************************************)
RefsOf(e) ==
    CASE e.kind = "compare" -> {o.ref : o \in {x \in {e.lhs, e.rhs} : x.kind = "ref"}}
      [] OTHER -> {e.ref}
WhereRefs(s) == UNION {RefsOf(s.where[i]) : i \in DOMAIN s.where}
SelectRefs(s) == ToSet(IF s.columns = <<>> THEN StarRefs(s) ELSE s.columns)
OnNames(item) ==
    IF item.kind = "table" THEN {}
    ELSE UNION {{item.on[k][1].name, item.on[k][2].name} : k \in DOMAIN item.on}

\* alias.column is accepted although the table has no such column.
RefsExist(s) ==
    \A ref \in WhereRefs(s) \cup SelectRefs(s) :
        GetColumn(Context(s.from), ref).type # "INVALID"

\* The columns used of each table are its first ones: Relation lists the used
\* columns and returns whole records.
UsesPrefixes(s) ==
    \A i \in DOMAIN s.from : \A side \in DOMAIN Tables(s.from[i]) :
        LET cols == TableColumns(Tables(s.from[i])[side])
            names == OnNames(s.from[i]) \cup
                     {r.name : r \in {r \in WhereRefs(s) \cup SelectRefs(s) :
                                        Place(s.from, r).item = i}}
            used == {p \in DOMAIN cols : cols[p].name \in names}
        IN  used = 1..Cardinality(used) /\ (Len(s.from) > 2 => used # {})

\* An equality of two columns of one FROM item is dropped by BuildJoins.
KeepsEqualities(s) ==
    \A i \in DOMAIN s.where :
        LET e == s.where[i]
        IN  e.kind = "compare" /\ e.op = "==" /\ e.lhs.kind = "ref" /\ e.rhs.kind = "ref"
                => Place(s.from, e.lhs.ref).item # Place(s.from, e.rhs.ref).item

\* A predicate on the side of an outer join that may be null is moved below it.
FiltersAboveOuterJoins(s) ==
    \A i \in DOMAIN s.where :
        Cardinality(RefsOf(s.where[i])) = 1 =>
            \A r \in RefsOf(s.where[i]) :
                LET p == Place(s.from, r)
                IN  \/ s.from[p.item].kind = "table"
                    \/ s.from[p.item].kind = "left" /\ p.side = 1

\* ON relates one table of the join to the other, by the names in FROM; the RIDs
\* of an outer join have no null value; no outer join is in a product.
OuterJoinsAreSimple(s) ==
    \A i \in DOMAIN s.from :
        LET item == s.from[i]
        IN  item.kind # "table" =>
                /\ Len(s.from) = 1 /\ item.l # item.r
                /\ \A k \in DOMAIN item.on : {item.on[k][1].alias, item.on[k][2].alias} = {item.l, item.r}
                /\ "RID" \notin {r.name : r \in WhereRefs(s) \cup SelectRefs(s)}

HasLike(s) == \E i \in DOMAIN s.where : s.where[i].kind = "like"
HasOuterJoin(s, kinds) == \E i \in DOMAIN s.from : s.from[i].kind \in kinds

RECURSIVE HasOperands(_)
HasOperands(e) ==
    CASE e.kind = "chain" -> \A i \in DOMAIN e.args : HasOperands(e.args[i])
      [] OTHER -> e.kind \in {"ref", "constant"}

\* UPDATE and DELETE look for the columns under the name of the catalog; the
\* grammar admits expressions without operands; LIKE has no answer.
ChangesAreSimple(s) ==
    /\ Normalize[s.table] = s.table
    /\ s.kind = "update" => \A i \in DOMAIN s.set : HasOperands(s.set[i].expr)
    /\ ~HasLike(s)

SelectRuns(s) == RefsExist(s) /\ OuterJoinsAreSimple(s) /\ ~HasLike(s)
SelectAnswers(s) ==
    SelectRuns(s) /\ UsesPrefixes(s) /\ KeepsEqualities(s) /\ FiltersAboveOuterJoins(s)

\* An equality between two items of FROM makes a join, and asks for a join order.
NeedsJoinOrder(s) ==
    \E i \in DOMAIN s.where :
        LET e == s.where[i]
        IN  /\ e.kind = "compare" /\ e.op = "==" /\ e.lhs.kind = "ref" /\ e.rhs.kind = "ref"
            /\ Place(s.from, e.lhs.ref).item # Place(s.from, e.rhs.ref).item

\* No division can be the one of MinInt by -1.
RECURSIVE DividesSafely(_)
DividesSafely(e) ==
    e.kind = "chain" =>
        /\ \A i \in DOMAIN e.args : DividesSafely(e.args[i])
        /\ \A i \in DOMAIN e.ops :
            e.ops[i] \in {"/", "%"} =>
                e.args[i + 1].kind = "constant" /\ e.args[i + 1].value # IntValue(-1)
ChangeRuns(s) ==
    /\ ChangesAreSimple(s)
    /\ s.kind = "update" => \A i \in DOMAIN s.set : DividesSafely(s.set[i].expr)

(****************************************************************************)
(* Correctness.                                                             *)
(****************************************************************************)

\* The parser recovers the tree that is meant from every text with one
\* derivation: the operators bind as in arithmetic, the AND of BETWEEN is not the
\* AND of WHERE, and a keyword used as a name is not taken for the keyword.  Texts
\* with several derivations are those with a unary + or - (IIC3413DBParser.g4:66),
\* and nothing is claimed of what the parser makes of them; only texts without a
\* meaning are refused.
ParseIsMeant ==
    /\ phase = "parse" =>
        IF Cardinality(Parser!Root(text)) = 1 THEN stmt = meant ELSE Parser!Signed(meant)
    /\ phase = "error" /\ stmt = NoStatement => meant = NoStatement

\* The reply to a SELECT that nobody disturbs is the answer of the statement,
\* whatever joins, pushed predicates, join order and nested loops made of it.
SelectIsRight ==
    phase = "done" /\ stmt.kind = "select" /\ commits = 0 =>
        (SelectAnswers(stmt) => IsAnswer(out, rows, stmt))

\* BuildJoins and PushSelection (query/parser/query_rewriter) keep the meaning
\* of the plan, for every contents of the tables.
RewritesKeepMeaning ==
    phase \in {"push", "optimize"} /\ stmt.kind = "select" =>
        (RefsExist(stmt) /\ OuterJoinsAreSimple(stmt) /\ KeepsEqualities(stmt)
                         /\ FiltersAboveOuterJoins(stmt)
            => PlanMeaning(rows, plan) = PlanMeaning(rows, Preprocess(stmt)))

\* READ COMMITTED: while others commit, an inner join may combine versions of
\* different moments, but each row of the reply is made of versions that were
\* visible during the statement and satisfy WHERE together.
NoInventedRow ==
    stmt.kind = "select" /\ phase \in {"next", "done"} /\ commits > 0 =>
        (SelectAnswers(stmt) /\ ~HasOuterJoin(stmt, {"left", "full"}) =>
            LET seen == [t \in Table |-> SetToSeq(ever[t] \ {<<>>})]
            IN  \A i \in DOMAIN out :
                    \E b \in Answer(seen, stmt) : RowOf(seen, stmt, b) = out[i])

\* An UPDATE changes a record at most once, only if the version it replaces
\* satisfies WHERE, although the version it found before the lock was another
\* (update_iter.h:56), and to what SET says of that version.  If nobody disturbs
\* it, it changes all the records that satisfy WHERE.
UpdateIsRight ==
    stmt.kind = "update" =>
        (ChangesAreSimple(stmt) =>
            /\ \A i, j \in DOMAIN applied : i # j => applied[i].slot # applied[j].slot
            /\ \A i \in DOMAIN applied :
                LET before == [rows EXCEPT ![stmt.table][applied[i].slot] = applied[i].old]
                IN  /\ SlotSatisfies(before, stmt, applied[i].slot)
                    /\ applied[i].new = UpdatedRow(stmt, applied[i].old)
            /\ phase = "done" /\ commits = 0 =>
                {applied[i].slot : i \in DOMAIN applied} =
                    {i \in DOMAIN start[stmt.table] :
                        start[stmt.table][i] # <<>> /\ SlotSatisfies(start, stmt, i)})

\* The assertions of the planner and the executor hold and no vector is read past
\* its end, in every statement but these: an operand that is missing, ON with an
\* unknown table, a column that does not exist, an outer join with a self join,
\* with a RID or in a product, LIKE, an equality of two tables (no join order),
\* FULL OUTER JOIN after a commit of another transaction (full_outer_join.h:60);
\* UPDATE and DELETE under another name than the catalog's, and a divisor that may
\* be -1.
PlainStatementsRun ==
    phase \in {"crashed", "undefined"} =>
        \/ PreprocessorCrashes(stmt)
        \/ CASE stmt.kind = "select" ->
                    \/ ~SelectRuns(stmt) \/ NeedsJoinOrder(stmt)
                    \/ commits > 0 /\ HasOuterJoin(stmt, {"full"})
             [] OTHER -> ~ChangeRuns(stmt)

================================================================================
