-------------------------------- MODULE Catalog --------------------------------
(****************************************************************************)
(* The tables of system/catalog.cc.  tables is table_id2table_info and      *)
(* in_process_tables the tables that running transactions have created.     *)
(*                                                                          *)
(* A table is a record of its normalized name and the transaction that      *)
(* created it.  create_table refuses a name the transaction already uses,   *)
(* so the pair identifies the table, as table_id does in the code.  Every   *)
(* operator is one critical section of tables_mutex.                        *)
(****************************************************************************)
EXTENDS TransactionManager

CONSTANT TableName      \* normalized table names

VARIABLES
    tables,             \* the committed tables
    in_process_tables   \* transaction |-> names of the tables it has created

catalogVars == <<tables, in_process_tables>>

TableInfo == [name : TableName, creator : TxID]

CatalogType ==
    /\ tables \in SUBSET TableInfo
    /\ in_process_tables \in [TxID -> SUBSET TableName]

CatalogInit ==
    /\ tables = {}
    /\ in_process_tables = [t \in TxID |-> {}]

--------------------------------------------------------------------------------

CommittedNames == {table.name : table \in tables}

\* get_table_info(name, tx) # nullptr: a committed table, or one of tx's own.
TableExists(n, t) == n \in CommittedNames \/ n \in in_process_tables[t]

\* The part of create_table after its test.  The test and the insertion are two
\* critical sections; a table that another transaction commits in between leads
\* to the same state as one it commits after the insertion.
CreateTable(n, t) ==
    /\ ~TableExists(n, t)
    /\ in_process_tables' = [in_process_tables EXCEPT ![t] = @ \cup {n}]
    /\ UNCHANGED tables

\* Mutant: the names are not looked at again.
NameClash_Unchecked(t) == FALSE

\* commit_in_progress_tables throws TransactionAbortException, before it moves
\* any table, when one of the names is committed by now.
NameClash(t) == in_process_tables[t] \cap CommittedNames # {}

CommitInProgressTables(t) ==
    /\ tables' = tables \cup [name : in_process_tables[t], creator : {t}]
    /\ in_process_tables' = [in_process_tables EXCEPT ![t] = {}]

\* Mutant: the entry of the transaction is kept.
AbortInProgressTables_Kept(t) == UNCHANGED <<in_process_tables, tables>>

AbortInProgressTables(t) ==
    /\ in_process_tables' = [in_process_tables EXCEPT ![t] = {}]
    /\ UNCHANGED tables
================================================================================
