------------------------------ MODULE SqlSmith ------------------------------
(***************************************************************************)
(* The statements that pocket generates (testcase/pocket/pkg/go-sqlsmith,  *)
(* pkg/executor/generate.go).  Each executor has a copy of the schema,     *)
(* read when its transaction began, and builds statements from it while    *)
(* others alter tables.  A generator draws at random: a statement is kept  *)
(* here as the tables it drew, and what it may name in each place is a     *)
(* set.  The database is external.                                         *)
(***************************************************************************)
EXTENDS Workload

CONSTANTS
  Smiths,        \* the executors
  SmithTables,   \* the tables there are at first
  SmithNew,      \* bound: the names drawn for new tables and columns
  SelectDepth    \* bound: the depth of a SELECT (4 in the code)

BaseColumns == {"id", "uuid", "x"}
(* The tables that mark binlog syncs, "t" and a number, are not for use. *)
SyncTable == "t1"
-----------------------------------------------------------------------------
(* The schema an executor works with. *)
FetchSchema(schema) == [t \in DOMAIN schema \ {SyncTable} |-> schema[t]]
LoadSchema(fetched) == [t \in DOMAIN fetched |-> [columns |-> fetched[t], online |-> FALSE]]

(* RandTables draws some tables, and one if it has drawn none. *)
RandTables(db) == SUBSET DOMAIN db \ {{}}
BeginWithOnlineTables(db, tables) ==
  [t \in DOMAIN db |-> [db[t] EXCEPT !.online = @ \/ t \in tables]]
EndTransaction(db) == [t \in DOMAIN db |-> [db[t] EXCEPT !.online = FALSE]]

(* The tables a statement may take: those online, if it is to keep to them *)
(* and the transaction began with some.                                    *)
randTable(s, online) ==
  LET tables == {t \in DOMAIN s.db : online /\ s.dbOnline => s.db[t].online}
  IN IF tables = {} THEN DOMAIN s.db ELSE tables
-----------------------------------------------------------------------------
(* The tree of a statement, before tables and columns are filled in.  A    *)
(* SELECT joins as many tables as it is deep.                              *)
tableRefsClause(depth) ==
  LET joined[d \in 1 .. depth] == IF d > 1 THEN 1 + joined[d - 1] ELSE 1 IN joined[depth]

(* A condition is a chain of comparisons; in its simple form all are of a  *)
(* column with a value, otherwise either side may be a subquery.           *)
exprNode(cons) == {"column", "subquery"} \cup (IF cons THEN {"value"} ELSE {})
patternInExpr == [l |-> "row", r |-> "subquery"]
binaryOperationExpr(depth, complex) ==
  [0 .. depth -> IF complex THEN [l : exprNode(FALSE), r : exprNode(TRUE)] \cup {patternInExpr}
                 ELSE {[l |-> "column", r |-> "value"]}]
selectStmt(depth) ==
  IF depth <= 1 THEN binaryOperationExpr(0, FALSE) \cup binaryOperationExpr(0, TRUE)
  ELSE UNION {binaryOperationExpr(d, TRUE) : d \in 0 .. depth - 1}
(* UPDATE and DELETE; the empty one is WHERE 1. *)
updateStmt == UNION {binaryOperationExpr(d, FALSE) : d \in 0 .. 7} \cup {<<>>}

(* What fills in a node, and the column that a value on its right is like: *)
(* a value is left as it is when it is not compared with a column.         *)
walkValueExpr(like) == like
walkExprNode(kind, like) ==
  [filled |-> kind = "value" => walkValueExpr(like), column |-> kind \in {"column", "subquery"}]
walkBinaryOperationExpr(node) ==
  LET left == walkExprNode(node.l, FALSE)
  IN node = patternInExpr \/ (left.filled /\ walkExprNode(node.r, left.column).filled)
ConditionsAreFilled ==
  \A where \in selectStmt(1) \cup selectStmt(SelectDepth) \cup updateStmt :
    \A i \in DOMAIN where : walkBinaryOperationExpr(where[i])
-----------------------------------------------------------------------------
(* New tables and columns. *)
RdType == {"varchar", "text", "timestamp", "datetime", "int"}
RdColumnOptions(type) ==
  {null \o default : null \in {<<>>, <<"not null">>, <<"null">>},
                    default \in {<<>>} \cup (IF type = "text" THEN {} ELSE {<<"default">>})}
(* A stable generator has no defaults, which may depend on the time. *)
randNewColumn(name, type, options, stable) ==
  [column |-> name, type |-> type,
   options |-> IF stable THEN SelectSeq(options, LAMBDA o : o # "default") ELSE options]
randNewTable(columns) ==
  <<[column |-> "id", type |-> "int", options |-> <<"not null", "auto increment">>],
    [column |-> "uuid", type |-> "varchar", options |-> <<>>]>> \o columns

makeConstraintPrimaryKey(keys, column) == Append(keys, column.column)
walkCreateTableStmt(columns) ==
  FoldLeft(LAMBDA node, column :
             [cols |-> Append(node.cols, column),
              keys |-> IF "auto increment" \in Range(column.options)
                       THEN makeConstraintPrimaryKey(node.keys, column) ELSE node.keys],
           [cols |-> <<>>, keys |-> <<>>], randNewTable(columns))

(* A table that is created has its id for a primary key.  Only columns     *)
(* with a type that may have one have a default, and none if the generator *)
(* is to be stable.                                                        *)
TablesAreRight ==
  \A type \in RdType, stable \in BOOLEAN : \A options \in RdColumnOptions(type) :
    LET node == walkCreateTableStmt(<<randNewColumn("x", type, options, stable)>>)
    IN /\ node.keys = <<"id">>
       /\ Cardinality({c.column : c \in Range(node.cols)}) = Len(node.cols)
       /\ \A c \in Range(node.cols) :
            /\ "default" \in Range(c.options) => c.type # "text" /\ ~stable
            /\ ~({"null", "not null"} \subseteq Range(c.options))
-----------------------------------------------------------------------------
(* A table of a statement: its name, for each column what it is called in  *)
(* the FROM clause, and the names known inside.                            *)
Table(name, columns, inner) == [table |-> name, columns |-> columns, inner |-> inner]
Clone(s, t) == Table(t, [c \in s.db[t].columns |-> [table |-> t, column |-> c]], {})
AddToInnerTables(table, names) == [table EXCEPT !.inner = @ \cup names]

subTableNames == <<"s0", "s1", "s2", "s3", "s4", "s5", "s6", "s7">>
columnNames == <<"c0", "c1", "c2", "c3", "c4", "c5", "c6", "c7", "c8", "c9", "c10", "c11">>

(* What is seen of a table from outside. *)
Refs(table) == {[table |-> table.table, column |-> c] : c \in DOMAIN table.columns}

renameTable(table, name) ==
  Table(name, [c \in DOMAIN table.columns |-> [table |-> name, column |-> c]], table.inner)
(* The columns of both, numbered; each remembers what it is in FROM. *)
Listed(S) == FoldSet(LAMBDA x, list : Append(list, x), <<>>, S)
mergeTable(table1, table2, name) ==
  LET columns == Listed(Refs(table1)) \o Listed(Refs(table2))
  IN Table(name, [c \in {columnNames[i] : i \in DOMAIN columns} |->
                    columns[CHOOSE i \in DOMAIN columns : columnNames[i] = c]], {})

(* The clauses of a SELECT from a table or from a join, by what they name. *)
Scope(tables) == {t.table : t \in tables}
walkSelectStmtColumns(table) ==
  {[as |-> c, ref |-> table.columns[c]] : c \in DOMAIN table.columns}
walkOnStmt(table1, table2) == Refs(table1) \cup Refs(table2)
walkColumnNameExpr(table) == Refs(table)
walkOrderByClause(table) == DOMAIN table.columns

SelectFrom(table, froms, on, next) ==
  [table |-> table, froms |-> froms, next |-> next, fields |-> walkSelectStmtColumns(table),
   on |-> on, where |-> walkColumnNameExpr(table), order |-> walkOrderByClause(table)]

(* tableRefsClause: at each depth but the last the table drawn is joined   *)
(* with the SELECT below; its table is renamed, then both are merged.      *)
walkSelectStmt(s, drawn) ==
  LET n == Len(drawn)
      at[i \in 1 .. n] ==
        LET left == Clone(s, drawn[i])
            below == at[i + 1]
            right == renameTable(below.table, subTableNames[below.next])
            merged == mergeTable(left, right, subTableNames[below.next + 1])
        IN IF i = n THEN SelectFrom(AddToInnerTables(left, {left.table}), {left}, {}, 1)
           ELSE SelectFrom(AddToInnerTables(merged, right.inner \cup {merged.table, left.table, right.table}),
                           {left, right}, walkOnStmt(left, right), below.next + 2)
  IN at

(* An IN compares a row with as many columns as the last table that was    *)
(* drawn for the subquery has; a table with too many is drawn again, and   *)
(* the fields of every draw stay in the subquery.                          *)
walkPatternInExpr(s, table, drawn) ==
  LET width(t) == Cardinality(s.db[t].columns)
      columns == Cardinality(DOMAIN table.columns)
  IN [valid |-> /\ \A i \in 1 .. Len(drawn) - 1 : width(drawn[i]) > columns
                /\ width(Last(drawn)) <= columns,
      row |-> IF columns = 1 THEN 1 ELSE width(Last(drawn)),
      fields |-> FoldLeft(LAMBDA sum, t : sum + width(t), 0, drawn)]

(* The hints that name tables name two or more of those inside. *)
GenerateHintExpr(table) == {names \in SUBSET table.inner : Cardinality(names) \in 2 .. 5}

walkColumns(table) == {c \in DOMAIN table.columns : c # "id"}
makeList(columns) == {c \in columns : c # "id"}
walkInsertStmt(s, t) ==
  LET columns == walkColumns(Clone(s, t)) IN [columns |-> columns, list |-> makeList(columns)]
walkAssignmentList(table) == DOMAIN table.columns \ {"id", "uuid"}
walkUpdateStmt(s, t) == [assigned |-> walkAssignmentList(Clone(s, t)), where |-> Refs(Clone(s, t))]
walkDeleteStmt(s, t) == [where |-> Refs(Clone(s, t))]

(* The data that is loaded first: batches until the total is reached. *)
BatchData(total, batchSize) ==
  [i \in 1 .. total \div batchSize |-> batchSize]
    \o (IF total % batchSize = 0 THEN <<>> ELSE <<total % batchSize>>)
DataGenerator(total, batch) ==
  LET NextFrom[curr \in 0 .. total] ==
        IF curr >= total THEN <<>>
        ELSE IF curr < total - batch THEN BatchData(batch, batch) \o NextFrom[curr + batch]
        ELSE BatchData(total - curr, batch) \o NextFrom[total]
  IN NextFrom[0]
-----------------------------------------------------------------------------
(* An executor that has not begun knows no table. *)
NoSmith == [db |-> [t \in {} |-> {}], dbOnline |-> FALSE, onlineTable |-> {}]
NoStmt == [kind |-> "none", by |-> {}, drawn |-> <<>>, columns |-> {}]
SmithStart(onlineDDL) ==
  [schema |-> [t \in SmithTables \cup {SyncTable} |-> BaseColumns], onlineDDL |-> onlineDDL,
   smiths |-> [e \in Smiths |-> NoSmith], stmt |-> NoStmt]

Began(e) == DOMAIN st.smiths[e].db # {}
Made(kind, e, drawn, columns) == [kind |-> kind, by |-> {e}, drawn |-> drawn, columns |-> columns]

reloadSchema(e) ==
  LET db == LoadSchema(FetchSchema(st.schema))
  IN \E tables \in IF st.onlineDDL THEN RandTables(db) ELSE {{}} :
       Go([st EXCEPT !.stmt = NoStmt,
                     !.smiths[e] = [db |-> BeginWithOnlineTables(db, tables),
                                    dbOnline |-> st.onlineDDL, onlineTable |-> tables]])
EndOf(e) ==
  Began(e) /\ Go([st EXCEPT !.stmt = NoStmt, !.smiths[e].db = EndTransaction(@),
                            !.smiths[e].dbOnline = FALSE, !.smiths[e].onlineTable = DOMAIN st.smiths[e].db])

GenerateDMLSelect(e) ==
  \E drawn \in [1 .. tableRefsClause(SelectDepth) -> randTable(st.smiths[e], FALSE)] :
    Go([st EXCEPT !.stmt = Made("select", e, drawn, {})])
GenerateDMLWrite(e) ==
  \E kind \in {"insert", "update", "delete"}, t \in randTable(st.smiths[e], TRUE) :
    Go([st EXCEPT !.stmt = Made(kind, e, <<t>>, {})])

(* DDL is executed at once; the others learn of it when they begin. *)
GenerateDDLCreateTable(e) ==
  \E t \in SmithNew : \E columns \in SUBSET SmithNew :
    /\ t \notin DOMAIN st.schema /\ Cardinality(columns) <= 1
    /\ Go([st EXCEPT !.schema = (t :> columns \cup {c.column : c \in Range(randNewTable(<<>>))}) @@ @,
                     !.stmt = Made("create", e, <<t>>, columns)])
alterTableSpecAddColumns(e, t) ==
  \E c \in SmithNew :
    /\ c \notin st.schema[t]
    /\ Go([st EXCEPT !.schema[t] = @ \cup {c}, !.stmt = Made("alter", e, <<t>>, {c})])
alterTableSpecDropIndex(e, t) == Go([st EXCEPT !.stmt = Made("drop index", e, <<t>>, {})])
walkAlterTableStmt(e, t) == alterTableSpecAddColumns(e, t) \/ alterTableSpecDropIndex(e, t)
GenerateDDLAlterTable(e) == \E t \in randTable(st.smiths[e], FALSE) : walkAlterTableStmt(e, t)
walkCreateIndexStmt(s, t) == s.db[t].columns
GenerateDDLCreateIndex(e) ==
  \E t \in randTable(st.smiths[e], FALSE) :
    Go([st EXCEPT !.stmt = Made("create index", e, <<t>>, walkCreateIndexStmt(st.smiths[e], t))])

SmithStep ==
  \E e \in Smiths :
    \/ reloadSchema(e) \/ EndOf(e)
    \/ /\ Began(e)
       /\ \/ GenerateDMLSelect(e) \/ GenerateDMLWrite(e) \/ GenerateDDLCreateTable(e)
          \/ GenerateDDLAlterTable(e) \/ GenerateDDLCreateIndex(e)
-----------------------------------------------------------------------------
Resolves(ref, froms) == \E t \in froms : t.table = ref.table /\ ref.column \in DOMAIN t.columns

(* A SELECT names in each clause what its FROM clause introduces.  The     *)
(* WHERE of a join is the exception: it names the merged table, which no   *)
(* clause introduces.                                                      *)
SelectIsRight(s, drawn) ==
  LET at == walkSelectStmt(s, drawn)
  IN \A i \in DOMAIN drawn :
       LET q == at[i]
       IN /\ Cardinality(Scope(q.froms)) = IF i = Len(drawn) THEN 1 ELSE 2
          /\ \A f \in q.fields : Resolves(f.ref, q.froms)
          /\ \A ref \in q.on : Resolves(ref, q.froms)
          /\ q.order = {f.as : f \in q.fields}
          /\ \A ref \in q.where :
               IF i = Len(drawn) THEN Resolves(ref, q.froms) ELSE ref.table \notin Scope(q.froms)
          /\ \A j \in i + 1 .. Len(drawn) : at[j].table.inner \subseteq q.table.inner
          /\ i < Len(drawn) => GenerateHintExpr(q.table) # {}
          /\ \A t \in DOMAIN s.db, again \in BOOLEAN :
               LET in == walkPatternInExpr(s, q.table, IF again THEN <<drawn[1], t>> ELSE <<t>>)
               IN in.valid => (in.row = in.fields <=> ~again)

(* What a statement names is in the database, however old the schema that  *)
(* it was made from is: nothing drops a column.  An INSERT has a value for *)
(* each column, no statement sets an id, and one that writes keeps to the  *)
(* tables that its transaction announced.                                  *)
StatementsAreRight ==
  /\ \A e \in st.stmt.by :
       LET s == st.smiths[e]
           t == st.stmt.drawn[1]
           kind == st.stmt.kind
       IN /\ \A x \in Range(st.stmt.drawn) \cap DOMAIN s.db :
               x \in DOMAIN st.schema /\ s.db[x].columns \subseteq st.schema[x]
          /\ t # SyncTable
          /\ kind = "select" => SelectIsRight(s, st.stmt.drawn)
          /\ kind = "insert" =>
               LET q == walkInsertStmt(s, t)
               IN q.columns = q.list /\ q.columns \subseteq st.schema[t] \ {"id"} /\ "uuid" \in q.columns
          /\ kind = "update" =>
               LET q == walkUpdateStmt(s, t)
               IN q.assigned \subseteq st.schema[t] \ {"id", "uuid"} /\ \A r \in q.where : r.table = t
          /\ kind = "delete" => \A r \in walkDeleteStmt(s, t).where : r.column \in st.schema[t]
          /\ kind \in {"insert", "update", "delete"} /\ s.dbOnline => t \in s.onlineTable
          /\ st.stmt.columns \subseteq st.schema[t]
  /\ ConditionsAreFilled /\ TablesAreRight
  /\ \A total \in 0 .. 7, batch \in 1 .. 3 :
       FoldLeft(+, 0, DataGenerator(total, batch)) = total
=============================================================================
