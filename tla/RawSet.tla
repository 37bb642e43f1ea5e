------------------------------- MODULE RawSet -------------------------------
(***************************************************************************)
(* Queries of a model: Conn().Raw(sql, args).QueryRow, QueryRows, Values   *)
(* and RowsToMap (framework/model/gt_model.go, rawSet) read the rows of a  *)
(* query into a container of the caller, which may hold the result of an   *)
(* earlier query.  The rows come from database/sql one at a time; the      *)
(* connection is held until they are closed.                               *)
(***************************************************************************)
EXTENDS Integers, Sequences, SequencesExt

CONSTANTS
    Null,       \* the NULL of SQL
    Width,      \* bits of the int field of the caller's struct (8 .. 64)
    MaxRows,    \* bound: rows of one query
    MaxQueries  \* bound: queries into one container

ASSUME WidthAssumption == Width \in Nat \ {0} /\ MaxRows \in Nat /\ MaxQueries \in Nat

VARIABLES
    container,  \* the operation, one of Containers
    phase,      \* "idle", "open" while rows are read, "returned"
    dest,       \* the container
    former,     \* the container as it was before the call
    filling,    \* what the call has built of the result
    read,       \* the rows the call has read
    cnt, err,   \* what the call returns
    calls       \* calls so far

rawVars == <<container, phase, dest, former, filling, read, cnt, err, calls>>

Containers == {"row", "rows", "lists", "values", "map"}

-----------------------------------------------------------------------------
(* Columns, fields and values.                                             *)

\* The columns of the query, and what QueryRow and QueryRows make of a name:
\* lower case, and "_" taken out.
Columns == <<"id", "user_id">>
Strip == [id |-> "id", user_id |-> "userid"]

\* The fields of the caller's struct by the name they ask for (their tag or
\* their own name, in lower case), and their types.
Fields == [id |-> "int", userid |-> "string", user_id |-> "int"]
FieldNames == DOMAIN Fields

Ints == {1, 2 ^ Width - 1}
ColumnValues == Ints \cup {Null}
Rows == [{Columns[i] : i \in DOMAIN Columns} -> ColumnValues]

\* Int64 of a text that exceeds 64 bits, and reflect's SetInt, keep the low bits.
Wrap(n) ==
    LET low == n % 2 ^ Width
    IN  IF low >= 2 ^ (Width - 1) THEN low - 2 ^ Width ELSE low

ToStr(value) == <<"ToStr", value>>

Zero(type) == IF type = "int" THEN 0 ELSE <<>>

SetFieldValue(type, value) ==
    IF value = Null THEN Zero(type)
    ELSE IF type = "int" THEN Wrap(value) ELSE ToStr(value)

\* columnsMp: of two columns with one stripped name the last one counts.
Column(field) == SelectLastInSeq(Columns, LAMBDA c : Strip[c] = field)

SetFields(struct, row) ==
    [f \in FieldNames |->
        IF Column(f) = 0 THEN struct[f]
        ELSE SetFieldValue(Fields[f], row[Columns[Column(f)]])]

Fresh == [f \in FieldNames |-> Zero(Fields[f])]

\* One value of a list: those of Values and RowsToMap stay strings, or nil.
Param(value) == IF value = Null THEN <<>> ELSE <<"string", value>>
ParamsOf(row) == [i \in DOMAIN Columns |-> Param(row[Columns[i]])]

\* The key of a row in the map of RowsToMap: the text of its first column, "" for NULL.
KeyOf(row) == IF row[Columns[1]] = Null THEN <<"">> ELSE <<"string", row[Columns[1]]>>

-----------------------------------------------------------------------------
EmptyOf(k) == IF k = "row" THEN Fresh ELSE <<>>

RawInit ==
    /\ container \in Containers
    /\ dest = EmptyOf(container) /\ former = dest
    /\ phase = "idle" /\ filling = <<>> /\ read = <<>>
    /\ cnt = 0 /\ err = "nil" /\ calls = 0

\* The statement is executed, and the rows are open.
Query ==
    /\ phase \in {"idle", "returned"} /\ calls < MaxQueries
    /\ phase' = "open" /\ former' = dest
    /\ filling' = <<>> /\ read' = <<>> /\ cnt' = 0 /\ err' = "nil" /\ calls' = calls + 1
    /\ UNCHANGED <<container, dest>>

\* The query fails, or no connection of the pool is free in time.
QueryFails ==
    /\ phase \in {"idle", "returned"} /\ calls < MaxQueries
    /\ phase' = "returned" /\ former' = dest
    /\ filling' = <<>> /\ read' = <<>> /\ cnt' = 0 /\ err' = "query" /\ calls' = calls + 1
    /\ UNCHANGED <<container, dest>>

ReadingRows(k) == phase = "open" /\ container = k

\* QueryRow takes the first row; a field without a column keeps its content.
QueryRow(row) ==
    /\ ReadingRows("row")
    /\ dest' = SetFields(dest, row)
    /\ read' = <<row>> /\ cnt' = 1 /\ phase' = "returned"
    /\ UNCHANGED <<container, former, filling, err, calls>>

\* QueryRows into a slice of structs: at the first row the slice of the
\* caller is emptied, the rows are appended to a copy of the slice header.
QueryRows(row) ==
    /\ ReadingRows("rows")
    /\ dest' = IF cnt = 0 THEN <<>> ELSE dest
    /\ filling' = Append(filling, SetFields(Fresh, row))
    /\ UNCHANGED <<container, phase, former, err, calls>>

\* A bug: every row is appended to what the container held.
LoopSetRefsNoInit(row) ==
    /\ ReadingRows("lists")
    /\ filling' = (IF cnt = 0 THEN dest ELSE filling) \o <<SetFieldValue("int", row[Columns[1]])>>
    /\ UNCHANGED <<container, phase, dest, former, err, calls>>

\* loopSetRefs, QueryRows into slices of single values: the first row starts
\* new slices.
LoopSetRefs(row) ==
    /\ ReadingRows("lists")
    /\ filling' = (IF cnt = 0 THEN <<>> ELSE filling) \o <<SetFieldValue("int", row[Columns[1]])>>
    /\ UNCHANGED <<container, phase, dest, former, err, calls>>

\* readValues: one list of strings for each row.
ReadValues(row) ==
    /\ ReadingRows("values")
    /\ filling' = Append(filling, ParamsOf(row))
    /\ UNCHANGED <<container, phase, dest, former, err, calls>>

\* queryRowsTo: a map from the key column to the value column; of two rows
\* with one key the last one stays.
QueryRowsTo(row) ==
    /\ ReadingRows("map")
    /\ filling' = [k \in DOMAIN filling \cup {KeyOf(row)} |->
                    IF k = KeyOf(row) THEN Param(row[Columns[2]]) ELSE filling[k]]
    /\ UNCHANGED <<container, phase, dest, former, err, calls>>

NextRow ==
    /\ phase = "open" /\ cnt < MaxRows
    /\ \E row \in Rows :
        \/ QueryRow(row)
        \/ /\ QueryRows(row) \/ LoopSetRefs(row) \/ ReadValues(row) \/ QueryRowsTo(row)
           /\ read' = Append(read, row) /\ cnt' = cnt + 1

\* Scan fails: the call returns at once, with an error and without a count.
ScanFails ==
    /\ phase = "open"
    /\ phase' = "returned" /\ cnt' = 0 /\ err' = "scan"
    /\ UNCHANGED <<container, dest, former, filling, read, calls>>

\* The container is set: without a row QueryRows leaves it as it was, the
\* others empty it.
SetRows == IF cnt = 0 THEN dest ELSE filling
SetValues == filling
SetMap == filling

\* Next returns false: no more rows, or a connection that broke; rows.Err is
\* not asked.  Without a row QueryRow returns an error.
NextEnds ==
    /\ phase = "open"
    /\ phase' = "returned"
    /\ err' = IF container = "row" THEN "ErrNoRows" ELSE "nil"
    /\ dest' = CASE container = "row" -> dest
                 [] container \in {"rows", "lists"} -> SetRows
                 [] container = "values" -> SetValues
                 [] container = "map" -> SetMap
    /\ UNCHANGED <<container, former, filling, read, cnt, calls>>

RawNext == Query \/ QueryFails \/ NextRow \/ ScanFails \/ NextEnds

RawSpec == RawInit /\ [][RawNext]_rawVars

-----------------------------------------------------------------------------
(* Properties.                                                             *)

Mapped(F(_)) == [i \in DOMAIN read |-> F(read[i])]

\* A call that returns without an error and with a count returns this query's
\* rows in their order and nothing of an earlier query, but for the fields of
\* a struct no column is for; a call that fails leaves the container as it was,
\* or empty: never with rows of two queries, nor with some of the rows of one
\* (gt_model.go QueryRow, QueryRows, readValues, queryRowsTo).
ResultIsOwn ==
    /\ phase = "returned" /\ err = "nil" /\ cnt > 0 =>
        CASE container = "row" -> \A f \in FieldNames :
                dest[f] = IF f = "user_id" THEN former[f] ELSE SetFields(Fresh, read[1])[f]
          [] container = "rows" -> dest = Mapped(LAMBDA row : SetFields(Fresh, row))
          [] container = "lists" -> dest = Mapped(LAMBDA row : SetFieldValue("int", row["id"]))
          [] container = "values" -> dest = Mapped(ParamsOf)
          [] container = "map" ->
                /\ DOMAIN dest = {KeyOf(read[i]) : i \in DOMAIN read}
                /\ \A i \in DOMAIN read :
                    (\A j \in i + 1 .. Len(read) : KeyOf(read[j]) # KeyOf(read[i])) =>
                        dest[KeyOf(read[i])] = Param(read[i]["user_id"])
    /\ phase = "returned" /\ err # "nil" => dest \in {former, EmptyOf(container)}
=============================================================================
