-------------------------------- MODULE Profile --------------------------------
(***************************************************************************)
(* The column profile that answers a "describe" instruction                *)
(* (internal/profile/profile.go): one pass over the rows of a file, with   *)
(* one accumulator for each column that is not dropped.                    *)
(*                                                                         *)
(* A row gives each column a cell: a value, Null (an empty field, a JSON   *)
(* null, a definition level below the maximum), or Absent (a short record, *)
(* a key the object does not have).  A row that cannot be parsed is Bad.   *)
(* The estimate of distinct values is the set it estimates.                *)
(***************************************************************************)
EXTENDS Integers, Sequences, FiniteSets

CONSTANTS Cols, Rows,           \* columns, and the rows a file may have
          Infer,                \* value -> "integer", "float", ... (infer)
          SchemaKind,           \* parquetType and the logical type, per column
          Sample, Limits,       \* 10000, and the limit of columns: {1000} in the code
          Drops,                \* what a configuration may drop
          Absent, Null, Bad, None,
          MaxRows

Formats == {"delimited", "json", "parquet"}

VARIABLES format, file, \* the file: its rows in order
          group,        \* Parquet: rows of a row group
          counted,      \* Parquet: the footers that hold null counts, by group
          drop, limit,  \* columns the configuration drops; the limit of columns
          pos, acc,     \* rows read; column -> accumulator
          ended         \* "reading", "described", "opaque" or "failed"

fileVars == <<format, file, group, counted, drop, limit>>
vars == <<format, file, group, counted, drop, limit, pos, acc, ended>>

Values == DOMAIN Infer
Accumulator(kind, nulls) == [kind |-> kind, nulls |-> nulls, seen |-> 0, distinct |-> {}]
Groups == 1 .. ((Len(file) + group - 1) \div group)

Init ==
    /\ format \in Formats
    /\ \E n \in 0 .. MaxRows : file \in [1 .. n -> Rows]
    /\ drop \in Drops /\ limit \in (IF format = "json" THEN Limits ELSE {0})
    /\ pos = 0 /\ ended = "reading"
    /\ IF format = "parquet"
       THEN group \in {1, 2} /\ counted \in SUBSET Groups
            /\ (\A i \in DOMAIN file : file[i] # Bad /\ \A c \in Cols : file[i][c] # Absent)
       ELSE group = 1 /\ counted = {}
    /\ acc = [c \in (IF format = "json" THEN {} ELSE Cols \ drop) |->
                 Accumulator(IF format = "parquet" THEN SchemaKind[c] ELSE "none", 0)]

-----------------------------------------------------------------------------
(* Accumulators *)

\* What a further type makes of the type so far.
Join(kind, t) ==
    IF kind \in {"none", t} THEN t
    ELSE IF {kind, t} = {"integer", "float"} THEN "float" ELSE "string"

\* add: a null is counted; the type comes from the first values only.
Add(a, cell) ==
    IF cell \notin Values THEN [a EXCEPT !.nulls = @ + 1]
    ELSE [a EXCEPT !.distinct = @ \cup {cell},
                   !.seen = IF @ < Sample THEN @ + 1 ELSE @,
                   !.kind = IF a.seen < Sample THEN Join(@, Infer[cell]) ELSE @]

\* NullRate: per cent, to the nearest multiple of five.
NullRate(nulls, rows) == 5 * ((40 * nulls + rows) \div (2 * rows))

Row == file[pos + 1]
Reading(f) == ended = "reading" /\ format = f

-----------------------------------------------------------------------------
(* The three readers *)

\* delimited: a short record has nulls at its end.
DelimitedRow ==
    /\ Reading("delimited") /\ pos < Len(file) /\ Row # Bad
    /\ pos' = pos + 1
    /\ acc' = [c \in DOMAIN acc |-> Add(acc[c], Row[c])]
    /\ UNCHANGED <<fileVars, ended>>

BackfillAll(rows) == rows

\* jsonLines: a column seen first in this row was null in all rows before it.
Backfill(rows) == rows - 1

Known(row) == DOMAIN acc \cup {c \in Cols \ drop : row[c] # Absent}

JsonRow ==
    /\ Reading("json") /\ pos < Len(file) /\ Row # Bad
    /\ Cardinality(Known(Row)) <= limit
    /\ pos' = pos + 1
    /\ acc' = [c \in Known(Row) |->
                  Add(IF c \in DOMAIN acc THEN acc[c] ELSE Accumulator("none", Backfill(pos + 1)), Row[c])]
    /\ UNCHANGED <<fileVars, ended>>

\* fallback: the rest of a file that cannot be profiled is read, and then the
\* file is described without columns.
Fallback ==
    /\ ended = "reading" /\ format # "parquet" /\ pos < Len(file)
    /\ \/ Row = Bad
       \/ Row # Bad /\ format = "json" /\ Cardinality(Known(Row)) > limit
    /\ ended' \in {"opaque", "failed"}
    /\ UNCHANGED <<fileVars, pos, acc>>

\* readParquetColumn for each column of a row group: the type is the schema's.
ParquetGroup ==
    /\ Reading("parquet") /\ pos < Len(file)
    /\ LET last == IF pos + group > Len(file) THEN Len(file) ELSE pos + group
           cells(c) == [i \in pos + 1 .. last |-> file[i][c]]
           nulls(c) == Cardinality({i \in pos + 1 .. last : cells(c)[i] \notin Values})
       IN  /\ pos' = last
           /\ acc' = [c \in DOMAIN acc |->
                         [acc[c] EXCEPT !.nulls = @ + nulls(c),
                                        !.distinct = @ \cup ({cells(c)[i] : i \in pos + 1 .. last} \cap Values)]]
    /\ UNCHANGED <<fileVars, ended>>

\* parquetFile: the null counts of the footers, when every row group has one.
FooterNulls(c) ==
    IF counted = Groups
    THEN Cardinality({i \in DOMAIN file : file[i][c] \notin Values}) ELSE acc[c].nulls

\* describe: columns in their order, a column without a value is a string.
Describe ==
    /\ ended = "reading" /\ pos = Len(file)
    /\ acc' = [c \in DOMAIN acc |->
                  [acc[c] EXCEPT !.kind = IF @ = "none" THEN "string" ELSE @,
                                 !.nulls = IF format = "parquet" THEN FooterNulls(c) ELSE @]]
    /\ ended' = "described"
    /\ UNCHANGED <<fileVars, pos>>

\* The deadline of thirty minutes, or an error of the disk.
Timeout ==
    /\ ended = "reading" /\ ended' = "failed"
    /\ UNCHANGED <<fileVars, pos, acc>>

Next == DelimitedRow \/ JsonRow \/ Fallback \/ ParquetGroup \/ Describe \/ Timeout

Spec == Init /\ [][Next]_vars

-----------------------------------------------------------------------------
(* Properties *)

\* The cells of a column, read without accumulators.
CellAt(i, c) == IF file[i][c] \in Values THEN file[i][c] ELSE None
WithValue(c) == {i \in DOMAIN file : CellAt(i, c) # None}
Sampled(c) == {i \in WithValue(c) : Cardinality({k \in WithValue(c) : k < i}) < Sample}

KindOf(c) ==
    LET kinds == {Infer[CellAt(i, c)] : i \in Sampled(c)}
    IN  IF format = "parquet" THEN SchemaKind[c]
        ELSE IF \E k \in kinds : kinds = {k} THEN CHOOSE k \in kinds : TRUE
        ELSE IF kinds = {"integer", "float"} THEN "float" ELSE "string"

Expected ==
    IF format = "json" THEN {c \in Cols \ drop : \E i \in DOMAIN file : file[i][c] # Absent}
    ELSE Cols \ drop

\* A description is of every row or it is not given: its columns are those of
\* the file that are not dropped, whatever row they first appear in; a type
\* does not depend on the order of the values it was taken from; a null rate
\* is within half a step of the share of the rows without a value; a file that
\* can be profiled is not called opaque (profile.go: jsonLines, add, NullRate).
DescribesEveryRow ==
    /\ ended = "described" =>
          /\ DOMAIN acc = Expected
          /\ \A c \in DOMAIN acc :
                LET without == Len(file) - Cardinality(WithValue(c))
                IN  /\ acc[c].kind = KindOf(c)
                    /\ acc[c].distinct = {CellAt(i, c) : i \in WithValue(c)}
                    /\ file # <<>> =>
                          LET off == NullRate(acc[c].nulls, Len(file)) * Len(file) - 100 * without
                          IN  2 * off <= 5 * Len(file) /\ 2 * off > -5 * Len(file)
    /\ ended = "opaque" =>
          \/ \E i \in DOMAIN file : file[i] = Bad
          \/ Cardinality(Expected) > limit
=============================================================================
