-------------------------- MODULE MCQueryExecutor --------------------------
(***************************************************************************)
(* Model-checking instance of QueryExecutor.                               *)
(***************************************************************************)
EXTENDS QueryExecutor

\* Every op of the code, compared with the value 1 of storages over {0, 1}:
\* between them they select no element, every element, only 0 or only 1.
MCConstraints == {[op |-> o, val |-> 1] : o \in FilterOps}

\* Any row map of the table, in ascending order as FilterLegacy's range and
\* every later FilterColumn result are.
MCAllRowMaps == {Ascending(S) : S \in SUBSET (0..N - 1)}

\* FilterLegacy's starting row map: RowMap rm(0, table->row_count()).
MCFullRange == {Ascending(0..N - 1)}

\* Row maps of at most two rows: enough for FilterColumn to pick the
\* indexed strategy on a six-row table ({0, 5}: 2 / 5 < 0.5).
MCSparseRowMaps == {Ascending(S) : S \in {S \in SUBSET (0..N - 1) :
                                             Cardinality(S) <= 2}}
=============================================================================
