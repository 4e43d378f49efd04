--------------------------- MODULE MCLegacyBridge ---------------------------
(***************************************************************************)
(* Model-checking instance of LegacyBridge: two-column tables of two and *)
(* of six rows.                                                            *)
(***************************************************************************)
EXTENDS LegacyBridge

\* A column with the given type and flags over storage_base elements
\* 0..S-1, its row map sel (an index vector if iv).
Column(t, srt, dns, nbl, S, sel, iv, nn, d) ==
  [type |-> t, sorted |-> srt, dense |-> dns, nullable |-> nbl,
   S |-> S, sel |-> sel, iv |-> iv, nonNull |-> nn, data |-> d]

Identity(n) == [i \in 1..n |-> i - 1]

\* Every value assignment of a sparse buffer with the non-null elements nn.
Buffers(nn) == [0..Cardinality(nn) - 1 -> Vals]

\* The columns of an n-row table whose buffers come from Bufs(nn), for
\* the non-null element sets NullSets(S) of an S-element storage_base:
\* plain and nullable Int64 columns (eligible), dense nullable ones whose
\* element 0 is null (a slot for every element, the null one holding
\* whatever was left in it), ones whose row map skips element 1 of n + 1
\* so that row 1 reads element 2, ones whose row map is an index vector
\* listing the elements in reverse as a sorted table's columns have, and
\* string columns (ineligible).
Family(n, Bufs(_), NullSets(_)) ==
  LET All(S) == 0..S - 1 IN
  {Column("Int64", FALSE, FALSE, FALSE, n, Identity(n), FALSE, All(n), d) :
     d \in Bufs(All(n))}
  \cup UNION {{Column("Int64", FALSE, FALSE, TRUE, n, Identity(n), FALSE,
                      nn, d) : d \in Bufs(nn)} : nn \in NullSets(n)}
  \cup {Column("Int64", FALSE, TRUE, TRUE, n, Identity(n), FALSE,
               All(n) \ {0}, d) : d \in Bufs(All(n))}
  \cup {Column("Int64", FALSE, FALSE, FALSE, n + 1,
               QE!Ascending(All(n + 1) \ {1}), FALSE, All(n + 1), d) :
          d \in Bufs(All(n + 1))}
  \cup {Column("Int64", FALSE, FALSE, FALSE, n,
               [i \in 1..n |-> n - i], TRUE, All(n), d) : d \in Bufs(All(n))}
  \cup {Column("String", FALSE, FALSE, FALSE, n, Identity(n), FALSE,
               All(n), d) : d \in Bufs(All(n))}

\* Two-row tables: every buffer and every set of nulls.
AnyNulls(S) == SUBSET (0..S - 1)
MCTwoRow == [1..2 -> Family(2, Buffers, AnyNulls)]

\* Six-row tables, where a row map of rows {0, 5} is under half full and
\* FilterColumn takes IndexedColumnFilter.  The first column keeps rows 0
\* and 5 under Eq 1 (or IsNotNull); the second is of any kind, its
\* buffer holding one value at both ends and one between them, its nulls
\* at the two ends, in the middle, or at the first two and the last.
EdgeBuffers(nn) ==
  LET m == Cardinality(nn) IN
  {[i \in 0..m - 1 |-> IF i \in {0, m - 1} THEN e ELSE x] : e, x \in Vals}
WideNulls(S) == {{0, S - 1}, 1..S - 2, {0, 1, S - 1}}
Selectors ==
  {Column("Int64", FALSE, FALSE, FALSE, 6, Identity(6), FALSE, 0..5,
          [i \in 0..5 |-> IF i \in {0, 5} THEN 1 ELSE 0]),
   Column("Int64", FALSE, FALSE, TRUE, 6, Identity(6), FALSE, {0, 5},
          [i \in 0..1 |-> 1])}
MCSixRow == {<<s, c>> : s \in Selectors,
                        c \in Family(6, EdgeBuffers, WideNulls)}

MCTables == MCTwoRow \cup MCSixRow

\* Compared with 1 over values {0, 1}: selects 1, 0, nothing, the nulls,
\* the non-nulls.
MCBridgeConstraints ==
  {[colIdx |-> i, op |-> o, val |-> 1, valType |-> "Long"] :
     i \in {0, 1}, o \in {"Eq", "Ne", "Gt", "IsNull", "IsNotNull"}}
=============================================================================
