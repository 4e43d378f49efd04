---------------------------- MODULE LegacyBridge ----------------------------
(***************************************************************************)
(* The legacy bridge (C7): QueryExecutor::FilterLegacy of                  *)
(* src/trace_processor/db/query_executor.cc.                               *)
(*                                                                         *)
(* FilterLegacy first walks the table's columns and builds, at the same    *)
(* index, a NumericStorage and (for a nullable column) a NullOverlay for   *)
(* every eligible column, and an empty slot for the others.  It then      *)
(* applies the constraints in order to the row map [0, row_count): a      *)
(* constraint on a column without a storage, with a value of another type *)
(* or with a row selector goes to the legacy Column::FilterInto; any other *)
(* becomes a FilterColumn call on the column's SimpleColumn.               *)
(*                                                                         *)
(* The FilterColumn calls are the steps of QueryExecutor, instantiated     *)
(* over this module's variables: the bridge binds col and leaves the      *)
(* executor to run, so both strategies run here exactly as modelled there. *)
(*                                                                         *)
(* A column is a record: its ColumnType, flags, the storage_base() buffer *)
(* (S elements, the set nonNull of non-null ones and their values data:   *)
(* one per non-null element, or for a dense column one per element) and  *)
(* sel, the column's overlay row map: the storage_base index of each table *)
(* row, iv telling whether that row map is an index vector (which may     *)
(* list the elements in any order).  The PERFETTO_DCHECK of the second    *)
(* loop aborts a debug build and is compiled out of a release build.       *)
(***************************************************************************)
EXTENDS Integers, Sequences, FiniteSets, NumericStorage

CONSTANTS
  N,               \* the largest table->row_count() of Tables
  Vals,            \* values a storage element or a constraint may hold
  Tables,          \* the tables FilterLegacy may be given (column sequences)
  BridgeConstraints, \* constraints [colIdx, op, val, valType]
  NumConstraints,  \* length of c_vec
  Builds           \* the builds: "debug" (DCHECKs on), "release"

ASSUME Builds \subseteq {"debug", "release"}

VARIABLES
  table,         \* the table (fixed in a behaviour)
  storages,      \* the |storages| vector: [present, data] per built column
  nullOverlays,  \* the |null_overlays| vector: a stack of 0 or 1 overlays
  phase,         \* "build", "filter" (between constraints), "column" or
                 \* "aborted" (a failed DCHECK)
  build,         \* the build the code runs in (fixed in a behaviour)
  col, cs, k, rm, rmInit, pc, toFilter, valid, countRemoved, ov

vars == <<table, storages, nullOverlays, phase, build,
          col, cs, k, rm, rmInit, pc, toFilter, valid, countRemoved, ov>>

QE == INSTANCE QueryExecutor
        WITH MaxOverlays <- 1,
             NumCalls <- NumConstraints,
             Constraints <- {[op |-> c.op, val |-> c.val] :
                               c \in BridgeConstraints},
             InitialRowMaps <- {[i \in 1..N |-> i - 1]}

(***************************************************************************)
(* Reference: the legacy per-column filter, Column::FilterInto (not in     *)
(* this tree; spec sections 4.7 and 8.1).  Row r reads storage_base        *)
(* element sel[r]; it is NULL unless that element is non-null, and a      *)
(* dense column keeps a slot for every element, a sparse one only for the *)
(* non-null ones.                                                          *)
(***************************************************************************)
LegacyValue(column, r) ==
  LET b == column.sel[r + 1]
  IN  CASE b \notin column.nonNull -> QE!NullRow
        [] b \in column.nonNull /\ column.dense -> column.data[b]
        [] b \in column.nonNull /\ ~column.dense ->
             column.data[Cardinality({x \in column.nonNull : x < b})]

LegacyMatches(column, c, r) ==
  LET v == LegacyValue(column, r)
  IN  IF v = QE!NullRow THEN c.op = "IsNull" ELSE Matches(c.op, c.val, v)

\* table->row_count(): every column's overlay row map has a slot per row.
RowCount(t) == Len(t[1].sel)

\* The SqlValue type of a column's values (col.type()).
SqlType(column) == IF column.type = "String" THEN "String" ELSE "Long"

(***************************************************************************)
(* The first loop: one slot of |storages| and |null_overlays| per column. *)
(***************************************************************************)
\* string, dummy and id columns, and sorted or dense ones, get no storage.
Ineligible(column) ==
  \/ column.type \in {"String", "Dummy", "Id"}
  \/ column.sorted
  \/ column.dense

NoStorage == [present |-> FALSE, data |-> <<>>]

\* The slots one column adds: a NumericStorage over storage_base's data and
\* a NullOverlay over its null bit vector when the column is nullable.
BuildSlots(column) ==
  IF Ineligible(column) THEN [storage |-> NoStorage, overlays |-> <<>>]
  ELSE [storage  |-> [present |-> TRUE, data |-> column.data],
        overlays |-> IF column.nullable
                     THEN <<[n |-> column.S, nonNull |-> column.nonNull]>>
                     ELSE <<>>]

\* Seeded fault: an ineligible column gets no |null_overlays| slot.
BuildColumnNoOverlaySlot ==
  /\ phase = "build" /\ Len(storages) < Len(table)
  /\ LET column == table[Len(storages) + 1]
         s      == BuildSlots(column)
     IN  /\ storages' = Append(storages, s.storage)
         /\ nullOverlays' = IF Ineligible(column) THEN nullOverlays
                            ELSE Append(nullOverlays, s.overlays)
  /\ UNCHANGED <<table, phase, build, col, cs, k, rm, rmInit, pc, toFilter,
                 valid, countRemoved, ov>>

\* One iteration of the column loop.
BuildColumn ==
  /\ phase = "build" /\ Len(storages) < Len(table)
  /\ LET s == BuildSlots(table[Len(storages) + 1])
     IN  /\ storages' = Append(storages, s.storage)
         /\ nullOverlays' = Append(nullOverlays, s.overlays)
  /\ UNCHANGED <<table, phase, build, col, cs, k, rm, rmInit, pc, toFilter,
                 valid, countRemoved, ov>>

\* RowMap rm(0, table->row_count()).
StartFilter ==
  /\ phase = "build" /\ Len(storages) = Len(table)
  /\ phase' = "filter"
  /\ rm' = [i \in 1..RowCount(table) |-> i - 1]
  /\ rmInit' = rm'
  /\ UNCHANGED <<table, storages, nullOverlays, build, col, cs, k, pc, toFilter,
                 valid, countRemoved, ov>>

(***************************************************************************)
(* The second loop: routing each constraint.                               *)
(***************************************************************************)
\* Seeded fault: a column-level row selector is not detected.
RoutesToLegacyNoSelector(c) ==
  LET column == table[c.colIdx + 1]
  IN  ~storages[c.colIdx + 1].present \/ SqlType(column) # c.valType

\* No storage, a value of another type, or a row selector (the column's
\* row map does not cover storage_base one to one): the legacy filter.
RoutesToLegacy(c) ==
  LET column == table[c.colIdx + 1]
  IN  \/ ~storages[c.colIdx + 1].present
      \/ SqlType(column) # c.valType
      \/ Len(column.sel) # column.S

\* PERFETTO_DCHECK(!col.overlay().row_map().IsIndexVector()), evaluated for
\* every constraint before it is routed; a release build does not check.
DcheckPasses(c) == build = "release" \/ ~table[c.colIdx + 1].iv

\* A debug build stops at a column whose row map is an index vector.
DcheckFails ==
  /\ phase = "filter" /\ k < NumConstraints
  /\ ~DcheckPasses(cs[k + 1])
  /\ phase' = "aborted"
  /\ UNCHANGED <<table, storages, nullOverlays, build, col, cs, k, rm, rmInit,
                 pc, toFilter, valid, countRemoved, ov>>

\* col.FilterInto(c.op, c.value, &rm).
FilterLegacyRoute ==
  /\ phase = "filter" /\ k < NumConstraints
  /\ DcheckPasses(cs[k + 1])
  /\ RoutesToLegacy(cs[k + 1])
  /\ rm' = SelectSeq(rm, LAMBDA r :
                       LegacyMatches(table[cs[k + 1].colIdx + 1], cs[k + 1], r))
  /\ k' = k + 1
  /\ UNCHANGED <<table, storages, nullOverlays, phase, build, col, cs, rmInit,
                 pc, toFilter, valid, countRemoved, ov>>

\* SimpleColumn s_col{overlays, storage}, then FilterColumn(c, s_col, &rm).
FilterColumnRoute ==
  /\ phase = "filter" /\ k < NumConstraints
  /\ DcheckPasses(cs[k + 1])
  /\ ~RoutesToLegacy(cs[k + 1])
  /\ col' = [overlays |-> nullOverlays[cs[k + 1].colIdx + 1],
             storage  |-> storages[cs[k + 1].colIdx + 1].data]
  /\ phase' = "column"
  /\ UNCHANGED <<table, storages, nullOverlays, build, cs, k, rm, rmInit, pc,
                 toFilter, valid, countRemoved, ov>>

\* A step of the FilterColumn call; the loop resumes once it has returned.
FilterColumnStep ==
  /\ phase = "column"
  /\ \/ QE!FilterColumnEmpty
     \/ QE!FilterColumnBounded
     \/ QE!FilterColumnIndexed
     \/ QE!IndexedOverlayAllLookup
     \/ QE!IndexedOverlayPartition
     \/ QE!IndexedStorageSearch
  /\ phase' = IF pc' = "idle" THEN "filter" ELSE "column"
  /\ UNCHANGED <<table, storages, nullOverlays, build>>

Init ==
  /\ table \in Tables
  /\ storages = <<>> /\ nullOverlays = <<>>
  /\ phase = "build"
  /\ build \in Builds
  /\ col = [overlays |-> <<>>, storage |-> <<>>]
  /\ cs \in [1..NumConstraints -> BridgeConstraints]
  /\ k = 0
  /\ rm = <<>> /\ rmInit = <<>>
  /\ pc = "idle"
  /\ toFilter = QE!NewHelper(<<>>)
  /\ valid = <<>> /\ countRemoved = 0 /\ ov = 1

Next ==
  \/ BuildColumn
  \/ StartFilter
  \/ DcheckFails
  \/ FilterLegacyRoute
  \/ FilterColumnRoute
  \/ FilterColumnStep

\* FilterLegacy is a plain function call: it never suspends.
Spec == Init /\ [][Next]_vars /\ WF_vars(Next)

(***************************************************************************)
(* Properties.                                                             *)
(***************************************************************************)
\* Types; slot i of |storages| and |null_overlays| belongs to column i:
\* it holds a storage exactly when column i is eligible and a null overlay
\* exactly when that column is also nullable, so the constraint loop,
\* which indexes both vectors by c.col_idx, finds each column's own slots.
TypeOK ==
  /\ build \in Builds
  /\ phase \in {"build", "filter", "column", "aborted"}
  /\ Len(storages) = Len(nullOverlays)
  /\ Len(storages) <= Len(table)
  /\ phase # "build" => Len(storages) = Len(table)
  /\ \A i \in 1..Len(storages) :
       /\ storages[i].present = ~Ineligible(table[i])
       /\ (nullOverlays[i] # <<>>) = (storages[i].present /\ table[i].nullable)
  /\ k \in 0..NumConstraints
  /\ rm \in Seq(0..N - 1)

\* Between constraints, the row map holds exactly, in ascending order, the
\* rows that satisfy every constraint applied so far under the legacy
\* per-column filter, whichever route each constraint took: FilterColumn
\* must see the same values as Column::FilterInto through the storage and
\* null overlay the bridge built for that column.
BridgeMatchesLegacy ==
  phase = "filter" =>
    rm = QE!Ascending({r \in 0..RowCount(table) - 1 :
                        \A j \in 1..k :
                          LegacyMatches(table[cs[j].colIdx + 1], cs[j], r)})

=============================================================================
