--------------------------- MODULE QueryExecutor ---------------------------
(***************************************************************************)
(* The filter executor (C6) of src/trace_processor/db/query_executor.cc:   *)
(* QueryExecutor::FilterColumn, its two strategies BoundedColumnFilter and *)
(* IndexedColumnFilter, and the IndexFilterHelper they use.                *)
(*                                                                         *)
(* One behaviour is a caller applying the constraints cs[1], cs[2], ...   *)
(* to one simple column (C5) col, each call filtering the row map rm left  *)
(* by the previous one, as FilterLegacy's loop does.  A call either picks  *)
(* its strategy as FilterColumn does, or (the unit-test entry point of     *)
(* spec section 8.3) runs IndexedColumnFilter on any row map.  The bounded *)
(* strategy is straight-line code and is one step; the indexed strategy    *)
(* is one step per pass of its loop over the overlays and one step for    *)
(* the final storage probe, so its bookkeeping can be checked in between.  *)
(***************************************************************************)
EXTENDS Integers, Sequences, TLC, RowMapBitVector, NumericStorage, NullOverlay

CONSTANTS
  N,               \* row count of the table
  Vals,            \* values a storage element or a constraint may hold
  Constraints,     \* the constraints [op, val] a call may apply
  MaxOverlays,     \* depth of the overlay stack (kMaxOverlayCount is 8)
  NumCalls,        \* number of FilterColumn calls in a behaviour
  InitialRowMaps   \* the row maps the first call may be given

ASSUME N \in Nat /\ MaxOverlays \in Nat /\ NumCalls \in Nat \ {0}
ASSUME \A c \in Constraints : c.op \in FilterOps /\ c.val \in Vals

VARIABLES
  col,           \* the SimpleColumn: [overlays |-> <<outermost, ...>>, storage]
  cs,            \* the constraints of the calls, in call order
  k,             \* number of calls started
  rm,            \* the caller's RowMap
  rmInit,        \* history: the row map before the first call
  pc,            \* "idle" between calls, "overlays" inside IndexedColumnFilter
  toFilter,      \* IndexFilterHelper: [current |-> <<...>>, global |-> <<...>>]
  valid,         \* IndexedColumnFilter's |valid|
  countRemoved,  \* IndexedColumnFilter's |count_removed|
  ov             \* the overlay the indexed loop visits next (1 = outermost)

vars == <<col, cs, k, rm, rmInit, pc, toFilter, valid, countRemoved, ov>>

Rows == 0..N - 1

(***************************************************************************)
(* The simple columns: a stack of up to MaxOverlays null overlays, each    *)
(* over the elements the one above it keeps, and a storage holding one    *)
(* element per row the innermost overlay keeps.                            *)
(***************************************************************************)
RECURSIVE OverlayStacks(_, _)
OverlayStacks(n, d) ==
  {<<>>} \cup
    IF d = 0 THEN {}
    ELSE UNION {{<<[n |-> n, nonNull |-> m]>> \o s :
                   s \in OverlayStacks(Cardinality(m), d - 1)} :
                m \in SUBSET (0..n - 1)}

StorageSize(st) == IF st = <<>> THEN N ELSE Cardinality(st[Len(st)].nonNull)

SimpleColumns ==
  UNION {{[overlays |-> st, storage |-> d] :
            d \in [0..StorageSize(st) - 1 -> Vals]} :
         st \in OverlayStacks(N, MaxOverlays)}

(***************************************************************************)
(* Reference semantics (the legacy per-column filter, spec section 8.1):   *)
(* a table row is NULL if some overlay marks it null on the way down,      *)
(* otherwise it has the value of the storage element it reaches.           *)
(***************************************************************************)
NullRow == -1

\* The index a row reaches after the first d overlays of stack st.
RECURSIVE Descend(_, _, _)
Descend(st, d, i) ==
  IF d = 0 \/ i = NullRow THEN i
  ELSE Descend(Tail(st), d - 1,
               IF i \in Head(st).nonNull THEN StorageIndexOf(Head(st), i)
                                         ELSE NullRow)

RowMatches(column, c, r) ==
  LET j == Descend(column.overlays, Len(column.overlays), r)
  IN  IF j = NullRow THEN c.op = "IsNull"
                     ELSE Matches(c.op, c.val, column.storage[j])

(***************************************************************************)
(* IndexFilterHelper.                                                      *)
(***************************************************************************)
\* The entries of s at the 0-based positions whose bit in bv equals b.
PickAt(s, bv, b) ==
  LET pos == SelectSeq([i \in 1..Len(s) |-> i], LAMBDA i : bv[i - 1] = b)
  IN  [j \in 1..Len(pos) |-> s[pos[j]]]

\* IndexFilterHelper(indices): |current| and |global| both start as indices.
NewHelper(indices) == [current |-> indices, global |-> indices]

\* Seeded fault: when no bit is set the pairs land on the storage side.
PartitionNoneSetSwapped(h, bv) ==
  IF CountSetBits(bv) = 0
  THEN <<h, NewHelper(<<>>)>>
  ELSE <<[current |-> PickAt(h.current, bv, TRUE),
          global  |-> PickAt(h.global, bv, TRUE)],
         [current |-> PickAt(h.current, bv, FALSE),
          global  |-> PickAt(h.global, bv, FALSE)]>>

\* IndexFilterHelper::Partition: <<pairs set in bv, pairs not set in bv>>,
\* each in its original order.
Partition(h, bv) ==
  IF CountSetBits(bv) = 0
  THEN <<NewHelper(<<>>), h>>
  ELSE <<[current |-> PickAt(h.current, bv, TRUE),
          global  |-> PickAt(h.global, bv, TRUE)],
         [current |-> PickAt(h.current, bv, FALSE),
          global  |-> PickAt(h.global, bv, FALSE)]>>

\* Seeded fault: the removed count subtracts the other way round.
KeepAtSetSwappedDifference(h, bv) ==
  [helper  |-> [current |-> PickAt(h.current, bv, TRUE),
                global  |-> PickAt(h.global, bv, TRUE)],
   removed |-> CountSetBits(bv) - Len(h.current)]

\* IndexFilterHelper::KeepAtSet: the pairs set in bv, and how many were
\* removed (|current| minus the set bits).
KeepAtSet(h, bv) ==
  [helper  |-> [current |-> PickAt(h.current, bv, TRUE),
                global  |-> PickAt(h.global, bv, TRUE)],
   removed |-> Len(h.current) - CountSetBits(bv)]

(***************************************************************************)
(* Strategy choice and the bounded strategy.                               *)
(***************************************************************************)
\* FilterColumn's test: size() < 1024 and size() / range_size < 0.5, where
\* range_size = last - first is a uint32: size / 0.0 is +inf, never < 0.5,
\* and a negative difference wraps to at least 2^31, above any size.
UseIndexed(r) ==
  LET diff == r[Len(r)] - r[1]
  IN  Len(r) < 1024 /\ (diff < 0 \/ 2 * Len(r) < diff)

\* Seeded fault: the scanned range stops before the last row.
BoundedRangeLastExcluded(r) == [b |-> r[1], e |-> r[Len(r)]]

\* The table range BoundedColumnFilter starts from: [first, last + 1).
BoundedRange(r) == [b |-> r[1], e |-> r[Len(r)] + 1]

\* QueryExecutor::BoundedColumnFilter: narrow [first, last + 1) through the
\* overlays outermost first, scan the storage, lift the matches back
\* through the overlays innermost first.
BoundedColumnFilter(c, column, r) ==
  LET oop   == FilterOpToOverlayOp(c.op)
      st    == column.overlays
      range == BoundedRange(r)
      RECURSIVE Narrow(_, _)
      Narrow(rg, i) == IF i > Len(st) THEN rg
                       ELSE Narrow(MapToStorageRange(st[i], rg), i + 1)
      RECURSIVE Lift(_, _)
      Lift(bv, i) == IF i = 0 THEN bv
                     ELSE Lift(MapToTableBitVector(st[i], bv, oop), i - 1)
  IN  RowMapFromBitVector(
        Lift(LinearSearch(column.storage, c.op, c.val, Narrow(range, 1)),
             Len(st)))

(***************************************************************************)
(* Actions.                                                                *)
(***************************************************************************)
Init ==
  /\ col \in SimpleColumns
  /\ cs \in [1..NumCalls -> Constraints]
  /\ k = 0
  /\ rm \in InitialRowMaps
  /\ rmInit = rm
  /\ pc = "idle"
  /\ toFilter = NewHelper(<<>>)
  /\ valid = <<>>
  /\ countRemoved = 0
  /\ ov = 1

\* The first lines of IndexedColumnFilter: the helper pairs every row of rm
\* with itself; nothing is valid or removed yet.
StartIndexed ==
  /\ pc' = "overlays"
  /\ toFilter' = NewHelper(rm)
  /\ valid' = <<>>
  /\ countRemoved' = 0
  /\ ov' = 1

\* FilterColumn on an empty row map returns at once.
FilterColumnEmpty ==
  /\ pc = "idle" /\ k < NumCalls
  /\ rm = <<>>
  /\ k' = k + 1
  /\ UNCHANGED <<col, cs, rm, rmInit, pc, toFilter, valid, countRemoved, ov>>

\* FilterColumn on a dense or large row map: rm->Intersect(Bounded...).
FilterColumnBounded ==
  /\ pc = "idle" /\ k < NumCalls
  /\ rm # <<>> /\ ~UseIndexed(rm)
  /\ k' = k + 1
  /\ rm' = Intersect(rm, BoundedColumnFilter(cs[k + 1], col, rm))
  /\ UNCHANGED <<col, cs, rmInit, pc, toFilter, valid, countRemoved, ov>>

\* FilterColumn on a small sparse row map: *rm = IndexedColumnFilter(...).
FilterColumnIndexed ==
  /\ pc = "idle" /\ k < NumCalls
  /\ rm # <<>> /\ UseIndexed(rm)
  /\ k' = k + 1
  /\ StartIndexed
  /\ UNCHANGED <<col, cs, rm, rmInit>>

\* IndexedColumnFilter called directly (spec 8.3), whatever the density.
IndexedFilterDirect ==
  /\ pc = "idle" /\ k < NumCalls
  /\ k' = k + 1
  /\ StartIndexed
  /\ UNCHANGED <<col, cs, rm, rmInit>>

CurrentOp == FilterOpToOverlayOp(cs[k].op)

LookupRequired == IsStorageLookupRequired(col.overlays[ov], CurrentOp,
                                          toFilter.current)

\* One pass of the overlay loop when every row needs the storage: only the
\* current indices are rewritten.
IndexedOverlayAllLookup ==
  /\ pc = "overlays" /\ ov <= Len(col.overlays)
  /\ CountSetBits(LookupRequired) = BvSize(LookupRequired)
  /\ toFilter' = [toFilter EXCEPT
                    !.current = MapToStorageIndexVector(col.overlays[ov], @)]
  /\ ov' = ov + 1
  /\ UNCHANGED <<col, cs, k, rm, rmInit, pc, valid, countRemoved>>

\* One pass of the overlay loop that partitions: the rows the overlay
\* decides alone are kept or removed here, the rest go one level down.
IndexedOverlayPartition ==
  /\ pc = "overlays" /\ ov <= Len(col.overlays)
  /\ CountSetBits(LookupRequired) # BvSize(LookupRequired)
  /\ LET o      == col.overlays[ov]
         parts  == Partition(toFilter, LookupRequired)
         kept   == KeepAtSet(parts[2],
                             OverlayIndexSearch(o, CurrentOp, parts[2].current))
     IN  /\ toFilter' = [parts[1] EXCEPT
                           !.current = MapToStorageIndexVector(o, @)]
         /\ countRemoved' = countRemoved + kept.removed
         /\ valid' = valid \o kept.helper.global
  /\ ov' = ov + 1
  /\ UNCHANGED <<col, cs, k, rm, rmInit, pc>>

\* Seeded fault: |valid| becomes the row map without std::sort.
IndexedStorageSearchNoSort ==
  /\ pc = "overlays" /\ ov > Len(col.overlays)
  /\ LET kept == KeepAtSet(toFilter,
                   IndexSearch(col.storage, cs[k].op, cs[k].val,
                               toFilter.current))
         all  == valid \o kept.helper.global
     IN  /\ toFilter' = kept.helper
         /\ countRemoved' = countRemoved + kept.removed
         /\ valid' = all
         /\ rm' = all
  /\ pc' = "idle"
  /\ UNCHANGED <<col, cs, k, rmInit, ov>>

\* After the overlays: probe the storage, keep the matches, check the
\* count, sort |valid| and make it the row map.
IndexedStorageSearch ==
  /\ pc = "overlays" /\ ov > Len(col.overlays)
  /\ LET kept == KeepAtSet(toFilter,
                   IndexSearch(col.storage, cs[k].op, cs[k].val,
                               toFilter.current))
         all  == valid \o kept.helper.global
     IN  /\ toFilter' = kept.helper
         /\ countRemoved' = countRemoved + kept.removed
         /\ valid' = all
         /\ rm' = SortSeq(all, <)
  /\ pc' = "idle"
  /\ UNCHANGED <<col, cs, k, rmInit, ov>>

Next ==
  \/ FilterColumnEmpty
  \/ FilterColumnBounded
  \/ FilterColumnIndexed
  \/ IndexedFilterDirect
  \/ IndexedOverlayAllLookup
  \/ IndexedOverlayPartition
  \/ IndexedStorageSearch

\* Every call runs to completion: a filter call never suspends.
Spec == Init /\ [][Next]_vars /\ WF_vars(Next)

Done == pc = "idle" /\ k = NumCalls

(***************************************************************************)
(* Properties.                                                             *)
(***************************************************************************)
TypeOK ==
  /\ col \in SimpleColumns
  /\ cs \in [1..NumCalls -> Constraints]
  /\ k \in 0..NumCalls
  /\ rm \in Seq(Rows) /\ rmInit \in Seq(Rows)
  /\ pc \in {"idle", "overlays"}
  /\ toFilter \in [current : Seq(Nat), global : Seq(Rows)]
  /\ valid \in Seq(Rows)
  /\ countRemoved \in Nat
  /\ ov \in 1..MaxOverlays + 1

\* Between calls, the row map is exactly the ascending list of the initial
\* rows that satisfy every constraint applied so far, as the legacy filter
\* would compute them: whatever strategy FilterColumn picked, whatever
\* overlays the column stacks, and whatever order the calls came in.
FilterMatchesLegacy ==
  pc = "idle" =>
    rm = Ascending({r \in RowSet(rmInit) :
                      \A j \in 1..k : RowMatches(col, cs[j], r)})

\* Inside IndexedColumnFilter every row of rm is accounted for exactly once
\* (in |valid|, still in the helper, or counted removed, so the final
\* PERFETTO_CHECK holds), every row in |valid| matches, and each helper
\* pair still links a row to the element it reaches through the overlays
\* passed so far, which Partition must preserve.
IndexedBookkeeping ==
  pc = "overlays" =>
    /\ Len(rm) = Len(valid) + Len(toFilter.global) + countRemoved
    /\ RowSet(valid) \cap RowSet(toFilter.global) = {}
    /\ \A r \in RowSet(valid) : r \in RowSet(rm) /\ RowMatches(col, cs[k], r)
    /\ Len(toFilter.current) = Len(toFilter.global)
    /\ \A i \in 1..Len(toFilter.global) :
         /\ toFilter.global[i] \in RowSet(rm)
         /\ toFilter.current[i] = Descend(col.overlays, ov - 1,
                                          toFilter.global[i])

=============================================================================
