---------------------------- MODULE NullOverlay ----------------------------
(***************************************************************************)
(* NullOverlay (C4): translates between the table rows it wraps (its       *)
(* outer space, n rows) and the storage elements below it (one per         *)
(* non-null row).  Its code is not part of this source tree; modelled from *)
(* spec.md sections 3, 4.6 and scenarios S3/S4.  An overlay is a record    *)
(* [n |-> outer row count, nonNull |-> set of non-null outer rows].        *)
(***************************************************************************)
EXTENDS Integers, Sequences, FiniteSets

OverlayOps == {"IsNull", "IsNotNull", "Other"}

\* overlays::FilterOpToOverlayOp: only the null distinctions survive.
FilterOpToOverlayOp(op) ==
  IF op \in {"IsNull", "IsNotNull"} THEN op ELSE "Other"

\* The storage element of outer row i: the number of non-null rows before
\* it (BitVector::CountSetBits(i) on the null mask).
StorageIndexOf(o, i) == Cardinality({j \in o.nonNull : j < i})

\* MapToStorageRange: the table range [b, e) narrowed to storage elements.
MapToStorageRange(o, rg) ==
  [b |-> StorageIndexOf(o, rg.b), e |-> StorageIndexOf(o, rg.e)]

\* MapToStorageIndexVector: storage indices of rows known to be non-null.
MapToStorageIndexVector(o, idx) ==
  [k \in DOMAIN idx |-> StorageIndexOf(o, idx[k])]

\* IsStorageLookupRequired: only non-null rows need the storage.
IsStorageLookupRequired(o, oop, idx) ==
  [k \in 0..Len(idx) - 1 |-> idx[k + 1] \in o.nonNull]

\* IndexSearch on the rows decided by the overlay alone (null rows): they
\* satisfy IS NULL and nothing else.
OverlayIndexSearch(o, oop, idx) ==
  [k \in 0..Len(idx) - 1 |-> idx[k + 1] \notin o.nonNull /\ oop = "IsNull"]

\* MapToTableBitVector: lifts a storage bit vector to the outer rows; a
\* null row is set iff the op is IS NULL.
MapToTableBitVector(o, sbv, oop) ==
  [i \in 0..o.n - 1 |->
     IF i \in o.nonNull THEN sbv[StorageIndexOf(o, i)] ELSE oop = "IsNull"]

=============================================================================
