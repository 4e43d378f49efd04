-------------------------- MODULE RowMapBitVector --------------------------
(***************************************************************************)
(* Bit vectors (C2) and row maps (C1) of the table store.  Their code is   *)
(* not part of this source tree: both are modelled from spec.md sections   *)
(* 3, 4.4 and 4.5.                                                         *)
(*                                                                         *)
(* A bit vector of size n is a function 0..n-1 -> BOOLEAN.  A row map is   *)
(* the sequence of its rows in iteration order: a range or bitmap row map  *)
(* iterates in ascending order, a row map built from an index vector keeps *)
(* the order of that vector.                                               *)
(***************************************************************************)
EXTENDS Integers, Sequences, FiniteSets

\* BitVector::size().
BvSize(bv) == Cardinality(DOMAIN bv)

\* BitVector::CountSetBits().
CountSetBits(bv) == Cardinality({i \in DOMAIN bv : bv[i]})

\* The elements of a finite set of naturals in ascending order.
Ascending(S) ==
  [k \in 1..Cardinality(S) |->
     CHOOSE x \in S : Cardinality({y \in S : y < x}) = k - 1]

\* RowMap(BitVector): the rows whose bit is set, ascending.
RowMapFromBitVector(bv) == Ascending({i \in DOMAIN bv : bv[i]})

\* The rows of a row map, as a set.
RowSet(rm) == {rm[i] : i \in DOMAIN rm}

\* RowMap::Intersect(other): keeps, in their order, the rows also in other.
Intersect(rm, other) == SelectSeq(rm, LAMBDA r : r \in RowSet(other))

=============================================================================
