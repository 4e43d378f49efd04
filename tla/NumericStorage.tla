--------------------------- MODULE NumericStorage ---------------------------
(***************************************************************************)
(* NumericStorage (C3): the innermost typed element buffer of a column.    *)
(* Its code is not part of this source tree; modelled from spec.md         *)
(* sections 3 and 4.6.  A storage is a function 0..S-1 -> values; every    *)
(* element is non-null, so IS NULL never matches and IS NOT NULL always    *)
(* does.                                                                   *)
(***************************************************************************)
EXTENDS Integers, Sequences

FilterOps == {"Eq", "Ne", "Lt", "Le", "Gt", "Ge", "IsNull", "IsNotNull"}

\* Whether a non-null element x satisfies "x op val".
Matches(op, val, x) ==
  CASE op = "Eq"        -> x = val
    [] op = "Ne"        -> x # val
    [] op = "Lt"        -> x < val
    [] op = "Le"        -> x <= val
    [] op = "Gt"        -> x > val
    [] op = "Ge"        -> x >= val
    [] op = "IsNull"    -> FALSE
    [] op = "IsNotNull" -> TRUE

\* Storage::LinearSearch: a bit vector of the storage's size, set at the
\* elements of the half-open range [rg.b, rg.e) that match.
LinearSearch(data, op, val, rg) ==
  [j \in DOMAIN data |-> rg.b <= j /\ j < rg.e /\ Matches(op, val, data[j])]

\* Storage::IndexSearch: bit k is set iff the element at idx[k] matches.
IndexSearch(data, op, val, idx) ==
  [k \in 0..Len(idx) - 1 |-> Matches(op, val, data[idx[k + 1]])]

=============================================================================
