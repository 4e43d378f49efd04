--------------------------- MODULE MCTracedValue ---------------------------
(***************************************************************************)
(* Model-checking instance of TracedValue: every type built from the       *)
(* primitive kinds by at most MCDepth pointers, unique_ptrs, vectors and   *)
(* dictionary-writing callables.                                           *)
(***************************************************************************)
EXTENDS TracedValue

MCDepth == 2

\* int, unsigned, bool, char, const char, double, signed and unsigned
\* enums, std::string, char[N], std::nullptr_t, a class with a
\* WriteIntoTracedValue member, a lambda, and a class with no conversion.
MCLeaves == {[k |-> x, arg |-> <<>>] :
               x \in {"int", "uint", "bool", "char", "cchar", "double",
                      "senum", "uenum", "string", "chararr", "nullptr",
                      "member", "lambda", "opaque"}}

MCVoids == {[k |-> x, arg |-> <<>>] : x \in {"void", "cvoid"}}

RECURSIVE MCTypesOfDepth(_)
MCTypesOfDepth(d) ==
  IF d = 0 THEN MCLeaves
  ELSE LET inner == MCTypesOfDepth(d - 1)
       IN  inner \cup {[k |-> "ptr", arg |-> <<a>>] : a \in inner \cup MCVoids}
                 \cup {[k |-> c, arg |-> <<a>>] : c \in {"uptr", "vec"}, a \in inner}
                 \* a callable that Adds an unsupported value does not compile
                 \cup {[k |-> "dictlambda", arg |-> <<a>>] :
                        a \in {a \in inner : DocumentedSupport(a)}}

MCTypes == MCTypesOfDepth(MCDepth)

\* Whether a std::unique_ptr<const char> occurs in t: the code writes it
\* through get() as a C string, not as the char it points to (the
\* question of the traced_uptr run).
RECURSIVE MCHasUptrChar(_)
MCHasUptrChar(t) ==
  \/ t.k = "uptr" /\ t.arg[1].k = "cchar"
  \/ \E i \in DOMAIN t.arg : MCHasUptrChar(t.arg[i])

MCConformingTypes == {t \in MCTypes : ~MCHasUptrChar(t)}

\* Pointers are null or point to one value, containers hold up to two
\* elements, strings are empty or not.
RECURSIVE MCValuesOf(_)
MCValuesOf(t) ==
  CASE t.k \in {"ptr", "uptr"} ->
         {<<>>} \cup {<<x>> : x \in IF t.arg[1].k \in {"void", "cvoid"}
                                    THEN {"v"} ELSE MCValuesOf(t.arg[1])}
    [] t.k = "vec" ->
         LET e == MCValuesOf(t.arg[1])
         IN  {<<>>} \cup {<<x>> : x \in e} \cup {<<x, y>> : x, y \in e}
    [] t.k \in {"string", "chararr"} -> {<<>>, <<"v">>}
    \* the value a dictionary callable captures
    [] t.k = "dictlambda" -> MCValuesOf(t.arg[1])
    [] OTHER -> {"v"}
=============================================================================
