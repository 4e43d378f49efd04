---------------------------- MODULE TracedValue ----------------------------
(***************************************************************************)
(* WriteIntoTracedValue of include/perfetto/tracing/traced_value.h: how a  *)
(* C++ value of a given type is written into a TracedValue.                *)
(*                                                                         *)
(* The choice is made by overload resolution over internal::WriteImpl,     *)
(* tagged with priorities 4 (a WriteIntoTracedValue member), 3 (a          *)
(* TraceFormatTraits specialisation), 2 (a callable) and 1 (an iterable of *)
(* supported elements): the viable overload of highest priority wins.  At  *)
(* priority 3 a full specialisation of TraceFormatTraits matching the type *)
(* wins over the partial ones; several matching partial ones would be      *)
(* ambiguous.  Pointers, unique_ptrs and containers write their contents   *)
(* through the same dispatch, so the operators are mutually recursive.     *)
(*                                                                         *)
(* A type is a record [k |-> kind, arg |-> <<>> or <<pointee / element>>]. *)
(* A value of a pointer type is <<>> (null) or <<pointee value>>; of a     *)
(* container or string type, the sequence of its elements; else "v".  The *)
(* output is the sequence of calls made on the scopes: a Write* call (named *)
(* by what it writes), "WriteArray", "WriteDictionary", the AppendItem and *)
(* AddItem of TracedArray and TracedDictionary, and "End" where a scope   *)
(* (array, dictionary or an item's TracedValue) is destroyed.             *)
(* A callable is opaque ("lambda"), or ("dictlambda") the callable of the  *)
(* header's example: it captures one value of its arg type, opens a       *)
(* dictionary and Adds the value under a key.                             *)
(* Which of a signed and an unsigned integer char is depends on the build, *)
(* so charSigned is chosen in Init.                                        *)
(***************************************************************************)
EXTENDS Integers, Sequences, SequencesExt

CONSTANTS
  Types,        \* the C++ types written
  ValuesOf(_)   \* the values of a type the program may write

VARIABLES
  ty,          \* the static type of the argument
  val,         \* its value
  charSigned,  \* std::is_signed<char> in this build
  out          \* what was written, or Unwritten before the call

vars == <<ty, val, charSigned, out>>

\* One Write* call.
Node(w) == <<w>>

Arg(t) == t.arg[1]

Unwritten == <<"Unwritten">>

(***************************************************************************)
(* The type traits the specialisations are enabled on.                     *)
(***************************************************************************)
Integral(t) == t.k \in {"int", "uint", "bool", "char", "cchar"}

Signed(t) == t.k = "int" \/ (t.k \in {"char", "cchar"} /\ charSigned)

IsEnum(t) == t.k \in {"senum", "uenum"}

\* The element type of an iterable: *std::begin(value).
Iterable(t) == t.k \in {"vec", "string", "chararr"}

\* For std::vector<bool> that is a std::vector<bool>::reference proxy, a
\* class of its own ("bitref") that is none of the kinds above.
Elem(t) ==
  CASE t.k = "vec" /\ Arg(t).k = "bool" -> [k |-> "bitref", arg |-> <<>>]
    [] t.k = "vec" /\ Arg(t).k # "bool" -> Arg(t)
    [] t.k # "vec" -> [k |-> "char", arg |-> <<>>]

\* The full specialisations of TraceFormatTraits: bool, const char*,
\* std::string, void*, const void*, std::nullptr_t.
FullSpec(t) ==
  CASE t.k = "bool" -> "bool"
    [] t.k = "string" -> "string"
    [] t.k = "nullptr" -> "nullptr"
    [] t.k = "ptr" /\ Arg(t).k = "cchar" -> "cstr"
    [] t.k = "ptr" /\ Arg(t).k \in {"void", "cvoid"} -> "voidptr"
    [] OTHER -> "none"

RECURSIVE Supported(_), Priority(_), Traits(_), PartialSpecs(_), Viable(_, _)

\* The partial specialisations whose enable_if holds for t.
PartialSpecs(t) ==
  {s \in {"signed_int", "unsigned_int", "float", "signed_enum",
          "unsigned_enum", "char_n", "unique_ptr", "raw_ptr"} :
     CASE s = "signed_int" -> Integral(t) /\ t.k # "bool" /\ Signed(t)
       [] s = "unsigned_int" -> Integral(t) /\ t.k # "bool" /\ ~Signed(t)
       [] s = "float" -> t.k = "double"
       [] s = "signed_enum" -> t.k = "senum"
       [] s = "unsigned_enum" -> t.k = "uenum"
       [] s = "char_n" -> t.k = "chararr"
       [] s = "unique_ptr" -> t.k = "uptr" /\ Supported(Arg(t))
       [] s = "raw_ptr" -> t.k = "ptr" /\ Supported(Arg(t))}

\* The TraceFormatTraits<remove_cvref_t<T>> that applies: "none" if no
\* specialisation does, "ambiguous" if several partial ones do.
Traits(t) ==
  LET ps == PartialSpecs(t)
  IN  CASE FullSpec(t) # "none" -> FullSpec(t)
        [] FullSpec(t) = "none" /\ ps = {} -> "none"
        [] FullSpec(t) = "none" /\ \E s \in ps : ps = {s} ->
             CHOOSE s \in ps : TRUE
        [] FullSpec(t) = "none" /\ Cardinality(ps) > 1 -> "ambiguous"

\* Whether the WriteImpl overload tagged priority_tag<p> is viable for t:
\* a WriteIntoTracedValue member, a TraceFormatTraits specialisation, an
\* operator() taking a TracedValue, an iterable of supported elements.
Viable(t, p) ==
  CASE p = 4 -> t.k = "member"
    [] p = 3 -> Traits(t) \notin {"none", "ambiguous"}
    [] p = 2 -> t.k \in {"lambda", "dictlambda"}
    [] p = 1 -> Iterable(t) /\ Supported(Elem(t))

\* Seeded fault: the iterable overload outranks all but the member one.
PriorityIterableFirst(t) ==
  LET ps == {p \in 1..4 : Viable(t, p)}
  IN  CASE ps = {} -> 0
        [] ps # {} /\ 1 \in ps /\ 4 \notin ps -> 1
        [] ps # {} /\ (1 \notin ps \/ 4 \in ps) -> Max(ps)

\* The priority of the WriteImpl overload chosen: the highest viable one,
\* 0 if none is viable.
Priority(t) ==
  LET ps == {p \in 1..4 : Viable(t, p)}
  IN  IF ps = {} THEN 0 ELSE Max(ps)

\* internal::has_traced_value_support<T> / check_traced_value_support_t.
Supported(t) == Priority(t) > 0

(***************************************************************************)
(* Writing.                                                                *)
(***************************************************************************)
RECURSIVE WriteIntoTracedValue(_, _), ArrayAppend(_, _), DictAdd(_, _)

\* Seeded fault: Append writes the item into the array's own scope.
ArrayAppendWithoutItem(t, v) == WriteIntoTracedValue(t, v)

\* TracedArray::Append(value): WriteIntoTracedValue(AppendItem(), value);
\* the item's TracedValue is destroyed at the end of the full expression.
ArrayAppend(t, v) ==
  <<"AppendItem">> \o WriteIntoTracedValue(t, v) \o <<"End">>

\* Seeded fault: Add writes the value into the dictionary's own scope.
DictAddWithoutItem(t, v) == WriteIntoTracedValue(t, v)

\* TracedDictionary::Add(key, value): WriteIntoTracedValue(AddItem(key),
\* value); the item's TracedValue is destroyed at the end of the statement.
DictAdd(t, v) ==
  <<"AddItem">> \o WriteIntoTracedValue(t, v) \o <<"End">>

\* WriteImpl at priority 2 calls the callable with the context.  The
\* example callable moves it into WriteDictionary, Adds its captured value,
\* and the dictionary is destroyed when the callable returns.
CallDictLambda(t, v) ==
  <<"WriteDictionary">> \o DictAdd(Arg(t), v) \o <<"End">>

\* The body of the chosen TraceFormatTraits::WriteIntoTracedValue.
WriteTraits(t, v) ==
  CASE Traits(t) \in {"signed_int", "signed_enum"} -> Node("Int64")
    [] Traits(t) \in {"unsigned_int", "unsigned_enum"} -> Node("UInt64")
    [] Traits(t) = "bool" -> Node("Boolean")
    [] Traits(t) = "float" -> Node("Double")
    [] Traits(t) \in {"cstr", "char_n", "string"} -> Node("String")
    [] Traits(t) = "nullptr" -> Node("Null")
    [] Traits(t) = "voidptr" -> IF v = <<>> THEN Node("Null") ELSE Node("Pointer")
    \* unique_ptr: WriteIntoTracedValue(context, value.get()), a T*
    [] Traits(t) = "unique_ptr" ->
         WriteIntoTracedValue([k |-> "ptr", arg |-> t.arg], v)
    [] Traits(t) = "raw_ptr" ->
         IF v = <<>> THEN Node("Null") ELSE WriteIntoTracedValue(Arg(t), v[1])

\* WriteIntoTracedValue(context, value): internal::WriteImpl with
\* priority_tag<kMaxWriteImplPriority>.
WriteIntoTracedValue(t, v) ==
  CASE Priority(t) = 2 /\ t.k = "dictlambda" -> CallDictLambda(t, v)
    [] Priority(t) = 4 \/ (Priority(t) = 2 /\ t.k = "lambda") -> Node("Custom")
    [] Priority(t) = 3 -> WriteTraits(t, v)
    \* WriteArray, Append(item) for each element, and the array's end
    [] Priority(t) = 1 ->
         <<"WriteArray">>
           \o FlattenSeq([i \in DOMAIN v |-> ArrayAppend(Elem(t), v[i])])
           \o <<"End">>
    [] OTHER -> Node("NoOverload")

\* WriteIntoTracedValueWithFallback: the value if its type is supported,
\* else WriteString(fallback).
WriteIntoTracedValueWithFallback(t, v) ==
  IF Supported(t) THEN WriteIntoTracedValue(t, v) ELSE Node("Fallback")

(***************************************************************************)
(* The write as a step, over every type and value.                         *)
(***************************************************************************)
Init ==
  /\ ty \in Types
  /\ val \in ValuesOf(ty)
  /\ charSigned \in BOOLEAN
  /\ out = Unwritten

Write ==
  /\ out = Unwritten
  /\ out' = WriteIntoTracedValueWithFallback(ty, val)
  /\ UNCHANGED <<ty, val, charSigned>>

Next == Write

Spec == Init /\ [][Next]_vars

(***************************************************************************)
(* Reference: what the header's comments say each type is written as.     *)
(***************************************************************************)
\* Which types have a conversion: primitives, strings, pointers and
\* containers of supported types, classes with WriteIntoTracedValue and
\* callables taking a TracedValue.
RECURSIVE DocumentedSupport(_)
DocumentedSupport(t) ==
  CASE t.k = "ptr" ->
         Arg(t).k \in {"void", "cvoid"} \/ DocumentedSupport(Arg(t))
    [] t.k = "uptr" -> DocumentedSupport(Arg(t))
    \* a container whose elements have tracing support (the comment of the
    \* iterable WriteImpl); the elements of a std::vector<bool> are
    \* std::vector<bool>::reference proxies, not bools
    [] t.k = "vec" -> Arg(t).k # "bool" /\ DocumentedSupport(Arg(t))
    \* a callable is supported whatever it captures
    [] t.k = "dictlambda" -> TRUE
    [] OTHER -> t.k \notin {"opaque", "void", "cvoid"}

\* Signed integers and signed enums as Int64, unsigned ones as UInt64,
\* C-style and C++ strings as strings, (const) void* as a pointer, raw
\* pointers and unique_ptrs as nullptr or the object they point to,
\* containers as arrays.
RECURSIVE DocumentedEncoding(_, _)
DocumentedEncoding(t, v) ==
  CASE t.k \in {"int", "senum"} -> Node("Int64")
    [] t.k \in {"uint", "uenum"} -> Node("UInt64")
    [] t.k \in {"char", "cchar"} ->
         IF charSigned THEN Node("Int64") ELSE Node("UInt64")
    [] t.k = "bool" -> Node("Boolean")
    [] t.k = "double" -> Node("Double")
    [] t.k \in {"string", "chararr"} -> Node("String")
    [] t.k \in {"member", "lambda"} -> Node("Custom")
    [] t.k = "dictlambda" ->
         <<"WriteDictionary", "AddItem">> \o DocumentedEncoding(Arg(t), v)
           \o <<"End", "End">>
    [] t.k = "nullptr" -> Node("Null")
    [] t.k = "uptr" /\ v = <<>> -> Node("Null")
    [] t.k = "uptr" /\ v # <<>> -> DocumentedEncoding(Arg(t), v[1])
    [] t.k = "ptr" /\ Arg(t).k = "cchar" -> Node("String")
    [] t.k = "ptr" /\ Arg(t).k # "cchar" /\ v = <<>> -> Node("Null")
    [] t.k = "ptr" /\ Arg(t).k \in {"void", "cvoid"} /\ v # <<>> ->
         Node("Pointer")
    [] t.k = "ptr" /\ Arg(t).k \notin {"cchar", "void", "cvoid"} /\ v # <<>> ->
         DocumentedEncoding(Arg(t), v[1])
    [] t.k = "vec" ->
         <<"WriteArray">>
           \o FlattenSeq([i \in DOMAIN v |->
                           <<"AppendItem">> \o DocumentedEncoding(Arg(t), v[i])
                             \o <<"End">>])
           \o <<"End">>

(***************************************************************************)
(* The rules for nested scopes of the comment in TracedValue: only the     *)
(* innermost live scope may be used, a new scope becomes the active one    *)
(* and its parent is active again when it is destroyed; a TracedValue is   *)
(* consumed by exactly one Write* call.  A live scope is "value" (not yet  *)
(* consumed), "written", "array" or "dict".                                *)
(***************************************************************************)
ScopeStep(st, op) ==
  LET top  == st.live[Len(st.live)]
      rest == SubSeq(st.live, 1, Len(st.live) - 1)
  IN  IF ~st.ok THEN st ELSE
      CASE op = "AppendItem" ->
             [ok |-> top = "array", live |-> Append(st.live, "value")]
        [] op = "AddItem" ->
             [ok |-> top = "dict", live |-> Append(st.live, "value")]
        [] op = "End" ->
             [ok |-> top \in {"written", "array", "dict"} /\ rest # <<>>,
              live |-> rest]
        [] op \in {"WriteArray", "WriteDictionary"} ->
             [ok |-> top = "value",
              live |-> rest \o <<"written",
                                 IF op = "WriteArray" THEN "array" ELSE "dict">>]
        [] OTHER ->
             [ok |-> top = "value", live |-> Append(rest, "written")]

\* The calls leave the root TracedValue written once, every other scope
\* destroyed, and never touch an inactive or consumed scope.
ScopesRespected(ops) ==
  LET st == FoldLeft(ScopeStep, [ok |-> TRUE, live |-> <<"value">>], ops)
  IN  st.ok /\ st.live = <<"written">>

(***************************************************************************)
(* Properties.                                                             *)
(***************************************************************************)
\* Every type written with WriteIntoTracedValueWithFallback is written as
\* the header documents it, through the priority order of WriteImpl and
\* the specialisation chosen at priority 3 (e.g. a std::string as a
\* string, not as the array of its chars it also is), and the fallback
\* string is written exactly for the types without a conversion.
WritesDocumentedEncoding ==
  out # Unwritten =>
    out = IF DocumentedSupport(ty) THEN DocumentedEncoding(ty, val)
                                   ELSE Node("Fallback")

\* Whatever type is written, through any nesting of pointers, unique_ptrs
\* and containers, the dispatch uses the scopes as the rules of the
\* TracedValue comment allow: each TracedValue it is given or creates with
\* AppendItem or AddItem is written exactly once, and only while it is the
\* active scope, and every array or dictionary it opens is closed again.
WritesRespectScopes == out # Unwritten => ScopesRespected(out)

\* A non-null std::unique_ptr<T> is written as the object it points to
\* (the comment of its TraceFormatTraits).
UniquePtrWritesPointee ==
  (out # Unwritten /\ ty.k = "uptr" /\ val # <<>>) =>
    out = DocumentedEncoding(Arg(ty), val[1])

=============================================================================
