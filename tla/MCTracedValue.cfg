\* WriteIntoTracedValueWithFallback on every type of depth at most 2 and
\* every value of it, on builds where char is signed and where it is not;
\* the types holding a std::unique_ptr<const char> are left to traced_uptr.
CONSTANTS
  Types <- MCConformingTypes
  ValuesOf <- MCValuesOf
SPECIFICATION Spec
INVARIANTS WritesDocumentedEncoding WritesRespectScopes
\* One call per behaviour.
CHECK_DEADLOCK FALSE
