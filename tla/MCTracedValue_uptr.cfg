\* A non-null std::unique_ptr<T> against the comment of its
\* TraceFormatTraits specialisation.
CONSTANTS
  Types <- MCTypes
  ValuesOf <- MCValuesOf
SPECIFICATION Spec
INVARIANT UniquePtrWritesPointee
\* One call per behaviour.
CHECK_DEADLOCK FALSE
