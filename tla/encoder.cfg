SPECIFICATION Spec
CONSTANT Programs <- MCPrograms
INVARIANTS OffsetsExact DecodesToTargets
PROPERTY ExportTerminates
CHECK_DEADLOCK FALSE
