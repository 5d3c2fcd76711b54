SPECIFICATION Spec
CONSTANTS
 Calls <- MCCalls
 HeapBase <- MCHeapBase
 IntRange <- MCIntRange
INVARIANTS WritesAsSoftware
