SPECIFICATION Spec
CONSTANTS
 Calls <- MCCalls
 HeapBase <- MCHeapBase
 IntRange <- MCIntRange
INVARIANTS ReturnsSoftwareResult MapsArray WritesOnlyDestination AtRestOutsidePoll
PROPERTIES CallReturns
