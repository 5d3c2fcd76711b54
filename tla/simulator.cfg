SPECIFICATION Spec
CONSTANTS
 NbProc = 2
 Wire <- MCWire
 Values = {0, 1}
 PipeSize = 5
 MaxOps = 3
INVARIANTS TypeOK ComponentsAgree ReadSeesReaction
PROPERTIES AccessReturns EverythingStops
CHECK_DEADLOCK FALSE
