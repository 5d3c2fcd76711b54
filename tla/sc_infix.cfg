SPECIFICATION Spec
CONSTANTS
 StackWosize = 3
 StaticHeap <- Nothing
 DynamicWosize = 14
 InitialGlobals <- Nothing
 Opcodes = {"PUSH","CLOSUREREC","MAKEBLOCK","caml_gc_run"}
 MakeSizes = {1,2}
 EnvSizes = {0,1}
 RecFuns = {2}
 Constants <- Ints
 RawWords <- LookLikePointers
INVARIANT CollectorInvariant
PROPERTY ImplementsMemory
CHECK_DEADLOCK FALSE
VIEW View
