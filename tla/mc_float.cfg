SPECIFICATION Spec
CONSTANTS
 StackWosize = 2
 StaticHeap <- StaticString
 DynamicWosize = 7
 MaxWosize = 4
 InitialGlobals <- Nothing
 Opcodes = {"CONST","PUSH","CLOSURE","caml_gc_run"}
 MakeSizes = {1,2}
 EnvSizes = {1}
 RecFuns = {1}
 Constants <- Floats
 RawWords <- LookLikePointers
INVARIANT MemorySafe
CHECK_DEADLOCK FALSE
VIEW View
