SPECIFICATION Spec
CONSTANTS
 StackWosize = 2
 StaticHeap <- OneStaticBlock
 DynamicWosize = 12
 InitialGlobals <- ToStaticBlock
 Opcodes = {"PUSH","MAKEBLOCK","caml_array_sub","caml_gc_run"}
 MakeSizes = {1,2}
 EnvSizes = {1}
 RecFuns = {1}
 Constants <- Ints
 RawWords <- LookLikePointers
INVARIANT MemorySafe
CHECK_DEADLOCK FALSE
VIEW View
