SPECIFICATION Spec
CONSTANTS
 StackWosize = 1
 StaticHeap <- OneStaticBlock
 DynamicWosize = 8
 InitialGlobals <- ToStaticBlock
 Opcodes = {"PUSH","MAKEBLOCK","SETFIELD","GETRAMGLOBAL","GETFIELD","caml_alloc_dummy","caml_update_dummy"}
 MakeSizes = {1, 2}
 EnvSizes = {1}
 RecFuns = {1}
 Constants <- Ints
 RawWords <- LookLikePointers
 
INVARIANTS TypeOK MemorySafe CheneyInvariant CollectionIsExact
PROPERTY ImplementsMemory
CHECK_DEADLOCK FALSE
VIEW View
