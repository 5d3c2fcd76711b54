SPECIFICATION Spec
CONSTANTS
 StackWosize = 1
 StaticHeap <- OneStaticBlock
 DynamicWosize = 4
 InitialGlobals <- ToStaticBlock
 Opcodes = {"PUSH","MAKEBLOCK","SETFIELD","GETRAMGLOBAL","GETFIELD","caml_alloc_dummy","caml_update_dummy"}
 MakeSizes = {1, 2}
 EnvSizes = {1}
 RecFuns = {1}
 Constants <- Ints
 RawWords <- LookLikePointers
 MaxWosize = 3
INVARIANTS TypeOK MemorySafe MarkingIsExact ThreadsLeadHome CollectionIsExact
PROPERTY ImplementsMemory
CHECK_DEADLOCK FALSE
VIEW View
