SPECIFICATION Spec
CONSTANTS
 StackWosize = 2
 StaticHeap <- OneStaticBlock
 DynamicWosize = 12
 InitialGlobals <- ToStaticBlock
 Opcodes = {"PUSH","MAKEBLOCK","caml_make_vect"}
 MakeSizes = {1,2}
 EnvSizes = {1}
 RecFuns = {1}
 Constants <- Ints
 RawWords <- LookLikePointers
CHECK_DEADLOCK FALSE
VIEW View
PROPERTY ImplementsMemory
