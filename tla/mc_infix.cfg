SPECIFICATION Spec
CONSTANTS
 StackWosize = 2
 StaticHeap <- StaticString
 DynamicWosize = 9
 MaxWosize = 5
 InitialGlobals <- Nothing
 Opcodes = {"ACC","POP","PUSH","CLOSUREREC"}
 MakeSizes = {1,2}
 EnvSizes = {0,1}
 RecFuns = {2}
 Constants <- Ints
 RawWords <- LookLikePointers
PROPERTY ImplementsMemory
CHECK_DEADLOCK FALSE
VIEW View
