SPECIFICATION Spec
CONSTANTS
 StackWosize = 1
 StaticHeap <- StaticString
 DynamicWosize = 6
 InitialGlobals <- OneGlobal
 Opcodes = {"PUSH","CLOSURE","CLOSUREREC","ENVACC","OFFSETCLOSURE","APPTERM1","SETRAMGLOBAL","caml_create_bytes"}
 MakeSizes = {1}
 EnvSizes = {0, 1}
 RecFuns = {1}
 Constants <- Ints
 RawWords <- LookLikePointers
 MaxWosize = 4
INVARIANT CollectorInvariant
PROPERTY ImplementsMemory
CHECK_DEADLOCK FALSE
VIEW View
