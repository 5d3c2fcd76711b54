SPECIFICATION Spec
CONSTANTS
 StackWosize = 1
 StaticHeap <- StaticString
 DynamicWosize = 12
 InitialGlobals <- OneGlobal
 Opcodes = {"PUSH","ACC","ASSIGN","CLOSURE","CLOSUREREC","ENVACC","OFFSETCLOSURE","APPTERM1","SETRAMGLOBAL","caml_create_bytes"}
 MakeSizes = {1}
 EnvSizes = {0, 1}
 RecFuns = {1}
 Constants <- Ints
 RawWords <- LookLikePointers
 
INVARIANT CollectorInvariant
PROPERTY ImplementsMemory
CHECK_DEADLOCK FALSE
VIEW View
