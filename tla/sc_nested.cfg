SPECIFICATION Spec
CONSTANTS
 StackWosize = 3
 StaticHeap <- Nothing
 DynamicWosize = 20
 InitialGlobals <- Nothing
 Opcodes = {"PUSH","MAKEBLOCK","ACC","POP","CLOSUREREC","caml_gc_run"}
 MakeSizes = {1,2}
 EnvSizes = {0,1}
 RecFuns = {2}
 Constants <- Ints
 RawWords <- LookLikePointers
CHECK_DEADLOCK FALSE
VIEW View
INVARIANT MemorySafe
