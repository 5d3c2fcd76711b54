SPECIFICATION Spec
CONSTANTS
 StackWosize = 2
 StaticHeap <- Nothing
 DynamicWosize = 8
 InitialGlobals <- Nothing
 Opcodes = {"PUSH","POP","ACC","MAKEBLOCK","SETFIELD","CLOSUREREC"}
 MakeSizes = {1}
 EnvSizes = {0}
 RecFuns = {2}
 Constants <- Ints
 RawWords <- LookLikePointers
 
PROPERTY GcTerminates
CHECK_DEADLOCK FALSE
