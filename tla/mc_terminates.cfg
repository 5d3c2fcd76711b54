SPECIFICATION Spec
CONSTANTS
 StackWosize = 2
 StaticHeap <- Nothing
 DynamicWosize = 5
 InitialGlobals <- Nothing
 Opcodes = {"PUSH","ACC","MAKEBLOCK","SETFIELD","caml_alloc_dummy","caml_update_dummy"}
 MakeSizes = {1,2}
 EnvSizes = {0}
 RecFuns = {1}
 Constants <- Ints
 RawWords <- LookLikePointers
 MaxWosize = 4
PROPERTY GcTerminates
CHECK_DEADLOCK FALSE
