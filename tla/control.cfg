SPECIFICATION ReadSpec
CONSTANTS
 Functions <- MCFunctions
 Arity <- MCArity
 Literals <- MCLiterals
 OCAML_Stack_overflow <- MCException
 OCAML_Out_of_memory <- MCException
 StackWosize = 12
 ExtraArgsRange = 4
 MaxExtraArgs = 2
 MaxShape = 3
CONSTRAINT Bounded
CHECK_DEADLOCK FALSE
INVARIANTS TypeOK TrapChain EnvIsOfFunction
PROPERTIES ImplementsCalls
