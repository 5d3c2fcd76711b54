---------------------------- MODULE ControlStack ----------------------------
(***************************************************************************)
(* The instructions of the interpreter (omicrob/src/byterun/vm/interp.c)   *)
(* that move control: APPLY, APPTERM, RETURN, RESTART, GRAB, PUSHTRAP,     *)
(* POPTRAP, RAISE, with the stack they share and its limit.                *)
(*                                                                         *)
(* The bytecode is any that ocamlc produces.  What the instructions rely   *)
(* on is that the compiler knows what lies on the stack at each point of a *)
(* function; so an address is the function, the point in it, and that      *)
(* knowledge, its shape, from the top of the stack down: "v" a value,      *)
(* "ret" the three words of PUSH_RETADDR, "trap" the four of PUSHTRAP.  At *)
(* each point the program continues with any instruction that fits the     *)
(* shape.  A function of one parameter starts with its body, one of n      *)
(* parameters with GRAB n - 1, and RESTART is just before it.              *)
(*                                                                         *)
(* The heap is not modelled here: a closure is the record of its fields.   *)
(* The stack is the sequence of its words from sp up; the words below sp   *)
(* are never read.                                                         *)
(***************************************************************************)
EXTENDS Integers, Sequences, FiniteSets

CONSTANTS
  Functions, Arity,
  Literals,          \* the integers and exceptions programs load
  OCAML_Stack_overflow, OCAML_Out_of_memory,
  StackWosize,       \* OCAML_STACK_WOSIZE
  ExtraArgsRange,    \* what uint8_t extra_args can hold: 256
  MaxExtraArgs,      \* bound: a call passes no more arguments than this, plus one
  MaxShape           \* bound: what the code of one function keeps on the stack

ASSUME FunctionsAssumption == "main" \notin Functions /\ Arity \in [Functions -> Nat \ {0}]
ASSUME BoundsAssumption ==
  {StackWosize, ExtraArgsRange, MaxExtraArgs, MaxShape} \subseteq Nat \ {0}

\* No more arguments are ever pending than extra_args can count, those that RESTART
\* adds included.
ASSUME ExtraArgsAssumption == \A f \in Functions : MaxExtraArgs + Arity[f] <= ExtraArgsRange

ASSUME LiteralsAssumption ==
  \A x \in Literals \cup {OCAML_Stack_overflow, OCAML_Out_of_memory} : x.kind # "clos"

VARIABLES
  pc, stack, acc, env, trapSp, extra_args,
  status   \* "run", or "uncaught" or "stopped" when interp has returned

vars == <<pc, stack, acc, env, trapSp, extra_args, status>>

-----------------------------------------------------------------------------
(* Values and addresses.                                                   *)

Val_int(n)     == [kind |-> "int", n |-> n]
Val_unit       == Val_int(0)
Val_codeptr(c) == [kind |-> "code", at |-> c]

\* Field 0, field 1 and the fields after them.  A closure of a function keeps no
\* values of its own here.
MakeClosure(code, e, args) == [kind |-> "clos", code |-> code, env |-> e, args |-> args]
Closure(f) == MakeClosure(<<f, "start">>, Val_unit, <<>>)
IsClosure(x) == x.kind = "clos"

Point(f, at, shape) == [fn |-> f, at |-> at, shape |-> shape]
Body(f, shape)      == Point(f, "body", shape)
Values(n)           == [i \in 1 .. n |-> "v"]

\* Codeptr_val of field 0: where the code of a closure starts.
Codeptr_val(code) ==
  LET f == code[1] IN
  IF code[2] = "restart" THEN Point(f, "restart", <<>>)
  ELSE IF Arity[f] > 1 THEN Point(f, "grab", <<>>) ELSE Body(f, Values(1))

\* The words a shape stands for.
Size(shape) ==
  LET count(item) == Cardinality({i \in DOMAIN shape : shape[i] = item}) IN
  count("v") + 3 * count("ret") + 4 * count("trap")

At(point) == status = "run" /\ pc.at = point
Next1(shape) == pc' = Body(pc.fn, shape)
Static == pc.shape

-----------------------------------------------------------------------------
(* The stack.                                                              *)

peek(n)       == stack[n + 1]
Popped(n)     == SubSeq(stack, n + 1, Len(stack))
Fits(s, n)    == Len(s) + n <= StackWosize     \* n pushes on s find room
Offset(s)     == StackWosize - Len(s)          \* sp - ocaml_stack
FromOffset(o) == SubSeq(stack, Len(stack) - (StackWosize - o) + 1, Len(stack))

\* RAISE, with x in acc, also reached by the longjmp of caml_raise (fail.c).
Raise(x) ==
  /\ acc' = x
  /\ IF trapSp = Val_int(-1)
     THEN status' = "uncaught" /\ UNCHANGED <<pc, stack, env, trapSp, extra_args>>
     ELSE LET frame == FromOffset(trapSp.n) IN
          /\ pc' = frame[1].at
          /\ trapSp' = frame[2]
          /\ env' = frame[3]
          /\ extra_args' = frame[4].n
          /\ stack' = SubSeq(frame, 5, Len(frame))
          /\ UNCHANGED status

\* caml_raise_stack_overflow
Overflow == Raise(OCAML_Stack_overflow)

\* Val_int(extra_args), env and the address, as PUSH_RETADDR and APPLY push them.
ReturnFrame(point) == <<Val_codeptr(point), env, Val_int(extra_args)>>

\* Mutant: env is left as it is.
ReturnToSameEnv(s) ==
  /\ pc' = s[1].at /\ extra_args' = s[3].n /\ UNCHANGED env
  /\ stack' = SubSeq(s, 4, Len(s))

\* The frame on top of s is popped into pc, env and extra_args.
ReturnTo(s) ==
  /\ pc' = s[1].at /\ env' = s[2] /\ extra_args' = s[3].n
  /\ stack' = SubSeq(s, 4, Len(s))

\* pc = Codeptr_val(Field(acc, 0)); env = acc
Jump == pc' = Codeptr_val(acc.code) /\ env' = acc

-----------------------------------------------------------------------------
(* interp_init                                                             *)

Init ==
  /\ pc = Body("main", <<>>) /\ stack = <<>>
  /\ acc = Val_unit /\ env = Val_unit
  /\ trapSp = Val_int(-1) /\ extra_args = 0
  /\ status = "run"

(* Instructions that compute: what matters of them is what they do to acc  *)
(* and to the stack.                                                       *)

\* ACC, CONST, GETGLOBAL, CLOSURE of a function, OFFSETCLOSURE0.
Load ==
  /\ At("body")
  /\ \/ acc' \in Literals \cup {Closure(f) : f \in Functions}
     \/ \E i \in DOMAIN Static : Static[i] = "v" /\ acc' = peek(Size(SubSeq(Static, 1, i - 1)))
     \/ pc.fn # "main" /\ acc' = env
  /\ UNCHANGED <<pc, stack, env, trapSp, extra_args, status>>

PUSH ==
  /\ At("body") /\ Len(Static) < MaxShape
  /\ IF Fits(stack, 1)
     THEN /\ stack' = <<acc>> \o stack /\ Next1(<<"v">> \o Static)
          /\ UNCHANGED <<acc, env, trapSp, extra_args, status>>
     ELSE Overflow

POP ==
  /\ At("body") /\ Static # <<>> /\ Head(Static) = "v"
  /\ stack' = Popped(1) /\ Next1(Tail(Static))
  /\ UNCHANGED <<acc, env, trapSp, extra_args, status>>

STOP ==
  /\ At("body") /\ pc.fn = "main" /\ Static = <<>>
  /\ status' = "stopped"
  /\ UNCHANGED <<pc, stack, acc, env, trapSp, extra_args>>

-----------------------------------------------------------------------------
(* Calls.                                                                  *)

PUSH_RETADDR ==
  /\ At("body") /\ Len(Static) < MaxShape
  /\ IF Fits(stack, 3)
     THEN /\ stack' = ReturnFrame(Body(pc.fn, Static)) \o stack /\ Next1(<<"ret">> \o Static)
          /\ UNCHANGED <<acc, env, trapSp, extra_args, status>>
     ELSE Overflow

\* n arguments lie on top.
HasArguments(n) == Len(Static) >= n /\ SubSeq(Static, 1, n) = Values(n)

\* APPLY n, after PUSH_RETADDR.
APPLY(n) ==
  /\ At("body") /\ IsClosure(acc)
  /\ HasArguments(n) /\ Len(Static) > n /\ Static[n + 1] = "ret"
  /\ n - 1 <= MaxExtraArgs
  /\ extra_args' = n - 1
  /\ Jump
  /\ UNCHANGED <<acc, stack, trapSp, status>>

\* Mutant: the arguments are pushed in the order they were popped.
APPLYnReversed(n) ==
  /\ At("body") /\ IsClosure(acc)
  /\ HasArguments(n) /\ n - 1 <= MaxExtraArgs
  /\ IF Fits(stack, 3)
     THEN /\ stack' = [i \in 1 .. n |-> stack[n + 1 - i]]
                      \o ReturnFrame(Body(pc.fn, SubSeq(Static, n + 1, Len(Static)))) \o Popped(n)
          /\ extra_args' = n - 1
          /\ Jump
          /\ UNCHANGED <<acc, trapSp, status>>
     ELSE Overflow

\* APPLY1, APPLY2, APPLY3: the frame goes under the arguments.
APPLYn(n) ==
  /\ At("body") /\ IsClosure(acc)
  /\ HasArguments(n) /\ n - 1 <= MaxExtraArgs
  /\ IF Fits(stack, 3)
     THEN /\ stack' = SubSeq(stack, 1, n)
                      \o ReturnFrame(Body(pc.fn, SubSeq(Static, n + 1, Len(Static)))) \o Popped(n)
          /\ extra_args' = n - 1
          /\ Jump
          /\ UNCHANGED <<acc, trapSp, status>>
     ELSE Overflow

\* The function ends here: its frame has nothing but values.
AtEnd == pc.fn # "main" /\ Static = Values(Len(Static))

\* APPTERM, APPTERM1, APPTERM2, APPTERM3: the arguments slide over the frame.
APPTERM(n) ==
  /\ At("body") /\ IsClosure(acc)
  /\ AtEnd /\ HasArguments(n)
  /\ extra_args + n - 1 <= MaxExtraArgs
  /\ stack' = SubSeq(stack, 1, n) \o Popped(Size(Static))
  /\ extra_args' = (extra_args + n - 1) % ExtraArgsRange
  /\ Jump
  /\ UNCHANGED <<acc, trapSp, status>>

\* A function given more arguments than it has parameters returns a function.
RETURN ==
  /\ At("body") /\ AtEnd
  /\ LET rest == Popped(Size(Static)) IN
     IF extra_args > 0
     THEN IsClosure(acc) /\ extra_args' = extra_args - 1 /\ Jump /\ stack' = rest
     ELSE ReturnTo(rest)
  /\ UNCHANGED <<acc, trapSp, status>>

\* Mutant: without the test of sp.
RESTARTUnchecked ==
  /\ At("restart")
  /\ stack' = env.args \o stack
  /\ env' = env.env
  /\ extra_args' = (extra_args + Len(env.args)) % ExtraArgsRange
  /\ pc' = Point(pc.fn, "grab", <<>>)
  /\ UNCHANGED <<acc, trapSp, status>>

RESTART ==
  /\ At("restart")
  /\ IF Fits(stack, Len(env.args))
     THEN /\ stack' = env.args \o stack
          /\ env' = env.env
          /\ extra_args' = (extra_args + Len(env.args)) % ExtraArgsRange
          /\ pc' = Point(pc.fn, "grab", <<>>)
          /\ UNCHANGED <<acc, trapSp, status>>
     ELSE Overflow

\* With too few arguments, they are put in a closure whose code is the RESTART
\* before this instruction.  OCamlAlloc may fail.
GRAB ==
  /\ At("grab")
  /\ LET n == Arity[pc.fn] - 1 IN
     \/ /\ extra_args >= n
        /\ extra_args' = extra_args - n
        /\ pc' = Body(pc.fn, Values(n + 1))
        /\ UNCHANGED <<stack, acc, env, trapSp, status>>
     \/ /\ extra_args < n
        /\ acc' = MakeClosure(<<pc.fn, "restart">>, env, SubSeq(stack, 1, extra_args + 1))
        /\ ReturnTo(Popped(extra_args + 1))
        /\ UNCHANGED <<trapSp, status>>
     \/ extra_args < n /\ Raise(OCAML_Out_of_memory)

-----------------------------------------------------------------------------
(* Exceptions.                                                             *)

\* Its handler continues with the stack as it is now.
PUSHTRAP ==
  /\ At("body") /\ Len(Static) < MaxShape
  /\ IF Fits(stack, 4)
     THEN /\ stack' = <<Val_codeptr(Body(pc.fn, Static)), trapSp, env, Val_int(extra_args)>> \o stack
          /\ trapSp' = Val_int(Offset(stack'))
          /\ Next1(<<"trap">> \o Static)
          /\ UNCHANGED <<acc, env, extra_args, status>>
     ELSE Overflow

\* Mutant: trapSp is not put back.
POPTRAPOnly ==
  /\ At("body") /\ Static # <<>> /\ Head(Static) = "trap"
  /\ stack' = Popped(4)
  /\ Next1(Tail(Static))
  /\ UNCHANGED <<acc, env, trapSp, extra_args, status>>

POPTRAP ==
  /\ At("body") /\ Static # <<>> /\ Head(Static) = "trap"
  /\ trapSp' = peek(1)
  /\ stack' = Popped(4)
  /\ Next1(Tail(Static))
  /\ UNCHANGED <<acc, env, extra_args, status>>

\* RAISE, and the primitives that raise.
RAISE == At("body") /\ Raise(acc)

Next ==
  \/ Load \/ PUSH \/ POP \/ STOP
  \/ PUSH_RETADDR
  \/ \E n \in 1 .. MaxShape : APPLY(n) \/ APPTERM(n)
  \/ \E n \in 1 .. 3 : APPLYn(n)
  \/ RETURN \/ RESTART \/ GRAB
  \/ PUSHTRAP \/ POPTRAP \/ RAISE

Spec == Init /\ [][Next]_vars

-----------------------------------------------------------------------------
TypeOK ==
  /\ pc.fn \in Functions \cup {"main"} /\ pc.at \in {"body", "grab", "restart"}
  /\ pc.shape \in Seq({"v", "ret", "trap"})
  /\ Len(stack) \in 0 .. StackWosize
  /\ extra_args \in 0 .. ExtraArgsRange - 1
  /\ trapSp.kind = "int" /\ trapSp.n \in -1 .. StackWosize
  /\ status \in {"run", "uncaught", "stopped"}

=============================================================================
