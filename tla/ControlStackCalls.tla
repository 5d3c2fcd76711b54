-------------------------- MODULE ControlStackCalls --------------------------
(***************************************************************************)
(* The control instructions implement calls and exceptions as the language *)
(* defines them (CurriedCalls): the frames are read back from the words of *)
(* the stack, with what the compiler knows at each return address.         *)
(***************************************************************************)
EXTENDS ControlStack, SequencesExt

\* What marks a handler in the frames of CurriedCalls is none of the program's values.
Trap == [kind |-> "trap"]
ASSUME TrapAssumption == Trap \notin Literals \cup {OCAML_Stack_overflow, OCAML_Out_of_memory}

\* Auxiliary: the frames and the last value read back from the state.  They are
\* functions of it, so they change no behaviour; they are here to be computed once.
VARIABLES frames, last

\* The words of the items above item i of a shape.
Above(shape, i) == Size(SubSeq(shape, 1, i - 1))

\* The values and handlers of the frame whose words start at base.
Locals(shape, base) ==
  FlattenSeq([i \in DOMAIN shape |->
                CASE shape[i] = "v"    -> <<stack[base + Above(shape, i)]>>
                  [] shape[i] = "trap" -> <<Trap>>
                  [] shape[i] = "ret"  -> <<>>])

\* The frame of a function at point, with x extra arguments, and where the return
\* frame under it starts.
FrameAt(point, x, base) ==
  LET end == base + Size(point.shape) IN
  [fn |-> point.fn, locals |-> Locals(point.shape, base), pending |-> SubSeq(stack, end, end + x - 1)]
Under(point, x, base) == base + Size(point.shape) + x

\* The functions in progress when the return frame at word i is taken.
FramesFrom(word) ==
  LET from[i \in 1 .. Len(stack)] ==
        LET point == stack[i].at
            x     == stack[i + 2].n
            next  == Under(point, x, i + 3)
        IN  <<FrameAt(point, x, i + 3)>>
              \o IF point.fn # "main" /\ next \in i + 1 .. Len(stack) THEN from[next] ELSE <<>>
  IN  from[word]

\* On the way into a function its frame counts as made, or the closure that keeps
\* its arguments as returned: what RESTART and GRAB have left to do is settled.
Entering  == pc.at \in {"restart", "grab"}
Arguments == (IF pc.at = "restart" THEN env.args ELSE <<>>) \o SubSeq(stack, 1, extra_args + 1)
TooFew    == Len(Arguments) < Arity[pc.fn]

CurrentFrames ==
  LET n == Arity[pc.fn] IN
  IF ~ Entering
  THEN <<FrameAt(pc, extra_args, 1)>>
         \o IF pc.fn = "main" THEN <<>> ELSE FramesFrom(Under(pc, extra_args, 1))
  ELSE IF TooFew
  THEN FramesFrom(extra_args + 2)
  ELSE <<[fn |-> pc.fn, locals |-> SubSeq(Arguments, 1, n),
          pending |-> SubSeq(Arguments, n + 1, Len(Arguments))]>> \o FramesFrom(extra_args + 2)

CurrentValue ==
  IF status = "run" /\ Entering /\ TooFew THEN MakeClosure(<<pc.fn, "restart">>, Closure(pc.fn), Arguments)
  ELSE acc

ReadInit == Init /\ frames = CurrentFrames /\ last = CurrentValue
ReadNext == Next /\ frames' = CurrentFrames' /\ last' = CurrentValue'
ReadSpec == ReadInit /\ [][ReadNext]_<<vars, frames, last>>

Calls == INSTANCE CurriedCalls WITH
  acc        <- last,
  Exceptions <- {OCAML_Stack_overflow, OCAML_Out_of_memory}

\* Whatever well-compiled bytecode runs, the machine calls, returns and raises as
\* the language says: a function receives its own arguments in order however they
\* were portioned out, returns to the point after its own call with the caller's
\* values there, and an exception, a stack overflow in the middle of an instruction
\* included, finds the innermost handler (interp.c:466-673, 1487-1550).
ImplementsCalls == Calls!Init /\ [][Calls!Next]_(Calls!vars)

-----------------------------------------------------------------------------
\* Where the trap frames of a function lie whose words start at base, as offsets
\* from ocaml_stack.
TrapsAt(shape, base) ==
  {StackWosize - Len(stack) + base - 1 + Above(shape, i) :
     i \in {j \in DOMAIN shape : shape[j] = "trap"}}

\* The trap frames of the functions in progress when the return frame at word i is
\* taken; the return frame of each lies below its words.
TrapsFrom(word) ==
  LET from[i \in 1 .. Len(stack)] ==
        LET point == stack[i].at
            next  == Under(point, stack[i + 2].n, i + 3)
        IN  TrapsAt(point.shape, i + 3)
              \cup IF point.fn # "main" /\ next \in i + 1 .. Len(stack) THEN from[next] ELSE {}
  IN  from[word]

Traps ==
  IF Entering THEN TrapsFrom(extra_args + 2)
  ELSE TrapsAt(pc.shape, 1)
         \cup IF pc.fn = "main" THEN {} ELSE TrapsFrom(Under(pc, extra_args, 1))

\* The stack grows down: the innermost of these trap frames is the lowest.
Innermost(traps) == Val_int(IF traps = {} THEN -1 ELSE Min(traps))

\* trapSp leads to the innermost trap frame, each trap frame to the next one, and
\* the last holds -1: no handler is skipped and none is left behind (interp.c:1487-1547).
TrapChain ==
  /\ trapSp = Innermost(Traps)
  /\ \A o \in Traps : FromOffset(o)[2] = Innermost({p \in Traps : p > o})

\* In the body of a function, env is that function, whatever it called or caught:
\* RESTART, RETURN, GRAB and RAISE put back what APPLY replaced.
EnvIsOfFunction ==
  (pc.fn # "main" /\ pc.at \in {"body", "grab"}) => env = Closure(pc.fn)
=============================================================================
