---------------------------- MODULE CurriedCalls ----------------------------
(***************************************************************************)
(* What function calls and exceptions mean in OCaml, whatever the machine: *)
(* functions of several parameters take their arguments in any number of   *)
(* portions, the result of a function given too many is applied to the     *)
(* rest, and a raised exception goes to the innermost handler.  The        *)
(* abstract specification that the instructions of interp.c are to         *)
(* implement (ControlStack).                                               *)
(*                                                                         *)
(* The program is any program: at each point it evaluates, calls, returns, *)
(* installs or removes a handler, or raises.                               *)
(***************************************************************************)
EXTENDS Integers, Sequences, SequencesExt

CONSTANTS
  Functions,   \* the functions of the program
  Arity,       \* how many parameters each has
  Literals,    \* what a program loads, other than its functions
  Exceptions   \* those that the runtime itself raises

VARIABLES
  frames,  \* the functions in progress, the current one first
  acc,     \* the last value
  status   \* "run", "uncaught" or "stopped"

vars == <<frames, acc, status>>

\* A function, and a function with its first arguments.  code says where it starts,
\* env is the function whose arguments are kept.
Unit           == [kind |-> "int", n |-> 0]
Closure(f)     == [kind |-> "clos", code |-> <<f, "start">>, env |-> Unit, args |-> <<>>]
Partial(f, as) == [kind |-> "clos", code |-> <<f, "restart">>, env |-> Closure(f), args |-> as]

IsClosure(x) == x.kind = "clos"
Function(c)  == c.code[1]

\* A frame holds the values the function has at hand, a mark for each handler among
\* them, and the arguments its result is still to be applied to.
Trap == [kind |-> "trap"]
Frame(f, locals, pending) == [fn |-> f, locals |-> locals, pending |-> pending]

Init ==
  /\ frames = <<Frame("main", <<>>, <<>>)>>
  /\ acc = Unit /\ status = "run"

Current == Head(frames)
SetLocals(locals) == <<[Current EXCEPT !.locals = locals]>> \o Tail(frames)
InTry == Trap \in ToSet(Current.locals)

\* c is applied to as, for the frames below.
Apply(c, as, below) ==
  LET f   == Function(c)
      all == c.args \o as
  IN  IF Len(all) < Arity[f]
      THEN frames' = below /\ acc' = Partial(f, all)
      ELSE /\ frames' = <<Frame(f, SubSeq(all, 1, Arity[f]), SubSeq(all, Arity[f] + 1, Len(all)))>>
                          \o below
           /\ acc' = c

\* x is raised.
Throw(x) ==
  LET catching == {i \in DOMAIN frames : Trap \in ToSet(frames[i].locals)} IN
  /\ acc' = x
  /\ IF catching = {}
     THEN status' = "uncaught" /\ UNCHANGED frames
     ELSE LET i      == CHOOSE j \in catching : \A h \in catching : j <= h
              locals == frames[i].locals
              at     == CHOOSE j \in DOMAIN locals :
                          locals[j] = Trap /\ \A h \in 1 .. j - 1 : locals[h] # Trap
          IN  /\ frames' = <<[frames[i] EXCEPT !.locals = SubSeq(locals, at + 1, Len(locals))]>>
                             \o SubSeq(frames, i + 1, Len(frames))
              /\ UNCHANGED status

-----------------------------------------------------------------------------
Load(x) == acc' = x /\ UNCHANGED <<frames, status>>

Keep == frames' = SetLocals(<<acc>> \o Current.locals) /\ UNCHANGED <<acc, status>>

Drop ==
  /\ Current.locals # <<>> /\ Head(Current.locals) # Trap
  /\ frames' = SetLocals(Tail(Current.locals))
  /\ UNCHANGED <<acc, status>>

\* The function acc is called with the n values on top.
Call(n) ==
  /\ IsClosure(acc) /\ n <= Len(Current.locals)
  /\ LET locals == Current.locals IN
     /\ Trap \notin ToSet(SubSeq(locals, 1, n))
     /\ Apply(acc, SubSeq(locals, 1, n), SetLocals(SubSeq(locals, n + 1, Len(locals))))
  /\ UNCHANGED status

\* The same, as the last thing the current function does.
TailCall(n) ==
  /\ Current.fn # "main" /\ ~ InTry
  /\ IsClosure(acc) /\ n <= Len(Current.locals)
  /\ Apply(acc, SubSeq(Current.locals, 1, n) \o Current.pending, Tail(frames))
  /\ UNCHANGED status

Return ==
  /\ Current.fn # "main" /\ ~ InTry
  /\ IF Current.pending = <<>>
     THEN frames' = Tail(frames) /\ UNCHANGED acc
     ELSE IsClosure(acc) /\ Apply(acc, Current.pending, Tail(frames))
  /\ UNCHANGED status

Try    == frames' = SetLocals(<<Trap>> \o Current.locals) /\ UNCHANGED <<acc, status>>
EndTry ==
  /\ Current.locals # <<>> /\ Head(Current.locals) = Trap
  /\ frames' = SetLocals(Tail(Current.locals))
  /\ UNCHANGED <<acc, status>>

Stop == Current.fn = "main" /\ ~ InTry /\ status' = "stopped" /\ UNCHANGED <<frames, acc>>

\* What a function can load: a literal, a function, one of its values, itself.
Loadable ==
  Literals \cup {Closure(f) : f \in Functions} \cup (ToSet(Current.locals) \ {Trap})

Next ==
  /\ status = "run"
  /\ \/ \E x \in Loadable : Load(x)
     \/ Keep \/ Drop
     \/ \E n \in 1 .. Len(Current.locals) : Call(n) \/ TailCall(n)
     \/ Return \/ Try \/ EndTry \/ Stop
     \/ Throw(acc)
     \/ \E x \in Exceptions : Throw(x)

Spec == Init /\ [][Next]_vars
=============================================================================
