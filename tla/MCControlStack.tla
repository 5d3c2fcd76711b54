--------------------------- MODULE MCControlStack ---------------------------
(***************************************************************************)
(* Instance of ControlStackCalls: a function of one parameter and one of   *)
(* two.                                                                    *)
(***************************************************************************)
EXTENDS ControlStackCalls

MCFunctions == {"f", "g"}
MCArity     == [f |-> 1, g |-> 2]
MCLiterals  == {}

\* One value stands for all that are neither functions nor partial applications.
MCException == Val_unit

\* Bound: what programs keep on the stack, and so what they pass.
Kept == {Val_unit, Closure("g")}
Bounded ==
  \A i \in DOMAIN pc.shape : pc.shape[i] = "v" => stack[1 + Above(pc.shape, i)] \in Kept
=============================================================================
