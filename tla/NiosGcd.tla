------------------------------ MODULE NiosGcd ------------------------------
(***************************************************************************)
(* The C function nios_gcd of platforms/altera/extops/c/platform.c, which  *)
(* is what the two hardware versions of the extops board are to compute:   *)
(* the abstract specification of module Gcd.                               *)
(***************************************************************************)
EXTENDS Integers

CONSTANT Operands    \* what programs call it with

VARIABLES
  ctl,     \* "idle", "loop" (in the while loop) or "return" (m is the result)
  m, n,    \* its parameters, which the loop changes
  args     \* history: what they were when it was called

vars == <<ctl, m, n, args>>

Init == ctl = "idle" /\ m = 0 /\ n = 0 /\ args = <<0, 0>>

Call(x, y) ==
  /\ ctl = "idle"
  /\ ctl' = "loop" /\ m' = x /\ n' = y /\ args' = <<x, y>>

\* One turn of the loop.
Subtract ==
  /\ ctl = "loop" /\ m # n
  /\ m' = IF m > n THEN m - n ELSE m
  /\ n' = IF m > n THEN n ELSE n - m
  /\ UNCHANGED <<ctl, args>>

Return ==
  /\ ctl = "loop" /\ m = n
  /\ ctl' = "return"
  /\ UNCHANGED <<m, n, args>>

\* Back in the program.
Resume ==
  /\ ctl = "return"
  /\ ctl' = "idle"
  /\ UNCHANGED <<m, n, args>>

Next ==
  \/ \E x, y \in Operands : Call(x, y)
  \/ Subtract \/ Return \/ Resume

Spec == Init /\ [][Next]_vars

-----------------------------------------------------------------------------
Divisors(x) == {d \in 1 .. x : \E k \in 1 .. x : d * k = x}

CommonDivisors(x, y) == Divisors(x) \cap Divisors(y)

\* d is the greatest common divisor of x and y.
IsGcd(d, x, y) ==
  /\ d \in CommonDivisors(x, y)
  /\ \A e \in CommonDivisors(x, y) : e <= d

\* A call that returns, on positive arguments, has computed their greatest
\* common divisor (platform.c:198-205; with a zero argument it does not return).
GcdCorrect ==
  ctl = "return" /\ args[1] > 0 /\ args[2] > 0 => IsGcd(m, args[1], args[2])
=============================================================================
