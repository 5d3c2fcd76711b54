----------------------------- MODULE MCEncoder -----------------------------
(***************************************************************************)
(* Programs of five instructions, with distances about 127, at which one   *)
(* byte no longer holds an offset, and -128; and one about 32767.  In some *)
(* of them an instruction grows, then shrinks as one before it grows, and  *)
(* then grows again.                                                       *)
(***************************************************************************)
EXTENDS Encoder

Pointers(P) ==
  UNION {{Jump(p), CLOSURE(p), Compare(0, p), Compare(200, p),
          SWITCH(1, <<p, p, 4>>), CLOSUREREC(<<p, p, 5>>)} : p \in P}

MCPrograms ==
  {<<a, b, c, d, e>> :
     a \in Pointers({1, 4, 5}) \cup {Other(4)},
     b \in Pointers({1, 5}),
     c \in {Other(n) : n \in 112 .. 126} \cup {Other(32757)},
     d \in {Jump(1), Jump(2), SWITCH(2, <<1, 2, 5>>), Integer(200), Other(6), Other(7)},
     e \in {Other(0)}}
=============================================================================
