------------------------------- MODULE Words -------------------------------
(***************************************************************************)
(* The machine words of the O2B runtime in its 32-bit value representation *)
(* (omicrob/src/byterun/vm/values-32.h).                                   *)
(*                                                                         *)
(* Every word has two low bits that the collectors read as a colour, so    *)
(* every word is a record with a field `low`.  Beyond that a word is       *)
(*   - a block header: tag, size in words, colour, and `id`, the identity  *)
(*     of the block it opens.  `id` is history: no code reads it, and it   *)
(*     travels with the header because the collectors copy headers whole;  *)
(*   - a pointer into the dynamic or the static RAM heap: `at` is the word *)
(*     offset, from ocaml_ram_heap, of field 0 of the block;               *)
(*   - an immediate: an integer (low bits 01 or 11), a code pointer (odd   *)
(*     too), or a float, stored unboxed, whose two low bits are the low    *)
(*     bits of its mantissa and hence anything.                            *)
(* Offsets are in words: the code's byte offsets are multiples of 4.       *)
(***************************************************************************)
EXTENDS Integers

Color_white == 0
Color_red   == 1
Color_black == 2

Closure_tag == 247
Infix_tag   == 249
No_scan_tag == 251
String_tag  == 252

\* The word is a header, whatever its colour.
IsHd(w) == w.kind = "hd"

Make_header(size, tag, id) ==
  [kind |-> "hd", tag |-> tag, size |-> size, low |-> Color_white, id |-> id]

Val_dynamic_block(a) == [kind |-> "dyn", at |-> a, low |-> 0]
Val_static_block(a)  == [kind |-> "static", at |-> a, low |-> 0]

Val_int(n)     == [kind |-> "int", n |-> n, low |-> 1]
Val_codeptr(n) == [kind |-> "code", n |-> n, low |-> 1]
Float(bits)    == [kind |-> "float", n |-> 0, low |-> bits]

Val_unit == Val_int(0)

\* An exception without argument, OCAML_Stack_overflow or OCAML_Out_of_memory:
\* a block in flash, which to the collectors is one more immediate.
Exn == Val_unit
Code(n)  == Val_codeptr(n)

\* Is_block_in_dynamic_heap: the prefix of a dynamic pointer, and aligned.
Is_block_in_dynamic_heap(w) == w.kind = "dyn" /\ w.low = 0

\* Is_unaligned_block: a pointer to which the black bit was added.
Is_unaligned_block(w) == w.kind \in {"dyn", "static"} /\ w.low = Color_black

Is_block(w) == w.kind \in {"dyn", "static"} /\ w.low = 0

Tag_hd(h)    == h.tag
Wosize_hd(h) == h.size
Color_hd(h)  == h.low

Is_black_hd(h)  == h.low \in {2, 3}
Set_black_hd(h) == IF Is_black_hd(h) THEN h ELSE [h EXCEPT !.low = @ + Color_black]

Word ==
  [kind : {"hd"}, tag : Nat, size : Nat, low : 0 .. 3, id : Int]
    \cup [kind : {"dyn", "static"}, at : Int, low : 0 .. 3]
    \cup [kind : {"int", "code", "float"}, n : Int, low : 0 .. 3]
    \cup [kind : {"undef"}, low : {0}]

=============================================================================
