--------------------------- MODULE MCAccelerators ---------------------------
(***************************************************************************)
(* Instance of Accelerators: OCaml integers of three bits, so that sums    *)
(* overflow, lists of up to three cells in any order in the heap, arrays   *)
(* of up to two elements.                                                  *)
(***************************************************************************)
EXTENDS Accelerators

MCIntRange == 8
MCHeapBase == 2
Ints       == {-4, -1, 3}

Free == Val_int(0)

\* A memory whose first words are before the heap.
Memory(words) ==
  [a \in 0 .. Len(words) + 1 |-> IF a < MCHeapBase THEN Free ELSE words[a - 1]]

Cell(x, tail) == <<Make_header(2, 0, 1), Val_int(x), tail>>

\* Three cells, at offsets 1, 4 and 7, linked in the order 7, 1, 4.
ListMemories ==
  {Memory(Cell(x, Val_dynamic_block(4)) \o Cell(y, Val_int(0)) \o Cell(z, Val_dynamic_block(1)))
     : x, y, z \in Ints}

\* Two arrays of n elements, and a free word after them.
ArrayMemories ==
  {Memory(<<Make_header(2, 0, 1), Val_int(x), Val_int(y),
            Make_header(2, 0, 2), Val_int(z), Val_int(0), Free>>) : x, y, z \in Ints}
    \cup {Memory(<<Make_header(0, 0, 1), Make_header(1, 0, 2), Val_int(x), Free>>) : x \in Ints}

ListCalls ==
  {[f |-> "lred", mem |-> m, src |-> w, dst |-> Val_int(0)] :
     m \in ListMemories, w \in {Val_int(0)} \cup {Val_dynamic_block(a) : a \in {1, 4, 7}}}

Arrays(m) == {Val_dynamic_block(a - MCHeapBase + 1) : a \in {b \in DOMAIN m : IsHd(m[b])}}

ArrayCalls ==
  UNION {{[f |-> "ared", mem |-> m, src |-> s, dst |-> s] : s \in Arrays(m)}
           \cup {[f |-> "amap", mem |-> m, src |-> c[1], dst |-> c[2]] :
                   c \in {p \in Arrays(m) \X Arrays(m) :
                            Wosize_hd(m[MCHeapBase + p[1].at - 1]) <= Wosize_hd(m[MCHeapBase + p[2].at - 1])}}
         : m \in ArrayMemories}

MCCalls == ListCalls \cup ArrayCalls
=============================================================================
