---------------------------- MODULE MCMarkCompact ----------------------------
(* Small instances of MarkCompact for TLC.                                   *)
EXTENDS MarkCompact

\* A static heap of one block of one field, and a global that refers to it.
OneStaticBlock == <<Make_header(1, 0, -1), Val_int(1)>>
ToStaticBlock  == <<Val_static_block(1)>>
\* A static string, which no collector may read as fields.
StaticString   == <<Make_header(1, String_tag, -1), Val_dynamic_block(3)>>
OneGlobal      == <<Val_int(0)>>
Nothing        == << >>

\* An unboxed float whose two low bits are those of a black header: 0.3.
Floats == {Float(2)}
Ints == {Val_int(1)}
\* Raw bytes that read as a pointer into the dynamic heap.
LookLikePointers == {Val_dynamic_block(3)}

\* Between two instructions the words past heap_ptr are dead: no instruction
\* reads them, and wipe_dead_blocks, which reads one, makes nothing of it.
View ==
  <<IF ctl = "run" THEN [a \in 0 .. heap_ptr - 1 |-> mem[a]] ELSE mem,
    heap_ptr, heap_end, regs, pend, ctl, abs, gcvars>>
=============================================================================
