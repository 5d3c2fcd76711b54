----------------------------- MODULE MCStopCopy -----------------------------
(* Small instances of StopCopy for TLC.                                      *)
EXTENDS StopCopy

\* A static heap of one block of one field, and a global that refers to it.
OneStaticBlock == <<Make_header(1, 0, -1), Val_int(1)>>
ToStaticBlock  == <<Val_static_block(1)>>
\* A static string, which no collector may read as fields.
StaticString   == <<Make_header(1, String_tag, -1), Val_dynamic_block(3)>>
OneGlobal      == <<Val_int(0)>>
Nothing        == << >>

Ints == {Val_int(1)}
\* Raw bytes that read as a pointer into the dynamic heap.
LookLikePointers == {Val_dynamic_block(3)}

\* Between two instructions the words outside of the blocks allocated in the
\* half in use are dead: no instruction reads them, gc() only writes there.
Live(a) ==
  \/ a < StaticWosize
  \/ a \in tab_heap_start(current_heap) .. heap_ptr - 1
View ==
  <<IF ctl = "run" THEN [a \in {b \in DOMAIN mem : Live(b)} |-> mem[a]] ELSE mem,
    heap_ptr, heap_end, regs, pend, ctl, abs, gcvars>>
=============================================================================
