------------------------------ MODULE StopCopy ------------------------------
(***************************************************************************)
(* The Stop & Copy collector, omicrob/src/byterun/vm/stop-and-copy.c.      *)
(*                                                                         *)
(* gc() swaps the two halves of the dynamic heap and calls gc_one_val on   *)
(* each root.  gc_one_val copies the block the root points to and then     *)
(* scans every word copied so far and not yet scanned (between heap_todo   *)
(* and heap_ptr), copying what those words point to.  A copied block has a *)
(* black header in the old half, and its new address in field 0.           *)
(*                                                                         *)
(* One step is one turn of gc_one_val's loop from `start:` (Examine) or    *)
(* from `next:` (Advance).  The call gc_one_val makes to itself for an     *)
(* infix pointer gives it a stack of activations: `frames`, last one       *)
(* active, each with its locals ptr, todo, start and, for hd, `ofs`, the    *)
(* offset of the infix header it is treating.                              *)
(***************************************************************************)
EXTENDS Mutator

VARIABLES
  current_heap,  \* 0 or 1, the half in use
  heap_todo,     \* last word scanned
  root,          \* index of the root gc() is treating
  frames         \* activations of gc_one_val

gcvars == <<current_heap, heap_todo, root, frames>>
vars   == <<vmvars, abs, gcvars>>

ASSUME EvenHeap == DynamicWosize % 2 = 0

HalfWosize == DynamicWosize \div 2
tab_heap_start(h) == StaticWosize + h * HalfWosize
tab_heap_end(h)   == tab_heap_start(h) + HalfWosize

\* Mutants: a forgotten root.
RootsButEnv ==
  [i \in 1 .. Len(stack) |-> stack_addr(Len(stack) + 1 - i)]
    \o [i \in 1 .. Len(globals) |-> global_addr(i)] \o StaticFields \o <<acc_addr>>
RootsButStatic ==
  [i \in 1 .. Len(stack) |-> stack_addr(Len(stack) + 1 - i)]
    \o [i \in 1 .. Len(globals) |-> global_addr(i)] \o <<acc_addr, env_addr>>

\* What gc_one_val is called on, in order: the stack from its bottom.
Roots ==
  [i \in 1 .. Len(stack) |-> stack_addr(Len(stack) + 1 - i)]
    \o [i \in 1 .. Len(globals) |-> global_addr(i)]
    \o StaticFields \o <<acc_addr, env_addr>>

Depth == Len(frames)
Top   == frames[Depth]

\* &start, in activation d.
local_addr(d) == global_addr(Len(globals)) - d

Load(loc) ==
  IF loc < local_addr(0) THEN frames[local_addr(0) - loc].start ELSE At(loc)

\* *loc = w, in memory m and with activations fs.
Store(loc, w, m, fs) ==
  /\ Put(loc, w, m)
  /\ frames' = IF loc < local_addr(0) THEN [fs EXCEPT ![local_addr(0) - loc].start = w] ELSE fs

Call(loc) == [at |-> "start", ptr |-> loc, todo |-> 0, start |-> Undef, ofs |-> 0]

\* Local variables of the active activation, after it went to label l.
Goto(l) == [frames EXCEPT ![Depth].at = l]

Init ==
  /\ mem = [a \in 0 .. HeapWosize - 1 |->
              IF a < StaticWosize THEN StaticHeap[a + 1] ELSE Undef]
  /\ heap_ptr = tab_heap_start(0) /\ heap_end = tab_heap_end(0)
  /\ acc = Val_unit /\ env = Val_unit /\ stack = << >> /\ globals = InitialGlobals
  /\ pend = NoPend /\ ctl = "run"
  /\ current_heap = 0 /\ heap_todo = 0 /\ root = 0 /\ frames = << >>
  /\ abs = Graph

\* gc() swaps the halves and takes the first root.
GcStart ==
  /\ ctl = "gc" /\ root = 0
  /\ current_heap' = (current_heap + 1) % 2
  /\ heap_end'  = tab_heap_end(current_heap')
  /\ heap_ptr'  = tab_heap_start(current_heap')
  /\ heap_todo' = heap_ptr' - 1
  /\ root' = 1 /\ frames' = <<Call(Roots[1])>>
  /\ UNCHANGED <<mem, regs, pend, ctl>>

\* A read or a write outside of the heap, or of a word that is not what the
\* code takes it for: what follows is undefined.
Wild == ctl' = "wild" /\ UNCHANGED <<heap, regs, pend, gcvars>>

Examining == ctl = "gc" /\ root > 0 /\ Top.at = "start"

\* start: the value is no pointer into the dynamic heap.
SkipValue ==
  /\ Examining
  /\ ~ Is_block_in_dynamic_heap(Load(Top.ptr))
  /\ frames' = Goto("next")
  /\ UNCHANGED <<heap, regs, pend, ctl, current_heap, heap_todo, root>>

\* What the block *ptr points to must be: a header in the heap, and after it
\* the fields, or before it the closure an infix header belongs to.
Pointed == Load(Top.ptr)
Examined == Examining /\ Is_block_in_dynamic_heap(Pointed)
Sane ==
  /\ InHeap(Pointed.at - 1) /\ InHeap(Pointed.at) /\ IsHd(Hd_val(mem, Pointed))
  /\ Tag_hd(Hd_val(mem, Pointed)) # Infix_tag =>
       Pointed.at + Wosize_hd(Hd_val(mem, Pointed)) <= HeapWosize
  /\ Tag_hd(Hd_val(mem, Pointed)) = Infix_tag =>
       InHeap(Pointed.at - Wosize_hd(Hd_val(mem, Pointed)) - 1)

\* Mutant: the new address is not stored in *ptr.
ForwardUnstored ==
  /\ Examined /\ Sane /\ Is_black_hd(Hd_val(mem, Pointed))
  /\ frames' = Goto("next")
  /\ UNCHANGED <<heap, regs, pend, ctl, current_heap, heap_todo, root>>

\* The block has been copied: its first field is its new address.
Forward ==
  /\ Examined /\ Sane /\ Is_black_hd(Hd_val(mem, Pointed))
  /\ Store(Top.ptr, Field(mem, Pointed, 0), mem, Goto("next"))
  /\ UNCHANGED <<heap_ptr, heap_end, pend, ctl, current_heap, heap_todo, root>>

\* Mutant: the header left behind is not blackened.
CopiedUnmarked(hd, new) ==
  [a \in DOMAIN mem |->
     IF a = heap_ptr THEN hd
     ELSE IF a \in heap_ptr + 1 .. heap_ptr + Wosize_hd(hd)
       THEN Field(mem, Pointed, a - heap_ptr - 1)
     ELSE IF a = Pointed.at THEN new
     ELSE mem[a]]

\* memcpy of header and fields to heap_ptr, new address in field 0, header
\* blackened.
CopiedTo(hd, new) ==
  [a \in DOMAIN mem |->
     IF a = heap_ptr THEN hd
     ELSE IF a \in heap_ptr + 1 .. heap_ptr + Wosize_hd(hd)
       THEN Field(mem, Pointed, a - heap_ptr - 1)
     ELSE IF a = Pointed.at THEN new
     ELSE IF a = Pointed.at - 1 THEN Set_black_hd(hd)
     ELSE mem[a]]

Copy ==
  /\ Examined /\ Sane
  /\ LET hd  == Hd_val(mem, Pointed)
         sz  == Wosize_hd(hd)
         new == Val_dynamic_block(heap_ptr + 1)
     IN
     /\ ~ Is_black_hd(hd) /\ Tag_hd(hd) # Infix_tag
     /\ heap_ptr + sz < heap_end
     /\ Store(Top.ptr, new, CopiedTo(hd, new), Goto("next"))
     /\ heap_ptr' = heap_ptr + 1 + sz
  /\ UNCHANGED <<heap_end, pend, ctl, current_heap, heap_todo, root>>

\* Mutant: the offset of the infix pointer is lost.
PlusNothing(w, k) == w

\* Adding k words to a value: 4k bytes, hence 2k to what a code pointer encodes.
Plus(w, k) ==
  IF w.kind = "dyn" THEN [w EXCEPT !.at = @ + k] ELSE [w EXCEPT !.n = @ + 2 * k]
Shiftable(w) == w.kind \in {"dyn", "code"}

\* An infix pointer: the closure it points into must be copied first.
Infix ==
  /\ Examined /\ Sane
  /\ LET hd == Hd_val(mem, Pointed)
         s  == [Pointed EXCEPT !.at = @ - Wosize_hd(hd)]
     IN
     /\ ~ Is_black_hd(hd) /\ Tag_hd(hd) = Infix_tag
     /\ Is_black_hd(Hd_val(mem, s)) => Shiftable(Field(mem, s, 0))
     /\ IF Is_black_hd(Hd_val(mem, s))
          THEN Store(Top.ptr, Plus(Field(mem, s, 0), Wosize_hd(hd)), mem, Goto("next"))
               /\ UNCHANGED <<heap_ptr, heap_end>>
          ELSE /\ frames' = Append([frames EXCEPT ![Depth].at = "return",
                                                  ![Depth].start = s,
                                                  ![Depth].ofs = Wosize_hd(hd)],
                                   Call(local_addr(Depth)))
               /\ UNCHANGED <<heap, regs>>
  /\ UNCHANGED <<pend, ctl, current_heap, heap_todo, root>>

\* Back from that call: *ptr = Field(start, 0) + Infix_offset_hd(hd).  The
\* call has updated start, which is now the address of the copy, and whose
\* field 0 is the closure's first code pointer.
InfixReturn ==
  /\ ctl = "gc" /\ root > 0 /\ Top.at = "return"
  /\ IF /\ Is_block_in_dynamic_heap(Top.start) /\ InHeap(Top.start.at)
        /\ Shiftable(Field(mem, Top.start, 0))
       THEN /\ Store(Top.ptr, Plus(Field(mem, Top.start, 0), Top.ofs), mem, Goto("next"))
            /\ UNCHANGED <<heap_ptr, heap_end, pend, ctl, current_heap, heap_todo, root>>
       ELSE Wild

\* The block is not what the code takes it for, or it does not fit in the half.
Misread ==
  /\ Examined
  /\ Sane =>
       LET hd == Hd_val(mem, Pointed)
           s  == [Pointed EXCEPT !.at = @ - Wosize_hd(hd)]
       IN  /\ ~ Is_black_hd(hd)
           /\ IF Tag_hd(hd) = Infix_tag
                THEN Is_black_hd(Hd_val(mem, s)) /\ ~ Shiftable(Field(mem, s, 0))
                ELSE heap_ptr + Wosize_hd(hd) >= heap_end
  /\ Wild

-----------------------------------------------------------------------------
(* next: the word to scan after this one.                                  *)

AtNext == ctl = "gc" /\ root > 0 /\ Top.at = "next"

\* Mutant: heap_todo is not advanced.
ScanInPlace(a, n) ==
  /\ UNCHANGED heap_todo
  /\ frames' = [frames EXCEPT ![Depth] = [Top EXCEPT !.at = "start", !.ptr = a, !.todo = n]]

\* To `start:` with the word at a, n words of its block being left.
Scan(a, n) ==
  /\ heap_todo' = a
  /\ frames' = [frames EXCEPT ![Depth] = [Top EXCEPT !.at = "start", !.ptr = a, !.todo = n]]

\* Everything copied is scanned: return, to the infix pointer's activation
\* or to gc(), which takes the next root or ends.
Return ==
  /\ AtNext /\ heap_todo = heap_ptr - 1
  /\ IF Depth > 1 THEN frames' = SubSeq(frames, 1, Depth - 1) /\ UNCHANGED <<root, ctl, heap_todo>>
     ELSE IF root < Len(Roots)
       THEN root' = root + 1 /\ frames' = <<Call(Roots[root + 1])>> /\ UNCHANGED <<ctl, heap_todo>>
     ELSE root' = 0 /\ frames' = << >> /\ ctl' = "done" /\ heap_todo' = 0
  /\ UNCHANGED <<mem, heap_ptr, heap_end, regs, pend, current_heap>>

\* Mutant: strings are scanned too.
OpenAnyBlock ==
  /\ AtNext /\ heap_todo # heap_ptr - 1 /\ Top.todo = 0
  /\ IF ~ IsHd(mem[heap_todo + 1]) \/ ~ InHeap(heap_todo + 2) THEN Wild
     ELSE /\ Scan(heap_todo + 2, Wosize_hd(mem[heap_todo + 1]) - 1)
          /\ UNCHANGED <<heap, regs, pend, ctl, current_heap, root>>

\* The header of the next block: blocks that hold no values are skipped, the
\* others are entered, also when they have no field.
OpenBlock ==
  /\ AtNext /\ heap_todo # heap_ptr - 1 /\ Top.todo = 0
  /\ LET hd == mem[heap_todo + 1] IN
     IF ~ IsHd(hd) \/ ~ InHeap(heap_todo + 2) THEN Wild
     ELSE /\ IF Tag_hd(hd) >= No_scan_tag
               THEN heap_todo' = heap_todo + 1 + Wosize_hd(hd) /\ UNCHANGED frames
               ELSE Scan(heap_todo + 2, Wosize_hd(hd) - 1)
          /\ UNCHANGED <<heap, regs, pend, ctl, current_heap, root>>

NextField ==
  /\ AtNext /\ heap_todo # heap_ptr - 1 /\ Top.todo # 0
  /\ IF ~ InHeap(heap_todo + 1) THEN Wild
     ELSE /\ Scan(heap_todo + 1, Top.todo - 1)
          /\ UNCHANGED <<heap, regs, pend, ctl, current_heap, root>>

Collect ==
  \/ GcStart \/ SkipValue \/ Forward \/ Copy \/ Infix \/ InfixReturn \/ Misread
  \/ Return \/ OpenBlock \/ NextField

GcStep == Collect /\ UNCHANGED abs

Next == (Instruction /\ UNCHANGED gcvars /\ Record) \/ GcStep

\* gc() is a call in the only thread: once it is entered, nothing stops it.
Spec == Init /\ [][Next]_vars /\ WF_vars(GcStep)

-----------------------------------------------------------------------------
(* Properties.                                                             *)

\* The addresses of words: of the heap, of the roots, and, for the activation
\* at depth d of gc_one_val, of the locals `start` of those that called it.
Locations(d) ==
  0 .. HeapWosize - 1 \cup {acc_addr, env_addr} \cup {stack_addr(i) : i \in 1 .. Len(stack)}
    \cup {global_addr(i) : i \in 1 .. Len(globals)} \cup {local_addr(k) : k \in 1 .. d - 1}
Activation ==
  [at : {"start", "next", "return"}, ptr : Int, todo : Int, start : Word, ofs : Nat]

\* Types; the allocation pointer stays in the half in use, so that no block
\* runs into the other half; gc_one_val is only given addresses of words that
\* still exist; and it is active only inside gc().
TypeOK ==
  /\ VMTypeOK
  /\ current_heap \in {0, 1}
  /\ heap_end = tab_heap_end(current_heap) /\ heap_ptr >= tab_heap_start(current_heap)
  /\ heap_todo \in Int /\ heap_todo >= -1
  /\ root = 0 \/ root \in 1 .. Len(Roots)
  /\ frames \in Seq(Activation) /\ \A d \in 1 .. Depth : frames[d].ptr \in Locations(d)
  /\ root = 0 <=> frames = << >>
  /\ ctl \notin {"gc", "wild"} => root = 0

\* gc_one_val reads a header only where there is one, never writes outside of
\* the half it copies to, and never follows a pointer out of the heap.
MemorySafe == ctl # "wild"

\* Words of the dynamic heap in the half the collector is emptying.
InOldHalf(w) ==
  /\ Is_block_in_dynamic_heap(w)
  /\ w.at \notin tab_heap_start(current_heap) .. tab_heap_end(current_heap)

\* The fields, but of strings, of the blocks copied so far.
CopiedFields ==
  LET next(a) == a + Wosize_hd(mem[a]) + 1
      from[a \in tab_heap_start(current_heap) .. heap_ptr] ==
        IF a < heap_ptr /\ next(a) \in a + 1 .. heap_ptr
          THEN from[next(a)] \cup IF Tag_hd(mem[a]) < No_scan_tag THEN a + 1 .. next(a) - 1 ELSE {}
          ELSE {}
  IN  from[tab_heap_start(current_heap)]

\* Cheney's invariant, which gc_one_val relies on and states nowhere: what is
\* behind the collector (the roots it has treated, the words up to heap_todo)
\* no longer refers to the half being emptied; what is ahead of it only does.
Settled(loc) == ~ InOldHalf(Load(loc))
Pending(loc) == Is_block_in_dynamic_heap(Load(loc)) => InOldHalf(Load(loc))
InHand == {frames[i].ptr : i \in {k \in 1 .. Depth : frames[k].at # "next"}}
CheneyInvariant ==
  ctl = "gc" /\ root > 0 =>
    /\ heap_todo < heap_ptr
    /\ \A i \in 1 .. root - 1 : Settled(Roots[i])
    /\ \A i \in root + 1 .. Len(Roots) : Pending(Roots[i])
    /\ \A a \in CopiedFields :
         IF a > heap_todo \/ a \in InHand THEN Pending(a) ELSE Settled(a)

\* After gc() the half in use holds one copy of each block that was reachable
\* before, and nothing else: no garbage, and no shared block copied twice.
\* Hence Out_of_memory is raised only when the data do not fit in a half.
CollectionIsExact ==
  ctl = "done" => heap_ptr - tab_heap_start(current_heap) = LiveWords

\* What the collector guarantees in one formula: it and the instructions stay
\* within the stack and the half in use, also when CLOSUREREC overflows the
\* stack with its block written; it never misreads memory, keeps Cheney's
\* invariant while it runs, and leaves exactly the live blocks.
CollectorInvariant == TypeOK /\ MemorySafe /\ CheneyInvariant /\ CollectionIsExact

\* Every call of gc() returns, with heap_todo at heap_ptr: the loop of
\* gc_one_val neither goes on for ever nor runs into words it misreads.
GcTerminates == ctl = "gc" ~> ctl = "done"

\* Seen from the program, moving blocks is invisible: instructions and
\* collections together implement the object graph of OCamlMemory.
ImplementsMemory == Memory!Steps
=============================================================================
