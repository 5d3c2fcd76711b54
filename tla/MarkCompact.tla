---------------------------- MODULE MarkCompact ----------------------------
(***************************************************************************)
(* The Mark & Compact collector, omicrob/src/byterun/vm/                   *)
(* mark-and-compact.c, which bc2c links by default.                        *)
(*                                                                         *)
(* mark_roots blackens the reachable blocks.  It uses no memory but the    *)
(* blocks: while mark_block is inside a block, the word it came by holds   *)
(* the block's header, and the header's place the way back.                *)
(* wipe_dead_blocks turns dead blocks into strings.  The reverse_ phases   *)
(* thread, from the header of each block, every word that refers to it;    *)
(* update_pointers unwinds these threads and writes the blocks' future     *)
(* addresses; compact_blocks moves them.                                   *)
(*                                                                         *)
(* One step is one turn of a loop, `phase` naming the loop.  All pointers  *)
(* the phases make are dynamic ones with the black bit (low = 2), or, once *)
(* stored by reverse_pointer in a word of a thread, black and red (3).     *)
(***************************************************************************)
EXTENDS Mutator

CONSTANT MaxWosize  \* 1 << Hd_size_bitcnt: the size field of a header wraps there

\* No header the program starts with or makes is larger than a header can say.
ASSUME MaxWosizeAssumption ==
  /\ MaxWosize \in Nat \ {0, 1}
  /\ \A n \in MakeSizes : n < MaxWosize
  /\ \A v \in EnvSizes : v + 1 < MaxWosize /\ \A f \in RecFuns : 2 * f - 1 + v < MaxWosize
  /\ \A w \in ToSet(StaticHeap) \cup ToSet(InitialGlobals) \cup Constants \cup RawWords :
       IsHd(w) => Wosize_hd(w) < MaxWosize
  /\ DynamicWosize > 0

VARIABLES
  phase,      \* the loop gc() is in, or "idle"
  root,       \* index of the root being marked or reversed
  p,          \* the address the loop has reached
  h,          \* the word it keeps in its local h or v
  start,      \* where the block or the run of dead blocks begins
  alloc_pos   \* where the next living block will go

gcvars == <<phase, root, p, h, start, alloc_pos>>
vars   == <<vmvars, abs, gcvars>>

-----------------------------------------------------------------------------
(* Colours: the two low bits of any word.                                  *)

is_black(w)     == w.low >= 2
with_black(w)   == [w EXCEPT !.low = 2 + (@ % 2)]
xor_black(w)    == [w EXCEPT !.low = (@ + 2) % 4]
with_red(w)     == [w EXCEPT !.low = 2 * (@ \div 2) + 1]
without_red(w)  == [w EXCEPT !.low = 2 * (@ \div 2)]
xor_red(w)      == [w EXCEPT !.low = IF @ % 2 = 0 THEN @ + 1 ELSE @ - 1]
with_brown(w)   == [w EXCEPT !.low = 3]

Back(a) == with_black(Val_dynamic_block(a))
UNIQUE_MARK == Back(0)

\* What the collector visits from outside of the heap.
Roots ==
  <<acc_addr, env_addr>> \o [i \in 1 .. Len(stack) |-> stack_addr(i)]
    \o [i \in 1 .. Len(globals) |-> global_addr(i)] \o StaticFields

Root == At(Roots[root])

\* Is the word at a, an address of the heap, a header?
HdAt(a) == InHeap(a) /\ IsHd(mem[a])

In(ph) == ctl = "gc" /\ phase = ph

\* A read or a write outside of the heap, or of a word that is not what the
\* code takes it for: what follows is undefined.
Wild == ctl' = "wild" /\ UNCHANGED <<heap, regs, pend, gcvars>>

Unmoved == UNCHANGED <<heap_ptr, heap_end, pend, ctl>>

Init ==
  /\ mem = [a \in 0 .. HeapWosize - 1 |->
              IF a < StaticWosize THEN StaticHeap[a + 1] ELSE Undef]
  /\ heap_ptr = StaticWosize /\ heap_end = HeapWosize
  /\ acc = Val_unit /\ env = Val_unit /\ stack = << >> /\ globals = InitialGlobals
  /\ pend = NoPend /\ ctl = "run"
  /\ phase = "idle" /\ root = 0 /\ p = 0 /\ h = Undef /\ start = 0 /\ alloc_pos = 0
  /\ abs = Graph

GcStart ==
  /\ In("idle")
  /\ phase' = "mark" /\ root' = 1
  /\ UNCHANGED <<vmvars, p, h, start, alloc_pos>>

-----------------------------------------------------------------------------
(* mark_roots, mark_root.                                                  *)

Marking == In("mark") /\ root <= Len(Roots)

\* The root refers to a block that is still white.
Unmarked ==
  /\ Is_block_in_dynamic_heap(Root)
  /\ HdAt(Root.at - 1) => Color_hd(Hd_val(mem, Root)) = Color_white

MarkSkip ==
  /\ Marking /\ ~ Unmarked
  /\ root' = root + 1
  /\ UNCHANGED <<vmvars, phase, p, h, start, alloc_pos>>

MarkLeaf ==
  /\ Marking /\ Unmarked /\ HdAt(Root.at - 1)
  /\ Tag_hd(Hd_val(mem, Root)) >= No_scan_tag
  /\ mem' = [mem EXCEPT ![Root.at - 1] = with_black(@)]
  /\ root' = root + 1
  /\ UNCHANGED <<regs, phase, p, h, start, alloc_pos>> /\ Unmoved

MarkRoot ==
  /\ Marking /\ Unmarked /\ HdAt(Root.at - 1)
  /\ LET hd == Hd_val(mem, Root) IN
     /\ Tag_hd(hd) < No_scan_tag
     /\ mem' = [mem EXCEPT ![Root.at - 1] = UNIQUE_MARK]
     /\ h' = hd
     /\ p' = Root.at + Wosize_hd(hd) - 1
  /\ phase' = "block"
  /\ UNCHANGED <<regs, root, start, alloc_pos>> /\ Unmoved

\* Mutant: the header is restored as it was, in white.
MarkedRootWhite ==
  /\ In("block") /\ InHeap(p) /\ mem[p] = UNIQUE_MARK
  /\ mem' = [mem EXCEPT ![Root.at - 1] = h]
  /\ phase' = "mark" /\ root' = root + 1 /\ h' = Undef /\ p' = 0
  /\ UNCHANGED <<regs, start, alloc_pos>> /\ Unmoved

\* Back in mark_root, which restores the header in black.
MarkedRoot ==
  /\ In("block") /\ InHeap(p) /\ mem[p] = UNIQUE_MARK
  /\ mem' = [mem EXCEPT ![Root.at - 1] = with_black(h)]
  /\ phase' = "mark" /\ root' = root + 1 /\ h' = Undef /\ p' = 0
  /\ UNCHANGED <<regs, start, alloc_pos>> /\ Unmoved

-----------------------------------------------------------------------------
(* mark_block: the word at p is a field, or the header of the block the    *)
(* loop is leaving.                                                        *)

Word_p == mem[p]
InBlock == In("block") /\ InHeap(p) /\ Word_p # UNIQUE_MARK

Goto(a) == p' = a /\ UNCHANGED <<regs, phase, root, h, start, alloc_pos>> /\ Unmoved

\* The header's place holds the way back to old_p, where the header is.
LeaveBlock ==
  /\ InBlock /\ Is_unaligned_block(Word_p)
  /\ LET old_p == Word_p.at
         old_h == mem[old_p]
         inf_p == p + Wosize_hd(old_h)
     IN
     /\ HdAt(old_p)
     /\ IF Color_hd(old_h) = Color_red
          THEN /\ HdAt(inf_p)
               /\ mem' = [mem EXCEPT ![p] = xor_red(mem[inf_p]),
                                     ![inf_p] = old_h,
                                     ![old_p] = Val_dynamic_block(inf_p + 1)]
          ELSE mem' = [mem EXCEPT ![p] = old_h, ![old_p] = Val_dynamic_block(p + 1)]
     /\ Goto(old_p - 1)

IsField == InBlock /\ ~ Is_unaligned_block(Word_p)
IsPointer == IsField /\ Is_block_in_dynamic_heap(Word_p)
FieldHd == Hd_val(mem, Word_p)
\* The block of the closure that an infix pointer points into.
ClosureOf == Word_p.at - Wosize_hd(FieldHd) - 1
IsInfix == IsHd(FieldHd) /\ Tag_hd(FieldHd) = Infix_tag

\* Mutant: p is not moved.
PrevFieldInPlace ==
  /\ \/ IsField /\ ~ IsPointer
     \/ /\ IsPointer /\ InHeap(Word_p.at - 1)
        /\ IF IsInfix THEN InHeap(ClosureOf) /\ Color_hd(mem[ClosureOf]) # Color_white
           ELSE Color_hd(FieldHd) # Color_white
  /\ UNCHANGED mem
  /\ Goto(p)

\* Nothing to mark from here: one field back.
PrevField ==
  /\ \/ IsField /\ ~ IsPointer
     \/ /\ IsPointer /\ InHeap(Word_p.at - 1)
        /\ IF IsInfix THEN InHeap(ClosureOf) /\ Color_hd(mem[ClosureOf]) # Color_white
           ELSE Color_hd(FieldHd) # Color_white
  /\ UNCHANGED mem
  /\ Goto(p - 1)

EnterInfix ==
  /\ IsPointer /\ InHeap(Word_p.at - 1) /\ IsInfix
  /\ HdAt(ClosureOf) /\ Color_hd(mem[ClosureOf]) = Color_white
  /\ mem' = [mem EXCEPT ![p] = FieldHd,
                        ![Word_p.at - 1] = with_brown(mem[ClosureOf]),
                        ![ClosureOf] = Back(p)]
  /\ Goto(ClosureOf + Wosize_hd(mem[ClosureOf]))

EnterBlock ==
  /\ IsPointer /\ HdAt(Word_p.at - 1) /\ ~ IsInfix
  /\ Color_hd(FieldHd) = Color_white /\ Tag_hd(FieldHd) < No_scan_tag
  /\ mem' = [mem EXCEPT ![p] = with_black(FieldHd), ![Word_p.at - 1] = Back(p)]
  /\ Goto(Word_p.at + Wosize_hd(FieldHd) - 1)

BlackenLeaf ==
  /\ IsPointer /\ HdAt(Word_p.at - 1) /\ ~ IsInfix
  /\ Color_hd(FieldHd) = Color_white /\ Tag_hd(FieldHd) >= No_scan_tag
  /\ mem' = [mem EXCEPT ![Word_p.at - 1] = with_black(@)]
  /\ Goto(p - 1)

MarkMisread ==
  /\ \/ Marking /\ Unmarked /\ ~ HdAt(Root.at - 1)
     \/ In("block") /\ ~ InHeap(p)
     \/ InBlock /\ Is_unaligned_block(Word_p) /\ ~ HdAt(Word_p.at)
     \/ /\ InBlock /\ Is_unaligned_block(Word_p) /\ HdAt(Word_p.at)
        /\ Color_hd(mem[Word_p.at]) = Color_red /\ ~ HdAt(p + Wosize_hd(mem[Word_p.at]))
     \/ IsPointer /\ ~ InHeap(Word_p.at - 1)
     \/ IsPointer /\ InHeap(Word_p.at - 1) /\ IsInfix /\ ~ HdAt(ClosureOf)
     \/ /\ IsPointer /\ InHeap(Word_p.at - 1) /\ ~ IsHd(FieldHd)
        /\ Color_hd(FieldHd) = Color_white
  /\ Wild

Mark ==
  \/ MarkSkip \/ MarkLeaf \/ MarkRoot \/ MarkedRoot
  \/ LeaveBlock \/ PrevField \/ EnterInfix \/ EnterBlock \/ BlackenLeaf \/ MarkMisread

-----------------------------------------------------------------------------
(* wipe_dead_blocks.                                                       *)

\* A loop over the blocks of the heap starts: p = first block.
FirstBlock(ph) == phase' = ph /\ p' = StaticWosize /\ alloc_pos' = StaticWosize

MarkDone ==
  /\ In("mark") /\ root > Len(Roots)
  /\ FirstBlock("wipe")
  /\ h' = mem[StaticWosize] /\ root' = 0
  /\ UNCHANGED <<vmvars, start>>

\* The word at a, or where the code reads past heap_ptr, whatever is there.
HeaderAt(a) == IF InHeap(a) THEN mem[a] ELSE Undef

WipeDead ==
  /\ In("wipe") /\ p < heap_ptr /\ IsHd(h) /\ Color_hd(h) = Color_white
  /\ phase' = "dead" /\ start' = p /\ p' = p + Wosize_hd(h) + 1
  /\ UNCHANGED <<vmvars, root, h, alloc_pos>>

\* Mutant: dead blocks are merged whatever their sizes.
MergeUnbounded ==
  /\ In("dead") /\ p < heap_ptr /\ HdAt(p) /\ Color_hd(mem[p]) = Color_white
  /\ h' = mem[p] /\ p' = p + Wosize_hd(mem[p]) + 1
  /\ UNCHANGED <<vmvars, phase, root, start, alloc_pos>>

\* One more dead block, unless their sizes overflow a header.
Merge ==
  /\ In("dead") /\ p < heap_ptr /\ HdAt(p) /\ Color_hd(mem[p]) = Color_white
  /\ p + Wosize_hd(mem[p]) - start < MaxWosize
  /\ h' = mem[p] /\ p' = p + Wosize_hd(mem[p]) + 1
  /\ UNCHANGED <<vmvars, phase, root, start, alloc_pos>>

EndDead ==
  /\ In("dead")
  /\ \/ p >= heap_ptr /\ UNCHANGED h
     \/ /\ p < heap_ptr /\ HdAt(p) /\ h' = mem[p]
        /\ \/ Color_hd(mem[p]) # Color_white
           \/ p + Wosize_hd(mem[p]) - start >= MaxWosize
  /\ mem' = [mem EXCEPT ![start] = Make_header(p - start - 1, String_tag, 0)]
  /\ phase' = "wipe"
  /\ UNCHANGED <<regs, root, p, start, alloc_pos>> /\ Unmoved

\* Mutant: the header of a living block stays black.
WipeAliveBlack ==
  /\ In("wipe") /\ p < heap_ptr /\ IsHd(h) /\ Color_hd(h) # Color_white
  /\ UNCHANGED mem
  /\ p' = p + Wosize_hd(h) + 1
  /\ h' = HeaderAt(p')
  /\ UNCHANGED <<regs, phase, root, start, alloc_pos>> /\ Unmoved

WipeAlive ==
  /\ In("wipe") /\ p < heap_ptr /\ IsHd(h) /\ Color_hd(h) # Color_white
  /\ mem' = [mem EXCEPT ![p] = xor_black(h)]
  /\ p' = p + Wosize_hd(h) + 1
  /\ h' = HeaderAt(p')
  /\ UNCHANGED <<regs, phase, root, start, alloc_pos>> /\ Unmoved

WipeMisread ==
  /\ \/ In("wipe") /\ p < heap_ptr /\ ~ IsHd(h)
     \/ In("dead") /\ p < heap_ptr /\ ~ HdAt(p)
  /\ Wild

WipeDone ==
  /\ In("wipe") /\ p >= heap_ptr
  /\ phase' = "roots" /\ root' = 1 /\ h' = Undef /\ p' = 0
  /\ UNCHANGED <<vmvars, start, alloc_pos>>

Wipe == WipeDead \/ Merge \/ EndDead \/ WipeAlive \/ WipeMisread \/ WipeDone

-----------------------------------------------------------------------------
(* reverse_root_pointers, reverse_heap_pointers.                           *)

\* Mutant: the word is not put in the thread.
reverse_pointer_unthreaded(a) ==
  LET w == At(a) IN
  IF ~ Is_block_in_dynamic_heap(w) THEN UNCHANGED <<mem, regs>>
  ELSE Put(a, with_red(Hd_val(mem, w)), mem)

\* *a refers to a block: *a takes the block's header, or the thread that
\* replaces it, and the header's place takes a.
reverse_pointer(a) ==
  LET w == At(a) IN
  IF ~ Is_block_in_dynamic_heap(w) THEN UNCHANGED <<mem, regs>>
  ELSE Put(a, with_red(Hd_val(mem, w)), [mem EXCEPT ![w.at - 1] = Back(a)])

\* reverse_pointer would follow *a out of the heap.
Stray(a) == Is_block_in_dynamic_heap(At(a)) /\ ~ InHeap(At(a).at - 1)

ReverseRoot ==
  /\ In("roots") /\ root <= Len(Roots) /\ ~ Stray(Roots[root])
  /\ reverse_pointer(Roots[root])
  /\ root' = root + 1
  /\ UNCHANGED <<phase, p, h, start, alloc_pos>> /\ Unmoved

RootsDone ==
  /\ In("roots") /\ root > Len(Roots)
  /\ FirstBlock("reverse") /\ root' = 0
  /\ UNCHANGED <<vmvars, h, start>>

\* The header of the block at p, at the end of the block's thread.
OpenThread ==
  /\ In("reverse") /\ p < heap_ptr
  /\ phase' = "thread" /\ h' = mem[p]
  /\ UNCHANGED <<vmvars, root, p, start, alloc_pos>>

FollowThread ==
  /\ In("thread") /\ is_black(h) /\ h.kind = "dyn"
  /\ h' = At(h.at)
  /\ UNCHANGED <<vmvars, phase, root, p, start, alloc_pos>>

ScanBlock ==
  /\ In("thread") /\ ~ is_black(h) /\ IsHd(h)
  /\ start' = p + Wosize_hd(h) + 1
  /\ IF Tag_hd(h) < No_scan_tag THEN p' = p + 1 /\ phase' = "fields"
     ELSE p' = start' /\ phase' = "reverse"
  /\ h' = Undef
  /\ UNCHANGED <<vmvars, root, alloc_pos>>

\* Here `start` is the local end, the address after the block.
ReverseField ==
  /\ In("fields") /\ p < start /\ InHeap(p) /\ ~ Stray(p)
  /\ reverse_pointer(p)
  /\ p' = p + 1
  /\ UNCHANGED <<phase, root, h, start, alloc_pos>> /\ Unmoved

FieldsDone ==
  /\ In("fields") /\ p >= start
  /\ phase' = "reverse"
  /\ UNCHANGED <<vmvars, root, p, h, start, alloc_pos>>

ReverseMisread ==
  /\ \/ In("roots") /\ root <= Len(Roots) /\ Stray(Roots[root])
     \/ In("thread") /\ is_black(h) /\ h.kind # "dyn"
     \/ In("thread") /\ ~ is_black(h) /\ ~ IsHd(h)
     \/ In("fields") /\ p < start /\ (~ InHeap(p) \/ Stray(p))
  /\ Wild

ReverseDone ==
  /\ In("reverse") /\ p >= heap_ptr
  /\ FirstBlock("update")
  /\ UNCHANGED <<vmvars, root, h, start>>

ReversePointers ==
  \/ ReverseRoot \/ RootsDone \/ OpenThread \/ FollowThread \/ ScanBlock
  \/ ReverseField \/ FieldsDone \/ ReverseMisread \/ ReverseDone

-----------------------------------------------------------------------------
(* update_pointers.                                                        *)

\* A block no word refers to, hence dead: blackened and skipped.
UpdateDead ==
  /\ In("update") /\ p < heap_ptr /\ HdAt(p) /\ Color_hd(mem[p]) # Color_black
  /\ mem' = [mem EXCEPT ![p] = with_black(@)]
  /\ p' = p + Wosize_hd(mem[p]) + 1
  /\ UNCHANGED <<regs, phase, root, h, start, alloc_pos>> /\ Unmoved

\* The word at p, of a header or of a field of a closure, is in black: it is
\* the first link of a thread.
Unwind ==
  /\ \/ In("update") /\ p < heap_ptr /\ phase' = "links" /\ start' = p
     \/ In("closure") /\ p <= start + Wosize_hd(mem[start]) /\ phase' = "infix" /\ UNCHANGED start
  /\ InHeap(p) /\ Color_hd(mem[p]) = Color_black
  /\ h' = mem[p]
  /\ UNCHANGED <<vmvars, root, p, alloc_pos>>

\* Mutant: the words of a thread get the address of the header, not of field 0.
LinkToHeader ==
  /\ In("links") \/ In("infix")
  /\ Color_hd(h) = Color_black /\ h.kind = "dyn"
  /\ h' = without_red(At(h.at))
  /\ Put(h.at, Val_dynamic_block(alloc_pos), mem)
  /\ UNCHANGED <<phase, root, p, start, alloc_pos>> /\ Unmoved

\* One link: the word it leads to gets the future address of the block, or
\* of the infix header.
Link ==
  /\ In("links") \/ In("infix")
  /\ Color_hd(h) = Color_black /\ h.kind = "dyn"
  /\ h' = without_red(At(h.at))
  /\ Put(h.at, Val_dynamic_block(alloc_pos + (p - start) + 1), mem)
  /\ UNCHANGED <<phase, root, p, start, alloc_pos>> /\ Unmoved

\* The header comes back to its place.
HeaderBack ==
  /\ In("links") /\ Color_hd(h) # Color_black /\ IsHd(h)
  /\ mem' = [mem EXCEPT ![p] = h]
  /\ IF Tag_hd(h) = Closure_tag
       THEN phase' = "closure" /\ p' = p + 1 /\ UNCHANGED alloc_pos
       ELSE phase' = "update" /\ p' = p + Wosize_hd(h) + 1
            /\ alloc_pos' = alloc_pos + Wosize_hd(h) + 1
  /\ h' = Undef
  /\ UNCHANGED <<regs, root, start>> /\ Unmoved

InfixBack ==
  /\ In("infix") /\ Color_hd(h) # Color_black
  /\ mem' = [mem EXCEPT ![p] = with_red(h)]
  /\ phase' = "closure" /\ p' = p + 1 /\ h' = Undef
  /\ UNCHANGED <<regs, root, start, alloc_pos>> /\ Unmoved

\* A field of a closure that is not in black.
ClosureField ==
  /\ In("closure") /\ p <= start + Wosize_hd(mem[start])
  /\ Color_hd(mem[p]) # Color_black
  /\ p' = p + 1
  /\ UNCHANGED <<vmvars, phase, root, h, start, alloc_pos>>

ClosureDone ==
  /\ In("closure") /\ p > start + Wosize_hd(mem[start])
  /\ phase' = "update" /\ alloc_pos' = alloc_pos + Wosize_hd(mem[start]) + 1
  /\ UNCHANGED <<vmvars, root, p, h, start>>

UpdateMisread ==
  /\ \/ In("update") /\ p < heap_ptr /\ ~ HdAt(p) /\ Color_hd(mem[p]) # Color_black
     \/ (In("links") \/ In("infix")) /\ Color_hd(h) = Color_black /\ h.kind # "dyn"
     \/ In("links") /\ Color_hd(h) # Color_black /\ ~ IsHd(h)
  /\ Wild

UpdateDone ==
  /\ In("update") /\ p >= heap_ptr
  /\ FirstBlock("compact")
  /\ UNCHANGED <<vmvars, root, h, start>>

Update ==
  \/ UpdateDead \/ Unwind \/ Link \/ HeaderBack \/ InfixBack \/ ClosureField
  \/ ClosureDone \/ UpdateMisread \/ UpdateDone

-----------------------------------------------------------------------------
(* compact_blocks.                                                         *)

\* Mutant: dead blocks are moved too.
CompactAnyBlock ==
  /\ In("compact") /\ p < heap_ptr /\ HdAt(p)
  /\ LET size == Wosize_hd(mem[p]) + 1 IN
     /\ mem' = [a \in DOMAIN mem |->
                  IF a \in alloc_pos .. alloc_pos + size - 1
                    THEN mem[p + a - alloc_pos] ELSE mem[a]]
     /\ alloc_pos' = alloc_pos + size
     /\ p' = p + size
  /\ UNCHANGED <<regs, phase, root, h, start>> /\ Unmoved

\* memmove of a living block; dead ones are skipped.
CompactBlock ==
  /\ In("compact") /\ p < heap_ptr /\ HdAt(p)
  /\ LET size == Wosize_hd(mem[p]) + 1 IN
     /\ IF Color_hd(mem[p]) = Color_white
          THEN /\ mem' = [a \in DOMAIN mem |->
                            IF a \in alloc_pos .. alloc_pos + size - 1
                              THEN mem[p + a - alloc_pos] ELSE mem[a]]
               /\ alloc_pos' = alloc_pos + size
          ELSE UNCHANGED <<mem, alloc_pos>>
     /\ p' = p + size
  /\ UNCHANGED <<regs, phase, root, h, start>> /\ Unmoved

CompactMisread == In("compact") /\ p < heap_ptr /\ ~ HdAt(p) /\ Wild

CompactDone ==
  /\ In("compact") /\ p >= heap_ptr
  /\ heap_ptr' = alloc_pos
  /\ ctl' = "done" /\ phase' = "idle" /\ p' = 0 /\ start' = 0 /\ alloc_pos' = 0 /\ h' = Undef
  /\ UNCHANGED <<mem, heap_end, regs, pend, root>>

Compact == CompactBlock \/ CompactMisread \/ CompactDone

Collect == GcStart \/ Mark \/ MarkDone \/ Wipe \/ ReversePointers \/ Update \/ Compact
GcStep == Collect /\ UNCHANGED abs

Next == (Instruction /\ UNCHANGED gcvars /\ Record) \/ GcStep

\* gc() is a call in the only thread: once it is entered, nothing stops it.
Spec == Init /\ [][Next]_vars /\ WF_vars(GcStep)

-----------------------------------------------------------------------------
(* Properties.                                                             *)

\* Types; and no header has a size that its size field cannot hold.
TypeOK ==
  /\ VMTypeOK
  /\ heap_end = HeapWosize /\ heap_ptr >= StaticWosize
  /\ \A a \in DOMAIN mem : IsHd(mem[a]) => Wosize_hd(mem[a]) < MaxWosize
  /\ root \in 0 .. Len(Roots) + 1
  /\ p \in Int /\ start \in Int /\ alloc_pos \in Int /\ h \in Word

\* gc() reads a header only where there is one and never follows a pointer or
\* a thread out of the heap.
MemorySafe == ctl # "wild"

LiveBlocks ==
  {a \in Reachable(mem, {acc, env} \cup ToSet(stack) \cup ToSet(globals)) : a > StaticWosize}

\* The thread that starts with w: the addresses of the words linked in it, and
\* the word at its end.
Thread(w) ==
  LET link(v) == is_black(v) /\ v.kind = "dyn"
      from[n \in 0 .. HeapWosize + Len(Roots)] ==
        IF n = 0 THEN [words |-> {}, end |-> w]
        ELSE LET t == from[n - 1] IN
             IF link(t.end) THEN [words |-> t.words \cup {t.end.at}, end |-> At(t.end.at)] ELSE t
  IN  from[HeapWosize + Len(Roots)]
End(w) == Thread(w).end

\* The blocks of the dynamic heap, living and dead, in order from address a.
Blocks ==
  LET from[a \in StaticWosize .. heap_ptr] ==
        IF a >= heap_ptr THEN {} ELSE {a + 1} \cup from[a + Wosize_hd(End(mem[a])) + 1]
  IN  from[StaticWosize]

\* Between two roots, marking has put every header and every pointer it
\* borrowed back in place, so that memory still denotes the same objects; and
\* once it is over the black blocks are exactly the reachable ones.
MarkingIsExact ==
  In("mark") =>
    /\ Graph.objs = abs.objs
    /\ root > Len(Roots) => {b \in Blocks : Color_hd(mem[b - 1]) = Color_black} = LiveBlocks

\* While pointers are being reversed no reference is lost: a word that held a
\* reference to an object when the program stopped either still does, or is
\* linked in the thread that ends in the header of that object.
ThreadsLeadHome ==
  In("roots") \/ In("reverse") \/ In("thread") \/ In("fields") =>
    LET threads == {[block |-> b] @@ Thread(mem[b - 1]) : b \in Blocks}
        Leads(loc, v) ==
          v.kind = "ref" /\ v.ofs = 0 /\ v.id > 0 =>
            \E t \in threads :
              /\ IsHd(t.end) /\ t.end.id = v.id
              /\ IF Is_block_in_dynamic_heap(At(loc)) THEN At(loc).at = t.block
                 ELSE loc \in t.words
        pushed == Len(stack) - Len(abs.stack)
    IN  /\ Leads(acc_addr, abs.acc) /\ Leads(env_addr, abs.env)
        /\ \A i \in DOMAIN globals : Leads(global_addr(i), abs.globals[i])
        /\ \A i \in DOMAIN abs.stack : Leads(stack_addr(pushed + i), abs.stack[i])
        /\ \A t \in threads :
             Tag_hd(t.end) < No_scan_tag =>
               \A i \in 1 .. Wosize_hd(t.end) :
                 Leads(t.block + i - 1, abs.objs[t.end.id].fields[i])

\* After gc() the heap holds the blocks that were reachable before, each once,
\* and nothing else.  Hence Out_of_memory is raised only when the data do not fit.
CollectionIsExact ==
  ctl = "done" => heap_ptr - StaticWosize = LiveWords

\* What the collector guarantees in one formula: it and the instructions stay
\* within the stack and the heap, also when CLOSUREREC overflows the stack with
\* its block written; it never misreads memory, its
\* marking is exact and reversible, its threads lose no reference, and it leaves
\* exactly the live blocks.
CollectorInvariant ==
  TypeOK /\ MemorySafe /\ MarkingIsExact /\ ThreadsLeadHome /\ CollectionIsExact

\* Every call of gc() returns: no loop of a phase, through headers and
\* references that the phases before have swapped, goes on for ever or runs
\* into words it misreads.
GcTerminates == ctl = "gc" ~> ctl = "done"

\* Seen from the program, sliding blocks is invisible: instructions and
\* collections together implement the object graph of OCamlMemory.
ImplementsMemory == Memory!Steps
=============================================================================
