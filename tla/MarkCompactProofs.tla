------------------------- MODULE MarkCompactProofs -------------------------
(***************************************************************************)
(* Mark & Compact never goes astray: the collector that marks without a    *)
(* stack, merges dead blocks, threads the references of every block        *)
(* through its header and unwinds the threads before it moves the blocks,  *)
(* keeps the heap well-formed, whatever tidy program runs on it, for all   *)
(* sizes of heap and stack and all static data.                            *)
(*                                                                         *)
(* Each phase has an invariant that relates memory to a heap that is not   *)
(* stored anywhere: the words as the program left them.  Marking borrows a *)
(* field and a header per block on the way from the root (Way, Marks),     *)
(* reversing borrows the headers and links the words that referred to them *)
(* (Threading), updating gives these words their final values (Plan), and  *)
(* compacting moves the blocks to where the values say (Moved).  Between   *)
(* collections memory is that of MutatorProofs: blocks side by side, whose *)
(* words and the roots refer to blocks (MachineOK).                        *)
(***************************************************************************)
EXTENDS MarkCompact, MutatorProofs

-----------------------------------------------------------------------------
(* Words, and what the colours do to them.                                  *)

\* A header says its size in Hd_size_bitcnt bits.
Sizable   == {w \in Word : IsHd(w) => Wosize_hd(w) < MaxWosize}
SizedHeap == [0 .. HeapWosize - 1 -> Sizable]

\* The header of a block, in white.
WhiteHeader(w) == w \in Sizable /\ IsHd(w) /\ w.low = Color_white

\* Colouring a header changes its colour only.
LEMMA HeaderColours ==
  ASSUME NEW w, WhiteHeader(w)
  PROVE  /\ w \in [kind : {"hd"}, tag : Nat, size : Nat, low : 0 .. 3, id : Int] /\ Wosize_hd(w) \in Nat
         /\ with_black(w) \in Sizable /\ IsHd(with_black(w)) /\ Wosize_hd(with_black(w)) = Wosize_hd(w)
         /\ Tag_hd(with_black(w)) = Tag_hd(w) /\ with_black(w).low = Color_black
         /\ with_black(w).kind = "hd" /\ xor_black(with_black(w)) = w
         /\ with_red(w) \in Sizable /\ IsHd(with_red(w)) /\ Wosize_hd(with_red(w)) = Wosize_hd(w)
         /\ Tag_hd(with_red(w)) = Tag_hd(w) /\ with_red(w).low = Color_red
         /\ without_red(with_red(w)) = w
<1>1. PICK t \in Nat, s \in Nat, i \in Int : w = [kind |-> "hd", tag |-> t, size |-> s, low |-> 0, id |-> i]
  <2>1. w \in [kind : {"hd"}, tag : Nat, size : Nat, low : 0 .. 3, id : Int] /\ w.low = 0
    BY IdOfHeader DEF WhiteHeader, Sizable, Color_white
  <2>. QED
    BY <2>1
<1>2. s < MaxWosize
  BY <1>1 DEF WhiteHeader, Sizable, IsHd, Wosize_hd
<1>3. /\ with_black(w) = [kind |-> "hd", tag |-> t, size |-> s, low |-> 2, id |-> i]
      /\ with_red(w) = [kind |-> "hd", tag |-> t, size |-> s, low |-> 1, id |-> i]
  BY <1>1 DEF with_black, with_red
<1>4. xor_black(with_black(w)) = w /\ without_red(with_red(w)) = w
  BY <1>1, <1>3 DEF xor_black, without_red
<1>5. with_black(w) \in Sizable /\ with_red(w) \in Sizable
  BY <1>2, <1>3 DEF Sizable, Word, IsHd, Wosize_hd
<1>. QED
  BY <1>1, <1>3, <1>4, <1>5 DEF IsHd, Wosize_hd, Tag_hd, Color_black, Color_red

\* A link of a thread, or the way back of the marking, is a pointer in black.
LEMMA LinkColours ==
  ASSUME NEW a \in Int
  PROVE  /\ Back(a) \in Sizable /\ Back(a).kind = "dyn" /\ Back(a).at = a /\ Back(a).low = Color_black
         /\ with_red(Back(a)) \in Sizable /\ with_red(Back(a)).kind = "dyn"
         /\ with_red(Back(a)).at = a /\ with_red(Back(a)).low = 3
         /\ without_red(with_red(Back(a))) = Back(a)
         /\ Val_dynamic_block(a) \in Sizable /\ Val_dynamic_block(a).kind = "dyn"
         /\ Val_dynamic_block(a).at = a /\ Val_dynamic_block(a).low = 0
         /\ Is_block_in_dynamic_heap(Val_dynamic_block(a))
         /\ ~ IsHd(Back(a)) /\ ~ IsHd(with_red(Back(a)))
<1>1. Back(a) = [kind |-> "dyn", at |-> a, low |-> 2]
  BY DEF Back, with_black, Val_dynamic_block
<1>2. with_red(Back(a)) = [kind |-> "dyn", at |-> a, low |-> 3]
  BY <1>1 DEF with_red
<1>3. without_red(with_red(Back(a))) = Back(a)
  BY <1>1, <1>2 DEF without_red
<1>4. Val_dynamic_block(a) = [kind |-> "dyn", at |-> a, low |-> 0]
  BY DEF Val_dynamic_block
<1>5. Back(a) \in Sizable /\ with_red(Back(a)) \in Sizable /\ Val_dynamic_block(a) \in Sizable
  BY <1>1, <1>2, <1>4 DEF Sizable, Word, IsHd
<1>. QED
  BY <1>1, <1>2, <1>3, <1>4, <1>5 DEF IsHd, Is_block_in_dynamic_heap, Color_black

\* A pointer is known by its address.
LEMMA PointerOf ==
  ASSUME NEW w \in Word, Is_block_in_dynamic_heap(w)
  PROVE  w.at \in Int /\ w = Val_dynamic_block(w.at)
<1>1. PICK a \in Int, l \in 0 .. 3 : w = [kind |-> "dyn", at |-> a, low |-> l]
  BY DEF Word, Is_block_in_dynamic_heap
<1>. QED
  BY <1>1 DEF Is_block_in_dynamic_heap, Val_dynamic_block

-----------------------------------------------------------------------------
(* Roots.                                                                   *)

\* The roots are a function of the lengths of the stack and of the globals.
LEMMA SameRoots ==
  ASSUME Len(stack') = Len(stack), Len(globals') = Len(globals)
  PROVE  Roots' = Roots /\ RootSet' = RootSet
BY DEF Roots, RootSet

\* Every variable and every field of a static block is a root, once.
LEMMA RootsOnce ==
  ASSUME VMTypeOK
  PROVE  /\ Roots \in Seq(Int) /\ Len(Roots) \in Nat /\ ToSet(Roots) = RootSet /\ Distinct(Roots)
         /\ \A loc \in RootSet : loc \in Int /\ loc < StaticWosize
<1>. DEFINE s == [i \in 1 .. Len(stack) |-> stack_addr(i)]
            g == [i \in 1 .. Len(globals) |-> global_addr(i)]
            r == <<acc_addr, env_addr>>
<1>1. /\ Len(stack) \in Nat /\ Len(globals) \in Nat /\ Len(stack) <= StackWosize /\ StackWosize \in Nat
      /\ StaticWosize \in Nat
  BY SizesAssumption, HeapWosizeNat DEF VMTypeOK
<1>3. /\ s \in [1 .. Len(stack) -> Int] /\ g \in [1 .. Len(globals) -> Int]
  BY <1>1 DEF stack_addr, global_addr
<1>4. s \in Seq(Int) /\ Len(s) = Len(stack) /\ g \in Seq(Int) /\ Len(g) = Len(globals)
  <2>. HIDE DEF s, g
  <2>. QED
    BY <1>1, <1>3, FunctionSeq
<1>5. r \in Seq(Int) /\ Len(r) = 2 /\ r[1] = -1 /\ r[2] = -2
  BY DEF acc_addr, env_addr
<1>6. StaticFields \in Seq(Int) /\ Distinct(StaticFields) /\ ToSet(StaticFields) \subseteq 0 .. StaticWosize - 1
  <2>1. StaticFields \in Seq(0 + 1 .. StaticWosize - 1) /\ Distinct(StaticFields)
    BY StaticFacts DEF StaticPart
  <2>2. 0 + 1 .. StaticWosize - 1 \subseteq Int
    OBVIOUS
  <2>. QED
    BY <2>1, <2>2, WiderSequence, StaticAddresses
<1>7. \A i \in 1 .. Len(s) : s[i] = -2 - i
  BY <1>1, <1>4 DEF stack_addr
<1>8. \A i \in 1 .. Len(g) : g[i] = -2 - StackWosize - i
  BY <1>1, <1>4 DEF global_addr
<1>9. ToSet(s) = {stack_addr(i) : i \in 1 .. Len(stack)}
  BY DEF ToSet
<1>10. ToSet(g) = {global_addr(i) : i \in 1 .. Len(globals)}
  BY DEF ToSet
<1>11. ToSet(r) = {acc_addr, env_addr}
  <2>1. DOMAIN r = {1, 2} /\ r[1] = acc_addr /\ r[2] = env_addr
    OBVIOUS
  <2>. HIDE DEF r
  <2>. QED
    BY <2>1 DEF ToSet
<1>12. \A j \in 1 .. Len(StaticFields) : StaticFields[j] \in 0 .. StaticWosize - 1
  BY <1>6, SeqElements
<1>. HIDE DEF s, g, r
<1>13. Distinct(s) /\ Distinct(g) /\ Distinct(r)
  <2>1. Distinct(s)
    BY <1>1, <1>4, <1>7 DEF Distinct
  <2>2. Distinct(g)
    BY <1>1, <1>4, <1>8 DEF Distinct
  <2>3. Distinct(r)
    BY <1>5 DEF Distinct
  <2>. QED
    BY <2>1, <2>2, <2>3
<1>14. PICK t : t = r \o s
  OBVIOUS
<1>15. t \in Seq(Int) /\ ToSet(t) = ToSet(r) \cup ToSet(s) /\ Distinct(t)
  <2>1. \A i \in 1 .. Len(r), j \in 1 .. Len(s) : r[i] # s[j]
    BY <1>1, <1>4, <1>5, <1>7
  <2>2. r \o s \in Seq(Int)
    BY <1>4, <1>5, ConcatSeq
  <2>3. ToSet(r \o s) = ToSet(r) \cup ToSet(s)
    BY <1>4, <1>5, ConcatElements
  <2>4. Distinct(r \o s)
    BY <1>4, <1>5, <1>13, <2>1, ConcatDistinct
  <2>. QED
    BY <1>14, <2>2, <2>3, <2>4
<1>16. \A x \in ToSet(t) : x \in Int /\ x < 0 /\ x >= -2 - Len(stack)
  <2>1. \A x \in ToSet(r) : x \in Int /\ x < 0 /\ x >= -2 - Len(stack)
    BY <1>1, <1>11 DEF acc_addr, env_addr
  <2>2. \A x \in ToSet(s) : x \in Int /\ x < 0 /\ x >= -2 - Len(stack)
    BY <1>1, <1>9 DEF stack_addr
  <2>. QED
    BY <1>15, <2>1, <2>2
<1>17. \A i \in 1 .. Len(t) : t[i] \in ToSet(t)
  BY <1>15, SeqElements
<1>18. PICK u : u = t \o g
  OBVIOUS
<1>19. u \in Seq(Int) /\ ToSet(u) = ToSet(t) \cup ToSet(g) /\ Distinct(u)
  <2>1. \A i \in 1 .. Len(t), j \in 1 .. Len(g) : t[i] # g[j]
    BY <1>1, <1>4, <1>8, <1>16, <1>17
  <2>. QED
    BY <1>4, <1>13, <1>15, <1>18, <2>1, ConcatSeq, ConcatElements, ConcatDistinct
<1>20. \A x \in ToSet(u) : x \in Int /\ x < 0
  <2>1. \A x \in ToSet(g) : x \in Int /\ x < 0
    BY <1>1, <1>10 DEF global_addr
  <2>. QED
    BY <1>16, <1>19, <2>1
<1>21. \A i \in 1 .. Len(u) : u[i] \in ToSet(u)
  BY <1>19, SeqElements
<1>22. PICK v : v = u \o StaticFields
  OBVIOUS
<1>23. v \in Seq(Int) /\ ToSet(v) = ToSet(u) \cup ToSet(StaticFields) /\ Distinct(v)
  <2>1. \A i \in 1 .. Len(u), j \in 1 .. Len(StaticFields) : u[i] # StaticFields[j]
    BY <1>1, <1>12, <1>20, <1>21
  <2>. QED
    BY <1>6, <1>19, <1>22, <2>1, ConcatSeq, ConcatElements, ConcatDistinct
<1>24. Roots = v
  BY <1>14, <1>18, <1>22 DEF Roots, s, g, r
<1>25. ToSet(Roots) = RootSet
  BY <1>9, <1>10, <1>11, <1>15, <1>19, <1>23, <1>24 DEF RootSet
<1>26. \A loc \in RootSet : loc \in Int /\ loc < StaticWosize
  BY <1>1, <1>6, <1>20, <1>23, <1>24, <1>25
<1>27. Len(v) \in Nat
  BY <1>23
<1>. QED
  BY <1>23, <1>24, <1>25, <1>26, <1>27

-----------------------------------------------------------------------------
(* The machine.                                                             *)

SizedRegs(a, e, s, g) ==
  a \in Sizable /\ e \in Sizable /\ s \in Seq(Sizable) /\ g \in Seq(Sizable)

\* What holds in every state: TypeOK, for words that are not in memory too, and what
\* the instruction inside OCamlAlloc is about to build.
Sound ==
  /\ VMTypeOK
  /\ mem \in SizedHeap /\ SizedRegs(acc, env, stack, globals) /\ h \in Sizable
  /\ heap_end = HeapWosize /\ heap_ptr >= StaticWosize
  /\ root \in 0 .. Len(Roots) + 1
  /\ p \in Int /\ start \in Int /\ alloc_pos \in Int
  /\ PendTidy /\ pend.size < MaxWosize

\* What holds throughout includes the types.
LEMMA SoundType == ASSUME Sound PROVE TypeOK
<1>1. \A a \in DOMAIN mem : IsHd(mem[a]) => Wosize_hd(mem[a]) < MaxWosize
  BY DEF Sound, SizedHeap, Sizable
<1>2. h \in Word
  BY DEF Sound, Sizable
<1>. QED
  BY <1>1, <1>2 DEF Sound, TypeOK

\* The bounds of the heap.
LEMMA Bounds ==
  ASSUME Sound
  PROVE  /\ StaticWosize \in Nat /\ HeapWosize \in Nat /\ heap_ptr \in Nat /\ StaticWosize < HeapWosize
         /\ StaticWosize <= heap_ptr /\ heap_ptr <= HeapWosize /\ heap_end = HeapWosize
         /\ mem \in SizedHeap /\ DOMAIN mem = 0 .. HeapWosize - 1
         /\ Len(Roots) \in Nat
<1>1. StaticWosize \in Nat /\ HeapWosize \in Nat /\ StaticWosize < HeapWosize
  BY HeapWosizeNat, SizesAssumption, MaxWosizeAssumption DEF HeapWosize
<1>2. Len(Roots) \in Nat
  BY RootsOnce DEF Sound
<1>. QED
  BY <1>1, <1>2 DEF Sound, VMTypeOK, SizedHeap

\* A sized word is a word, and a memory of sized words is one of words.
LEMMA SizedWords ==
  /\ Sizable \subseteq Word /\ SizedHeap \subseteq Memories /\ Seq(Sizable) \subseteq Seq(Word)
<1>1. Sizable \subseteq Word
  BY DEF Sizable
<1>. QED
  BY <1>1 DEF SizedHeap, Memories

\* A step of gc() that keeps words sized and does not run into the rest of the machine
\* keeps all this.
LEMMA SteppedSound ==
  ASSUME Sound, mem' \in SizedHeap, SizedRegs(acc', env', stack', globals'), h' \in Sizable,
         Len(stack') = Len(stack), Len(globals') = Len(globals),
         heap_ptr' \in Nat, heap_ptr' >= StaticWosize, heap_ptr' <= heap_end,
         UNCHANGED <<heap_end, pend>>, ctl' \in {"gc", "done"},
         root' \in 0 .. Len(Roots) + 1, p' \in Int, start' \in Int, alloc_pos' \in Int
  PROVE  Sound' /\ Roots' = Roots /\ RootSet' = RootSet
<1>1. Roots' = Roots /\ RootSet' = RootSet
  BY SameRoots
<1>2. PendOK'
  <2>1. PendOK /\ Len(stack') = Len(stack) /\ stack \in Seq(Word) /\ stack' \in Seq(Word)
    BY SizedWords DEF Sound, VMTypeOK, SizedRegs
  <2>2. stack # << >> => stack' # << >>
    BY <2>1
  <2>. QED
    BY <2>1, <2>2 DEF PendOK, Readable, HeapWosize, StaticWosize
<1>3. PendTidy'
  BY DEF Sound, PendTidy
<1>4. mem' \in [0 .. HeapWosize - 1 -> Word] /\ acc' \in Word /\ env' \in Word /\ stack' \in Seq(Word) /\ globals' \in Seq(Word)
  BY SizedWords DEF SizedRegs, Memories
<1>5. VMTypeOK'
  BY <1>2, <1>4 DEF Sound, VMTypeOK, HeapWosize, StaticWosize
<1>. QED
  BY <1>1, <1>3, <1>5 DEF Sound, HeapWosize, StaticWosize, SizedHeap, Sizable, SizedRegs

\* The registers are values.
RootsIn(B) == \A loc \in RootSet : Value(At(loc), B)

\* Nothing changes in the static heap but the fields.
StaticKept == \A a \in (0 .. StaticWosize - 1) \ ToSet(StaticFields) : mem[a] = StaticHeap[a + 1]

\* A step that changes neither the registers nor the static heap changes no root.
LEMMA RootsUntouched ==
  ASSUME Sound, UNCHANGED regs, \A a \in 0 .. StaticWosize - 1 : mem'[a] = mem[a]
  PROVE  /\ Roots' = Roots /\ RootSet' = RootSet /\ (StaticKept => StaticKept')
         /\ \A loc \in RootSet : At(loc)' = At(loc)
         /\ \A i \in 1 .. Len(Roots) : At(Roots[i])' = At(Roots[i])
<1>1. Roots' = Roots /\ RootSet' = RootSet
  BY SameRoots DEF regs
<1>2. \A loc \in RootSet : loc \in Int /\ loc < StaticWosize
  BY RootsOnce DEF Sound
<1>3. ASSUME NEW loc \in RootSet PROVE At(loc)' = At(loc)
  <2>1. loc >= 0 => loc \in 0 .. StaticWosize - 1
    BY <1>2, Bounds
  <2>2. loc >= 0 => mem'[loc] = mem[loc]
    BY <2>1
  <2>. QED
    BY <2>2 DEF At, regs
<1>4. \A i \in 1 .. Len(Roots) : Roots[i] \in RootSet
  BY RootsOnce, SeqElements DEF Sound
<1>. QED
  BY <1>1, <1>3, <1>4 DEF StaticKept

-----------------------------------------------------------------------------
(* A heap g with the headers of its blocks at B, all white.                 *)

Layout(g, B) ==
  /\ g \in SizedHeap
  /\ BlocksOK(g, StaticWosize, heap_ptr, B) /\ FieldsOK(g, B) /\ Filled(g, StaticWosize, heap_ptr, B)

\* The fields of the block with its header at b.
FieldsOf(g, b) == b + 1 .. b + Wosize_hd(g[b])

\* w refers to no dynamic block but those of S.
Into(w, S) == Is_block_in_dynamic_heap(w) => w.at - 1 \in S /\ w = Val_dynamic_block(w.at)

\* Where blocks and their fields are.
LEMMA LayoutFacts ==
  ASSUME Sound, NEW g, NEW B, Layout(g, B)
  PROVE  /\ \A b \in B : /\ b \in StaticWosize .. heap_ptr - 1 /\ b \in 0 .. HeapWosize - 1 /\ b \in Int
                         /\ WhiteHeader(g[b]) /\ Wosize_hd(g[b]) \in Nat /\ Wosize_hd(g[b]) > 0
                         /\ Tag_hd(g[b]) # Infix_tag /\ Tag_hd(g[b]) \in Nat
                         /\ b + Wosize_hd(g[b]) < heap_ptr
                         /\ FieldsOf(g, b) \subseteq StaticWosize + 1 .. heap_ptr - 1
                         /\ FieldsOf(g, b) \subseteq 1 .. HeapWosize - 1
         /\ \A b, c \in B : c \notin FieldsOf(g, b)
         /\ \A b, c \in B : b # c => FieldsOf(g, b) \cap FieldsOf(g, c) = {}
<1>1. /\ StaticWosize \in Nat /\ HeapWosize \in Nat /\ heap_ptr \in Nat /\ heap_ptr <= HeapWosize
  BY Bounds
<1>2. ASSUME NEW b \in B
      PROVE  /\ b \in StaticWosize .. heap_ptr - 1 /\ BlockHeader(g[b]) /\ b + Wosize_hd(g[b]) < heap_ptr
             /\ \A c \in B : c <= b \/ c > b + Wosize_hd(g[b])
  BY DEF Layout, BlocksOK
<1>3. ASSUME NEW b \in B
      PROVE  /\ b \in 0 .. HeapWosize - 1 /\ b \in Int /\ WhiteHeader(g[b]) /\ Wosize_hd(g[b]) \in Nat
             /\ Wosize_hd(g[b]) > 0 /\ Tag_hd(g[b]) # Infix_tag /\ Tag_hd(g[b]) \in Nat
  <2>1. b \in 0 .. HeapWosize - 1 /\ b \in Int
    BY <1>1, <1>2
  <2>2. g[b] \in Sizable
    BY <2>1 DEF Layout, SizedHeap
  <2>. QED
    BY <1>2, <2>1, <2>2, HeaderParts DEF WhiteHeader, BlockHeader
<1>4. ASSUME NEW b \in B
      PROVE  /\ FieldsOf(g, b) \subseteq StaticWosize + 1 .. heap_ptr - 1
             /\ FieldsOf(g, b) \subseteq 1 .. HeapWosize - 1
  BY <1>1, <1>2, <1>3 DEF FieldsOf
<1>5. ASSUME NEW b \in B, NEW c \in B PROVE c \notin FieldsOf(g, b)
  BY <1>2, <1>3 DEF FieldsOf
<1>6. ASSUME NEW b \in B, NEW c \in B, b # c PROVE FieldsOf(g, b) \cap FieldsOf(g, c) = {}
  <2>1. PICK x, y : x = Wosize_hd(g[b]) /\ y = Wosize_hd(g[c])
    OBVIOUS
  <2>2. /\ b \in Int /\ c \in Int /\ x \in Nat /\ y \in Nat
        /\ c <= b \/ c > b + x
        /\ b <= c \/ b > c + y
    BY <1>2, <1>3, <2>1
  <2>. QED
    BY <2>1, <2>2, <1>6 DEF FieldsOf
<1>. QED
  BY <1>2, <1>3, <1>4, <1>5, <1>6

\* Where a word of a heap is laid out, a value refers to blocks only.
LEMMA ValueInto ==
  ASSUME NEW w, NEW B, Value(w, B)
  PROVE  /\ w \in Word /\ Into(w, B) /\ ~ Is_unaligned_block(w)
         /\ w.kind = "dyn" => Is_block_in_dynamic_heap(w)
<1>1. w \in Word /\ (w.kind \in {"dyn", "static"} => w.low = 0) /\ (w.kind = "dyn" => w.at - 1 \in B)
  BY DEF Value
<1>2. Into(w, B)
  BY <1>1, PointerOf DEF Into, Is_block_in_dynamic_heap
<1>. QED
  BY <1>1, <1>2 DEF Is_unaligned_block, Color_black, Is_block_in_dynamic_heap

\* The words of a heap's fields refer to blocks and are in no black.
LEMMA FieldInto ==
  ASSUME NEW g, NEW B, FieldsOK(g, B), NEW b \in B, Tag_hd(g[b]) < No_scan_tag, b \in Int,
         Wosize_hd(g[b]) \in Nat, NEW a \in FieldsOf(g, b)
  PROVE  Into(g[a], B) /\ ~ Is_unaligned_block(g[a])
<1>1. PICK i : i = a - b
  OBVIOUS
<1>2. i \in 1 .. Wosize_hd(g[b]) /\ a = b + i
  BY <1>1 DEF FieldsOf
<1>3. FieldOK(g, b, i, B)
  BY <1>2 DEF FieldsOK
<1>4. CASE IsCode(g[a])
  BY <1>4 DEF IsCode, Into, Is_block_in_dynamic_heap, Is_unaligned_block
<1>5. CASE Value(g[a], B)
  BY <1>5, ValueInto
<1>. QED
  BY <1>2, <1>3, <1>4, <1>5 DEF FieldOK

-----------------------------------------------------------------------------
(* Marking.  S are the blocks marking has seen.  Those it is inside of are  *)
(* bs[1] .. bs[k], and it came into bs[i] by the field fs[i] of bs[i - 1],  *)
(* the first one by a root (fs[1] = 0, which is UNIQUE_MARK).               *)

Way(g, S, k, bs, fs) ==
  /\ k \in Nat
  /\ \A i \in 1 .. k : bs[i] \in S /\ fs[i] \in Int /\ Tag_hd(g[bs[i]]) < No_scan_tag
  /\ \A i, j \in 1 .. k : bs[i] = bs[j] => i = j
  /\ k > 0 => fs[1] = 0
  /\ \A i \in 2 .. k : fs[i] \in FieldsOf(g, bs[i - 1]) /\ g[fs[i]] = Val_dynamic_block(bs[i] + 1)

\* What marking has made of the heap g: a block it is inside of has its header in the
\* field it came by, and that field's address in the place of the header.
Marks(m, g, S, k, bs, fs) ==
  /\ m \in SizedHeap
  /\ \A a \in S : (\A i \in 1 .. k : a # bs[i]) => m[a] = with_black(g[a])
  /\ \A i \in 1 .. k : m[bs[i]] = Back(fs[i])
  /\ \A i \in 2 .. k : m[fs[i]] = with_black(g[bs[i]])
  /\ \A a \in 0 .. HeapWosize - 1 : a \notin S /\ (\A i \in 2 .. k : a # fs[i]) => m[a] = g[a]

\* Field a of block b is still to be treated, q being the next field of the last block.
Waiting(a, b, k, bs, fs, q) ==
  \E i \in 1 .. k : b = bs[i] /\ a <= IF i = k THEN q ELSE fs[i + 1] - 1

\* Blocks that have been seen refer to blocks that have been seen.
Closed(g, S, k, bs, fs, q) ==
  \A b \in S : Tag_hd(g[b]) < No_scan_tag =>
    \A a \in FieldsOf(g, b) : Into(g[a], S) \/ Waiting(a, b, k, bs, fs, q)

MarkState(m, g, B, S, k, bs, fs, q) ==
  /\ Layout(g, B) /\ S \subseteq B /\ q \in Int
  /\ Way(g, S, k, bs, fs) /\ Marks(m, g, S, k, bs, fs) /\ Closed(g, S, k, bs, fs, q)

\* What the words of memory are, seen from the heap g.
LEMMA MarkWords ==
  ASSUME Sound, NEW m, NEW g, NEW B, NEW S, NEW k, NEW bs, NEW fs, NEW q, MarkState(m, g, B, S, k, bs, fs, q)
  PROVE  /\ \A a \in 0 .. StaticWosize - 1 : m[a] = g[a]
         /\ \A i \in 1 .. k : \A j \in 2 .. k : bs[i] # fs[j]
         /\ \A i, j \in 2 .. k : fs[i] = fs[j] => i = j
         /\ \A b \in B : b \notin S => m[b] = g[b]
         /\ k > 0 => \A a \in FieldsOf(g, bs[k]) : m[a] = g[a] /\ a \notin S
<1>1. /\ \A i \in 2 .. k : i - 1 \in 1 .. k /\ i \in 1 .. k /\ bs[i - 1] \in B /\ bs[i] \in B
      /\ \A i \in 1 .. k : bs[i] \in B
      /\ k \in Nat /\ S \subseteq B
  BY DEF MarkState, Way
<1>2. /\ \A i \in 2 .. k : fs[i] \in FieldsOf(g, bs[i - 1])
      /\ \A i, j \in 1 .. k : bs[i] = bs[j] => i = j
  BY DEF MarkState, Way
<1>3. Layout(g, B)
  BY DEF MarkState
<1>4. /\ \A b \in B : b \in StaticWosize .. heap_ptr - 1 /\ b \in 0 .. HeapWosize - 1
      /\ \A b \in B : FieldsOf(g, b) \subseteq StaticWosize + 1 .. heap_ptr - 1 /\ FieldsOf(g, b) \subseteq 1 .. HeapWosize - 1
      /\ \A b, c \in B : c \notin FieldsOf(g, b)
      /\ \A b, c \in B : b # c => FieldsOf(g, b) \cap FieldsOf(g, c) = {}
  BY <1>3, LayoutFacts
<1>5. /\ StaticWosize \in Nat /\ HeapWosize \in Nat /\ StaticWosize < HeapWosize
  BY Bounds
<1>6. \A i \in 2 .. k : fs[i] \in StaticWosize + 1 .. heap_ptr - 1 /\ fs[i] \notin B
  BY <1>1, <1>2, <1>4
<1>7. \A a \in 0 .. HeapWosize - 1 : a \notin S /\ (\A i \in 2 .. k : a # fs[i]) => m[a] = g[a]
  BY DEF MarkState, Marks
<1>8. \A a \in 0 .. StaticWosize - 1 : m[a] = g[a]
  <2>1. ASSUME NEW a \in 0 .. StaticWosize - 1 PROVE m[a] = g[a]
    <3>1. a \notin S
      BY <1>1, <1>4, <1>5
    <3>2. \A i \in 2 .. k : a # fs[i]
      BY <1>5, <1>6
    <3>3. a \in 0 .. HeapWosize - 1
      BY <1>5
    <3>. QED
      BY <3>1, <3>2, <3>3, <1>7
  <2>. QED
    BY <2>1
<1>9. \A i \in 1 .. k : \A j \in 2 .. k : bs[i] # fs[j]
  BY <1>1, <1>6
<1>10. ASSUME NEW i \in 2 .. k, NEW j \in 2 .. k, fs[i] = fs[j] PROVE i = j
  <2>1. bs[i - 1] = bs[j - 1]
    BY <1>1, <1>2, <1>4, <1>10
  <2>2. i - 1 = j - 1
    BY <2>1, <1>1, <1>2
  <2>. QED
    BY <2>2
<1>11. \A b \in B : b \notin S => m[b] = g[b]
  BY <1>4, <1>6, <1>7
<1>12. ASSUME k > 0, NEW a \in FieldsOf(g, bs[k]) PROVE m[a] = g[a] /\ a \notin S
  <2>1. k \in 1 .. k /\ bs[k] \in B
    BY <1>1, <1>12
  <2>2. a \notin B /\ a \in 0 .. HeapWosize - 1
    BY <2>1, <1>4, <1>5
  <2>3. ASSUME NEW i \in 2 .. k PROVE a # fs[i]
    <3>1. bs[i - 1] # bs[k]
      BY <2>1, <1>1, <1>2
    <3>2. FieldsOf(g, bs[i - 1]) \cap FieldsOf(g, bs[k]) = {}
      BY <3>1, <2>1, <1>1, <1>4
    <3>. QED
      BY <3>2, <1>2
  <2>. QED
    BY <2>2, <2>3, <1>1, <1>7
<1>. QED
  BY <1>8, <1>9, <1>10, <1>11, <1>12

\* No root: marking has left every header black, and nothing else changed.
LEMMA MarkIdle ==
  ASSUME Sound, NEW m, NEW g, NEW B, NEW S, NEW bs, NEW fs, NEW q, MarkState(m, g, B, S, 0, bs, fs, q)
  PROVE  /\ \A a \in S : m[a] = with_black(g[a])
         /\ \A a \in 0 .. HeapWosize - 1 : a \notin S => m[a] = g[a]
         /\ \A b \in S : Tag_hd(g[b]) < No_scan_tag => \A a \in FieldsOf(g, b) : Into(g[a], S)
BY DEF MarkState, Marks, Closed, Waiting

\* Marking goes on to the field before, when the one at q refers to no white block.
LEMMA PreviousField ==
  ASSUME NEW m, NEW g, NEW B, NEW S, NEW k, NEW bs, NEW fs, NEW q, MarkState(m, g, B, S, k, bs, fs, q),
         Into(g[q], S)
  PROVE  MarkState(m, g, B, S, k, bs, fs, q - 1)
<1>1. q \in Int /\ k \in Nat
  BY DEF MarkState, Way
<1>2. ASSUME NEW b \in S, Tag_hd(g[b]) < No_scan_tag, NEW a \in FieldsOf(g, b), ~ Into(g[a], S)
      PROVE  Waiting(a, b, k, bs, fs, q - 1)
  <2>1. Waiting(a, b, k, bs, fs, q) /\ a # q
    BY <1>2 DEF MarkState, Closed
  <2>2. PICK i \in 1 .. k : b = bs[i] /\ a <= IF i = k THEN q ELSE fs[i + 1] - 1
    BY <2>1 DEF Waiting
  <2>3. a \in Int
    BY DEF FieldsOf
  <2>4. a <= IF i = k THEN q - 1 ELSE fs[i + 1] - 1
    BY <2>1, <2>2, <2>3, <1>1
  <2>. QED
    BY <2>2, <2>4 DEF Waiting
<1>. QED
  BY <1>1, <1>2 DEF MarkState, Closed

\* A leaf, a white block without fields to follow, is blackened.
LEMMA Blacken ==
  ASSUME Sound, NEW m, NEW g, NEW B, NEW S, NEW k, NEW bs, NEW fs, NEW q, MarkState(m, g, B, S, k, bs, fs, q),
         NEW c \in B, c \notin S, Tag_hd(g[c]) >= No_scan_tag,
         NEW m2 \in SizedHeap, \A a \in 0 .. HeapWosize - 1 : m2[a] = IF a = c THEN with_black(g[c]) ELSE m[a]
  PROVE  MarkState(m2, g, B, S \cup {c}, k, bs, fs, q)
<1>1. /\ k \in Nat /\ S \subseteq B /\ Way(g, S, k, bs, fs) /\ Marks(m, g, S, k, bs, fs)
      /\ \A i \in 1 .. k : bs[i] \in S /\ bs[i] \in B
      /\ \A i \in 2 .. k : i \in 1 .. k /\ i - 1 \in 1 .. k
  BY DEF MarkState, Way
<1>2. /\ \A b \in B : b \in 0 .. HeapWosize - 1 /\ Tag_hd(g[b]) \in Nat
      /\ \A b \in B : FieldsOf(g, b) \subseteq 1 .. HeapWosize - 1
      /\ \A b, d \in B : d \notin FieldsOf(g, b)
  BY LayoutFacts DEF MarkState
<1>3. \A i \in 2 .. k : fs[i] \in FieldsOf(g, bs[i - 1]) /\ fs[i] # c /\ fs[i] \in 0 .. HeapWosize - 1
  BY <1>1, <1>2 DEF Way
<1>4. Way(g, S \cup {c}, k, bs, fs)
  BY <1>1 DEF Way
<1>5. Marks(m2, g, S \cup {c}, k, bs, fs)
  <2>1. ASSUME NEW a \in S \cup {c}, \A i \in 1 .. k : a # bs[i] PROVE m2[a] = with_black(g[a])
    BY <2>1, <1>1, <1>2 DEF Marks
  <2>2. ASSUME NEW i \in 1 .. k PROVE m2[bs[i]] = Back(fs[i])
    <3>1. bs[i] # c /\ bs[i] \in 0 .. HeapWosize - 1
      BY <1>1, <1>2
    <3>. QED
      BY <3>1, <1>1 DEF Marks
  <2>3. ASSUME NEW i \in 2 .. k PROVE m2[fs[i]] = with_black(g[bs[i]])
    BY <1>1, <1>3 DEF Marks
  <2>4. ASSUME NEW a \in 0 .. HeapWosize - 1, a \notin S \cup {c}, \A i \in 2 .. k : a # fs[i]
        PROVE m2[a] = g[a]
    BY <2>4, <1>1 DEF Marks
  <2>. QED
    BY <2>1, <2>2, <2>3, <2>4 DEF Marks
<1>6. Closed(g, S \cup {c}, k, bs, fs, q)
  <2>1. ASSUME NEW b \in S, Tag_hd(g[b]) < No_scan_tag, NEW a \in FieldsOf(g, b)
        PROVE  Into(g[a], S \cup {c}) \/ Waiting(a, b, k, bs, fs, q)
    BY <2>1 DEF MarkState, Closed, Into
  <2>2. ~ (Tag_hd(g[c]) < No_scan_tag)
    BY <1>2 DEF No_scan_tag
  <2>. QED
    BY <2>1, <2>2 DEF Closed
<1>. QED
  BY <1>1, <1>4, <1>5, <1>6 DEF MarkState

\* f is the field, or 0 for a root, by which the block at c is entered ...
EnteredBy(g, k, bs, q, c, f) ==
  IF k = 0 THEN f = 0 ELSE f = q /\ q \in FieldsOf(g, bs[k]) /\ g[q] = Val_dynamic_block(c + 1)
\* ... and what this writes.
EnterWrites(m, m2, g, k, c, f) ==
  \A a \in 0 .. HeapWosize - 1 :
    m2[a] = IF a = c THEN Back(f) ELSE IF k > 0 /\ a = f THEN with_black(g[c]) ELSE m[a]

\* Inside one more block than before, the one at c.
Entered(m2, g, B, S, k, bs, c, q2) ==
  \E bs2, fs2 : /\ MarkState(m2, g, B, S \cup {c}, k + 1, bs2, fs2, q2)
               /\ bs2[k + 1] = c /\ (k > 0 => bs2[1] = bs[1])

\* Marking enters the block at c: by a root, or by field q of the block it is in.
LEMMA Enter ==
  ASSUME Sound, NEW m, NEW g, NEW B, NEW S, NEW k, NEW bs, NEW fs, NEW q, MarkState(m, g, B, S, k, bs, fs, q),
         NEW c \in B, c \notin S, Tag_hd(g[c]) < No_scan_tag,
         NEW f \in Int,
         EnteredBy(g, k, bs, q, c, f), NEW m2 \in SizedHeap, EnterWrites(m, m2, g, k, c, f),
         NEW q2 \in Int, q2 = c + Wosize_hd(g[c])
  PROVE  Entered(m2, g, B, S, k, bs, c, q2)
<1>. USE DEF EnteredBy, EnterWrites, Entered
<1>1. /\ k \in Nat /\ S \subseteq B /\ Way(g, S, k, bs, fs) /\ Marks(m, g, S, k, bs, fs)
      /\ \A i \in 1 .. k : bs[i] \in S /\ bs[i] \in B
      /\ \A i \in 2 .. k : i \in 1 .. k /\ i - 1 \in 1 .. k
      /\ q \in Int
  BY DEF MarkState, Way
<1>2. /\ \A b \in B : b \in 0 .. HeapWosize - 1 /\ Tag_hd(g[b]) \in Nat
      /\ \A b \in B : FieldsOf(g, b) \subseteq 1 .. HeapWosize - 1
      /\ \A b, d \in B : d \notin FieldsOf(g, b)
      /\ \A b, d \in B : b # d => FieldsOf(g, b) \cap FieldsOf(g, d) = {}
  BY LayoutFacts DEF MarkState
<1>3. \A i \in 2 .. k : fs[i] \in FieldsOf(g, bs[i - 1]) /\ fs[i] # c /\ fs[i] \in 0 .. HeapWosize - 1
  BY <1>1, <1>2 DEF Way
<1>4. PICK bs2 : bs2 = [i \in 1 .. k + 1 |-> IF i = k + 1 THEN c ELSE bs[i]]
  OBVIOUS
<1>5. PICK fs2 : fs2 = [i \in 1 .. k + 1 |-> IF i = k + 1 THEN f ELSE fs[i]]
  OBVIOUS
<1>6. /\ bs2[k + 1] = c /\ fs2[k + 1] = f
      /\ \A i \in 1 .. k : bs2[i] = bs[i] /\ fs2[i] = fs[i] /\ i \in 1 .. k + 1 /\ i # k + 1
      /\ \A i \in 1 .. k + 1 : i \in 1 .. k \/ i = k + 1
      /\ \A i \in 2 .. k + 1 : i \in 2 .. k \/ (i = k + 1 /\ k \in 1 .. k /\ k > 0)
      /\ \A i \in 2 .. k + 1 : i - 1 \in 1 .. k
  BY <1>1, <1>4, <1>5
<1>7. k > 0 => f = q /\ f \in FieldsOf(g, bs[k]) /\ g[f] = Val_dynamic_block(c + 1) /\ f # c /\ f \in 0 .. HeapWosize - 1 /\ k \in 1 .. k
  <2>1. k > 0 => k \in 1 .. k /\ k # 0
    BY <1>1
  <2>. QED
    BY <1>1, <1>2, <2>1
<1>8. Way(g, S \cup {c}, k + 1, bs2, fs2)
  <2>1. ASSUME NEW i \in 1 .. k + 1 PROVE bs2[i] \in S \cup {c} /\ fs2[i] \in Int /\ Tag_hd(g[bs2[i]]) < No_scan_tag
    BY <1>1, <1>6 DEF Way
  <2>2. ASSUME NEW i \in 1 .. k + 1, NEW j \in 1 .. k + 1, bs2[i] = bs2[j] PROVE i = j
    <3>1. CASE i \in 1 .. k /\ j \in 1 .. k
      BY <2>2, <3>1, <1>1, <1>6 DEF Way
    <3>2. CASE i = k + 1 \/ j = k + 1
      BY <2>2, <3>2, <1>1, <1>6
    <3>. QED
      BY <3>1, <3>2, <1>6
  <2>3. fs2[1] = 0
    <3>1. CASE k = 0
      BY <3>1, <1>6
    <3>2. CASE k # 0
      <4>1. k > 0 /\ 1 \in 1 .. k
        BY <3>2, <1>1
      <4>. QED
        BY <4>1, <1>1, <1>6 DEF Way
    <3>. QED
      BY <3>1, <3>2
  <2>4. ASSUME NEW i \in 2 .. k + 1
        PROVE  fs2[i] \in FieldsOf(g, bs2[i - 1]) /\ g[fs2[i]] = Val_dynamic_block(bs2[i] + 1)
    <3>1. CASE i \in 2 .. k
      <4>1. i \in 1 .. k /\ i - 1 \in 1 .. k
        BY <3>1, <1>1
      <4>2. bs2[i] = bs[i] /\ bs2[i - 1] = bs[i - 1] /\ fs2[i] = fs[i]
        BY <4>1, <1>6
      <4>. QED
        BY <3>1, <4>2, <1>1 DEF Way
    <3>2. CASE i = k + 1
      <4>1. k > 0 /\ k \in 1 .. k /\ i - 1 = k
        BY <3>2, <1>1
      <4>2. bs2[i - 1] = bs[k] /\ bs2[i] = c /\ fs2[i] = f
        BY <3>2, <4>1, <1>6
      <4>. QED
        BY <4>1, <4>2, <1>7
    <3>. QED
      BY <3>1, <3>2, <1>6
  <2>. QED
    BY <2>1, <2>2, <2>3, <2>4, <1>1 DEF Way
<1>9. Marks(m2, g, S \cup {c}, k + 1, bs2, fs2)
  <2>0. /\ \A a \in S : (\A i \in 1 .. k : a # bs[i]) => m[a] = with_black(g[a])
        /\ \A i \in 1 .. k : m[bs[i]] = Back(fs[i])
        /\ \A i \in 2 .. k : m[fs[i]] = with_black(g[bs[i]])
        /\ \A a \in 0 .. HeapWosize - 1 : a \notin S /\ (\A i \in 2 .. k : a # fs[i]) => m[a] = g[a]
    BY <1>1 DEF Marks
  <2>1. \A b \in S : b # c /\ (k > 0 => b # f) /\ b \in 0 .. HeapWosize - 1
    BY <1>1, <1>2, <1>7
  <2>2. c \in 0 .. HeapWosize - 1
    BY <1>2
  <2>3. ASSUME NEW a \in S \cup {c}, \A i \in 1 .. k + 1 : a # bs2[i] PROVE m2[a] = with_black(g[a])
    <3>1. k + 1 \in 1 .. k + 1
      BY <1>1
    <3>2. a # c /\ a \in S
      BY <2>3, <3>1, <1>6
    <3>3. \A i \in 1 .. k : a # bs[i]
      BY <2>3, <1>6
    <3>4. m2[a] = m[a]
      BY <3>2, <2>1
    <3>. QED
      BY <3>2, <3>3, <3>4, <2>0
  <2>4. ASSUME NEW i \in 1 .. k + 1 PROVE m2[bs2[i]] = Back(fs2[i])
    <3>1. CASE i \in 1 .. k
      <4>1. m2[bs[i]] = m[bs[i]]
        BY <3>1, <2>1, <1>1
      <4>. QED
        BY <3>1, <4>1, <2>0, <1>6
    <3>2. CASE i = k + 1
      BY <3>2, <2>2, <1>6
    <3>. QED
      BY <3>1, <3>2, <1>6
  <2>5. ASSUME NEW i \in 2 .. k + 1 PROVE m2[fs2[i]] = with_black(g[bs2[i]])
    <3>1. CASE i \in 2 .. k
      <4>1. i \in 1 .. k /\ i - 1 \in 1 .. k
        BY <3>1, <1>1
      <4>2. k > 0 /\ k \in 1 .. k /\ bs[i - 1] # bs[k]
        <5>1. k > 0 /\ k \in 1 .. k /\ i - 1 # k
          BY <3>1, <1>1
        <5>. QED
          BY <5>1, <4>1, <1>1 DEF Way
      <4>3. fs[i] # f
        <5>1. FieldsOf(g, bs[i - 1]) \cap FieldsOf(g, bs[k]) = {}
          BY <4>1, <4>2, <1>1, <1>2
        <5>. QED
          BY <3>1, <4>2, <5>1, <1>3, <1>7
      <4>4. m2[fs[i]] = m[fs[i]]
        BY <3>1, <4>3, <1>3
      <4>. QED
        BY <3>1, <4>1, <4>4, <2>0, <1>6
    <3>2. CASE i = k + 1
      <4>1. k > 0 /\ fs2[i] = f /\ bs2[i] = c
        BY <3>2, <1>1, <1>6
      <4>. QED
        BY <4>1, <1>7
    <3>. QED
      BY <3>1, <3>2, <1>6
  <2>6. ASSUME NEW a \in 0 .. HeapWosize - 1, a \notin S \cup {c}, \A i \in 2 .. k + 1 : a # fs2[i]
        PROVE m2[a] = g[a]
    <3>1. \A i \in 2 .. k : a # fs[i]
      <4>1. ASSUME NEW i \in 2 .. k PROVE a # fs[i]
        <5>1. i \in 1 .. k /\ i \in 2 .. k + 1
          BY <1>1
        <5>. QED
          BY <5>1, <2>6, <1>6
      <4>. QED
        BY <4>1
    <3>2. k > 0 => a # f
      <4>1. k > 0 => k + 1 \in 2 .. k + 1
        BY <1>1
      <4>. QED
        BY <4>1, <2>6, <1>6
    <3>. QED
      BY <3>1, <3>2, <2>6, <2>0
  <2>. QED
    BY <2>3, <2>4, <2>5, <2>6 DEF Marks
<1>10. Closed(g, S \cup {c}, k + 1, bs2, fs2, q2)
  <2>1. ASSUME NEW a \in FieldsOf(g, c) PROVE Waiting(a, c, k + 1, bs2, fs2, q2)
    <3>1. a <= q2 /\ k + 1 \in 1 .. k + 1
      BY <1>1 DEF FieldsOf
    <3>. QED
      BY <3>1, <1>6 DEF Waiting
  <2>2. ASSUME NEW b \in S, Tag_hd(g[b]) < No_scan_tag, NEW a \in FieldsOf(g, b), ~ Into(g[a], S \cup {c})
        PROVE  Waiting(a, b, k + 1, bs2, fs2, q2)
    <3>1. Waiting(a, b, k, bs, fs, q)
      BY <2>2 DEF MarkState, Closed, Into
    <3>2. PICK i \in 1 .. k : b = bs[i] /\ a <= IF i = k THEN q ELSE fs[i + 1] - 1
      BY <3>1 DEF Waiting
    <3>3. a \in Int /\ i \in 1 .. k + 1 /\ i # k + 1 /\ k > 0
      BY <1>1 DEF FieldsOf
    <3>4. CASE i = k
      <4>1. a # q
        <5>1. c \in Int
          BY <1>2
        <5>2. Into(Val_dynamic_block(c + 1), S \cup {c})
          BY <5>1, LinkColours DEF Into
        <5>. QED
          BY <5>2, <2>2, <3>3, <1>7
      <4>2. a <= fs2[i + 1] - 1
        BY <3>2, <3>3, <3>4, <4>1, <1>1, <1>6, <1>7
      <4>. QED
        BY <3>2, <3>3, <4>2, <1>6 DEF Waiting
    <3>5. CASE i # k
      <4>1. i + 1 \in 1 .. k
        BY <3>5, <1>1
      <4>2. a <= fs2[i + 1] - 1
        BY <3>2, <3>5, <4>1, <1>6
      <4>. QED
        BY <3>2, <3>3, <4>2, <1>6 DEF Waiting
    <3>. QED
      BY <3>4, <3>5
  <2>. QED
    BY <2>1, <2>2 DEF Closed
<1>11. MarkState(m2, g, B, S \cup {c}, k + 1, bs2, fs2, q2)
  BY <1>1, <1>8, <1>9, <1>10 DEF MarkState
<1>12. k > 0 => bs2[1] = bs[1]
  <2>1. k > 0 => 1 \in 1 .. k
    BY <1>1
  <2>. QED
    BY <2>1, <1>6
<1>. QED
  BY <1>6, <1>11, <1>12

\* What leaving the last block of the way writes.
LeaveWrites(m, m2, g, k, bs, fs) ==
  \A a \in 0 .. HeapWosize - 1 :
    m2[a] = IF a = bs[k] THEN with_black(g[bs[k]])
            ELSE IF k > 1 /\ a = fs[k] THEN Val_dynamic_block(bs[k] + 1) ELSE m[a]

\* Marking leaves a block whose fields have all been treated: the header comes back
\* to its place, in black, and the pointer to its field.
LEMMA Leave ==
  ASSUME Sound, NEW m, NEW g, NEW B, NEW S, NEW k, NEW bs, NEW fs, NEW q, MarkState(m, g, B, S, k, bs, fs, q),
         k > 0, q = bs[k],
         NEW m2 \in SizedHeap,
         LeaveWrites(m, m2, g, k, bs, fs), NEW q2 \in Int, k > 1 => q2 = fs[k] - 1
  PROVE  MarkState(m2, g, B, S, k - 1, bs, fs, q2)
<1>. USE DEF LeaveWrites
<1>1. /\ k \in Nat /\ S \subseteq B /\ Way(g, S, k, bs, fs) /\ Marks(m, g, S, k, bs, fs)
      /\ \A i \in 1 .. k : bs[i] \in S /\ bs[i] \in B
      /\ \A i \in 2 .. k : i \in 1 .. k /\ i - 1 \in 1 .. k
      /\ k \in 1 .. k /\ k - 1 \in Nat /\ k # k - 1
      /\ \A i \in 1 .. k - 1 : i \in 1 .. k /\ i # k
      /\ \A i \in 2 .. k - 1 : i \in 2 .. k /\ i # k
  BY DEF MarkState, Way
<1>2. /\ \A b \in B : b \in 0 .. HeapWosize - 1 /\ Tag_hd(g[b]) \in Nat
      /\ \A b \in B : FieldsOf(g, b) \subseteq 1 .. HeapWosize - 1
      /\ \A b, d \in B : d \notin FieldsOf(g, b)
  BY LayoutFacts DEF MarkState
<1>3. /\ \A i \in 2 .. k : fs[i] \in FieldsOf(g, bs[i - 1]) /\ fs[i] \notin B /\ fs[i] \in 0 .. HeapWosize - 1
      /\ \A i \in 2 .. k : g[fs[i]] = Val_dynamic_block(bs[i] + 1)
      /\ \A i, j \in 1 .. k : bs[i] = bs[j] => i = j
  BY <1>1, <1>2 DEF Way
<1>4. \A i, j \in 2 .. k : fs[i] = fs[j] => i = j
  BY MarkWords
<1>5. Way(g, S, k - 1, bs, fs)
  <2>1. k - 1 > 0 => k > 0
    BY <1>1
  <2>. QED
    BY <2>1, <1>1 DEF Way
<1>6. Marks(m2, g, S, k - 1, bs, fs)
  <2>0. /\ \A a \in S : (\A i \in 1 .. k : a # bs[i]) => m[a] = with_black(g[a])
        /\ \A i \in 1 .. k : m[bs[i]] = Back(fs[i])
        /\ \A i \in 2 .. k : m[fs[i]] = with_black(g[bs[i]])
        /\ \A a \in 0 .. HeapWosize - 1 : a \notin S /\ (\A i \in 2 .. k : a # fs[i]) => m[a] = g[a]
    BY <1>1 DEF Marks
  <2>1. k > 1 => k \in 2 .. k
    BY <1>1
  <2>2. ASSUME NEW a \in S, \A i \in 1 .. k - 1 : a # bs[i] PROVE m2[a] = with_black(g[a])
    <3>1. a \in 0 .. HeapWosize - 1 /\ (k > 1 => a # fs[k])
      BY <1>1, <1>2, <1>3, <2>1
    <3>2. CASE a = bs[k]
      BY <3>1, <3>2
    <3>3. CASE a # bs[k]
      <4>1. \A i \in 1 .. k : i \in 1 .. k - 1 \/ i = k
        BY <1>1
      <4>2. \A i \in 1 .. k : a # bs[i]
        BY <2>2, <3>3, <4>1
      <4>. QED
        BY <3>1, <3>3, <4>2, <2>0
    <3>. QED
      BY <3>2, <3>3
  <2>3. ASSUME NEW i \in 1 .. k - 1 PROVE m2[bs[i]] = Back(fs[i])
    <3>1. bs[i] # bs[k] /\ bs[i] \in 0 .. HeapWosize - 1 /\ (k > 1 => bs[i] # fs[k])
      BY <1>1, <1>2, <1>3, <2>1
    <3>. QED
      BY <3>1, <2>0, <1>1
  <2>4. ASSUME NEW i \in 2 .. k - 1 PROVE m2[fs[i]] = with_black(g[bs[i]])
    <3>1. i \in 2 .. k /\ i # k /\ k > 1
      BY <1>1
    <3>2. fs[i] # fs[k] /\ fs[i] # bs[k] /\ fs[i] \in 0 .. HeapWosize - 1
      BY <3>1, <1>1, <1>3, <1>4, <2>1
    <3>. QED
      BY <3>1, <3>2, <2>0
  <2>5. ASSUME NEW a \in 0 .. HeapWosize - 1, a \notin S, \A i \in 2 .. k - 1 : a # fs[i]
        PROVE m2[a] = g[a]
    <3>1. a # bs[k]
      BY <2>5, <1>1
    <3>2. CASE k > 1 /\ a = fs[k]
      BY <3>1, <3>2, <2>1, <1>3
    <3>3. CASE ~ (k > 1 /\ a = fs[k])
      <4>1. \A i \in 2 .. k : i \in 2 .. k - 1 \/ (i = k /\ k > 1)
        BY <1>1
      <4>2. \A i \in 2 .. k : a # fs[i]
        BY <4>1, <3>3, <2>5
      <4>3. m2[a] = m[a]
        BY <3>1, <3>3
      <4>. QED
        BY <4>2, <4>3, <2>5, <2>0
    <3>. QED
      BY <3>2, <3>3
  <2>. QED
    BY <2>2, <2>3, <2>4, <2>5 DEF Marks
<1>7. Closed(g, S, k - 1, bs, fs, q2)
  <2>1. ASSUME NEW b \in S, Tag_hd(g[b]) < No_scan_tag, NEW a \in FieldsOf(g, b), ~ Into(g[a], S)
        PROVE  Waiting(a, b, k - 1, bs, fs, q2)
    <3>1. Waiting(a, b, k, bs, fs, q)
      BY <2>1 DEF MarkState, Closed
    <3>2. PICK i \in 1 .. k : b = bs[i] /\ a <= IF i = k THEN q ELSE fs[i + 1] - 1
      BY <3>1 DEF Waiting
    <3>3. a \in Int /\ a > b /\ b \in Int
      BY <1>1, <1>2 DEF FieldsOf
    <3>4. i # k
      BY <3>2, <3>3
    <3>5. i \in 1 .. k - 1 /\ k > 1
      BY <3>4, <1>1
    <3>6. a <= IF i = k - 1 THEN q2 ELSE fs[i + 1] - 1
      <4>1. CASE i = k - 1
        <5>1. i + 1 = k
          BY <4>1, <1>1
        <5>. QED
          BY <4>1, <5>1, <3>2, <3>4, <3>5
      <4>2. CASE i # k - 1
        BY <4>2, <3>2, <3>4
      <4>. QED
        BY <4>1, <4>2
    <3>. QED
      BY <3>2, <3>5, <3>6 DEF Waiting
  <2>. QED
    BY <2>1 DEF Closed
<1>. QED
  BY <1>1, <1>5, <1>6, <1>7 DEF MarkState

\* The roots are values, and the first n of them refer to blocks that have been seen.
Rooted(B, S, n) ==
  RootsIn(B) /\ StaticKept /\ \A i \in 1 .. n : Into(At(Roots[i]), S)

\* Between two roots, and inside the blocks one leads to.
AtRoot(g, B, S, bs, fs) ==
  /\ root \in 1 .. Len(Roots) + 1
  /\ MarkState(mem, g, B, S, 0, bs, fs, 0) /\ Rooted(B, S, root - 1)
AtBlock(g, B, S, k, bs, fs) ==
  /\ root \in 1 .. Len(Roots) /\ k > 0
  /\ MarkState(mem, g, B, S, k, bs, fs, p) /\ Rooted(B, S, root)
  /\ Is_block_in_dynamic_heap(Root) /\ Root.at - 1 = bs[1] /\ h = g[bs[1]]
  /\ p \in bs[k] .. bs[k] + Wosize_hd(g[bs[k]])

MarkInv  == In("mark") /\ \E g, B, S, bs, fs : AtRoot(g, B, S, bs, fs)
BlockInv == In("block") /\ \E g, B, S, k, bs, fs : AtBlock(g, B, S, k, bs, fs)

\* A step of gc() that changes memory beyond the static heap, and no register.
LEMMA HeapStep ==
  ASSUME Sound, ctl = "gc", Unmoved, UNCHANGED regs, mem' \in SizedHeap,
         \A a \in 0 .. StaticWosize - 1 : mem'[a] = mem[a],
         h' \in Sizable, root' \in 0 .. Len(Roots) + 1, p' \in Int, start' \in Int, alloc_pos' \in Int
  PROVE  /\ Sound' /\ Roots' = Roots /\ RootSet' = RootSet /\ ctl' = "gc"
         /\ \A B, S, n : Rooted(B, S, n) /\ n \in Int /\ n <= Len(Roots) => Rooted(B, S, n)'
         /\ \A i \in 1 .. Len(Roots) : At(Roots[i])' = At(Roots[i])
<1>1. /\ Roots' = Roots /\ RootSet' = RootSet /\ (StaticKept => StaticKept')
      /\ \A loc \in RootSet : At(loc)' = At(loc)
      /\ \A i \in 1 .. Len(Roots) : At(Roots[i])' = At(Roots[i])
  BY RootsUntouched
<1>2. Sound'
  <2>1. SizedRegs(acc', env', stack', globals') /\ Len(stack') = Len(stack) /\ Len(globals') = Len(globals)
    BY DEF Sound, regs
  <2>2. heap_ptr' \in Nat /\ heap_ptr' >= StaticWosize /\ heap_ptr' <= heap_end
    BY Bounds DEF Unmoved
  <2>. QED
    BY <2>1, <2>2, SteppedSound DEF Unmoved
<1>3. ctl' = "gc"
  BY DEF Unmoved
<1>4. ASSUME NEW B, NEW S, NEW n \in Int, n <= Len(Roots), Rooted(B, S, n) PROVE Rooted(B, S, n)'
  <2>1. RootsIn(B)'
    BY <1>1, <1>4 DEF Rooted, RootsIn
  <2>2. \A i \in 1 .. n : i \in 1 .. Len(Roots)
    BY <1>4, Bounds
  <2>3. \A i \in 1 .. n : Into(At(Roots[i]), S)'
    BY <1>1, <1>4, <2>2 DEF Rooted, Into, Is_block_in_dynamic_heap, Val_dynamic_block
  <2>. QED
    BY <1>1, <1>4, <2>1, <2>3 DEF Rooted
<1>. QED
  BY <1>1, <1>2, <1>3, <1>4

\* The marking of memory, one step later.
LEMMA MarkNext ==
  ASSUME UNCHANGED heap_ptr, NEW g, NEW B, NEW S, NEW k, NEW bs, NEW fs, NEW q, NEW m,
         MarkState(m, g, B, S, k, bs, fs, q), mem' = m
  PROVE  MarkState(mem, g, B, S, k, bs, fs, q)'
BY DEF MarkState, Layout, Marks, SizedHeap, Sizable, HeapWosize, StaticWosize

\* The header of a block that marking has seen is black, or away; the others are as before.
LEMMA MarkHeader ==
  ASSUME Sound, NEW g, NEW B, NEW S, NEW k, NEW bs, NEW fs, NEW q, MarkState(mem, g, B, S, k, bs, fs, q), NEW c \in B
  PROVE  /\ InHeap(c) /\ c \in Int /\ c >= StaticWosize
         /\ c \in S => Color_hd(mem[c]) = Color_black /\ (IsHd(mem[c]) => Tag_hd(mem[c]) # Infix_tag)
         /\ c \notin S => /\ mem[c] = g[c] /\ IsHd(mem[c]) /\ Color_hd(mem[c]) = Color_white
                          /\ Tag_hd(mem[c]) # Infix_tag /\ Tag_hd(mem[c]) \in Nat /\ Wosize_hd(mem[c]) \in Nat
<1>1. /\ c \in 0 .. HeapWosize - 1 /\ c \in StaticWosize .. heap_ptr - 1
      /\ WhiteHeader(g[c]) /\ Tag_hd(g[c]) # Infix_tag /\ Tag_hd(g[c]) \in Nat
  BY LayoutFacts DEF MarkState
<1>2. ASSUME c \in S PROVE Color_hd(mem[c]) = Color_black /\ (IsHd(mem[c]) => Tag_hd(mem[c]) # Infix_tag)
  <2>1. CASE \E i \in 1 .. k : c = bs[i]
    <3>1. PICK i \in 1 .. k : c = bs[i]
      BY <2>1
    <3>2. mem[c] = Back(fs[i]) /\ fs[i] \in Int
      BY <3>1 DEF MarkState, Marks, Way
    <3>. QED
      BY <3>2, LinkColours DEF Color_hd
  <2>2. CASE ~ \E i \in 1 .. k : c = bs[i]
    <3>1. mem[c] = with_black(g[c])
      BY <1>2, <2>2 DEF MarkState, Marks
    <3>. QED
      BY <3>1, <1>1, HeaderColours DEF Color_hd
  <2>. QED
    BY <2>1, <2>2
<1>3. ASSUME c \notin S
      PROVE  /\ mem[c] = g[c] /\ IsHd(mem[c]) /\ Color_hd(mem[c]) = Color_white
             /\ Tag_hd(mem[c]) # Infix_tag /\ Tag_hd(mem[c]) \in Nat /\ Wosize_hd(mem[c]) \in Nat
  <2>1. mem[c] = g[c]
    BY <1>3, MarkWords
  <2>. QED
    BY <2>1, <1>1, HeaderColours DEF Color_hd, WhiteHeader
<1>4. c \in Int /\ c >= StaticWosize
  BY <1>1
<1>. QED
  BY <1>1, <1>2, <1>3, <1>4 DEF InHeap

\* The root being treated is a value.
LEMMA RootValue ==
  ASSUME Sound, NEW B, NEW S, NEW n, Rooted(B, S, n), root \in 1 .. Len(Roots)
  PROVE  /\ Root \in Word /\ Value(Root, B) /\ Into(Root, B)
         /\ Is_block_in_dynamic_heap(Root) => Root.at \in Int /\ Root.at - 1 \in B
<1>1. Roots[root] \in RootSet
  BY RootsOnce, SeqElements DEF Sound
<1>2. Value(Root, B)
  BY <1>1 DEF Rooted, RootsIn, Root
<1>3. Root \in Word /\ Into(Root, B)
  BY <1>2, ValueInto
<1>4. Is_block_in_dynamic_heap(Root) => Root.at \in Int
  BY <1>3, PointerOf
<1>. QED
  BY <1>2, <1>3, <1>4 DEF Into

\* One more root that refers to what has been seen.
LEMMA NextRoot ==
  ASSUME NEW B, NEW S, root \in 1 .. Len(Roots), Len(Roots) \in Nat, Rooted(B, S, root - 1), Into(Root, S)
  PROVE  Rooted(B, S, root)
<1>1. \A i \in 1 .. root : i \in 1 .. root - 1 \/ i = root
  OBVIOUS
<1>. QED
  BY <1>1 DEF Rooted, Root

\* More blocks seen.
LEMMA RootedWider ==
  ASSUME NEW B, NEW S, NEW T, S \subseteq T, NEW n, Rooted(B, S, n)
  PROVE  Rooted(B, T, n)
BY DEF Rooted, Into

\* mark_root finds nothing to mark.
LEMMA MarkSkipStep == ASSUME Sound, MarkInv, MarkSkip PROVE Sound' /\ MarkInv'
<1>1. PICK g, B, S, bs, fs : AtRoot(g, B, S, bs, fs)
  BY DEF MarkInv
<1>2. ctl = "gc" /\ phase = "mark" /\ root \in 1 .. Len(Roots) /\ Len(Roots) \in Nat
  BY <1>1, Bounds DEF MarkSkip, Marking, In, AtRoot
<1>3. /\ Sound' /\ Roots' = Roots /\ ctl' = "gc"
      /\ \A B1, S1, n : Rooted(B1, S1, n) /\ n \in Int /\ n <= Len(Roots) => Rooted(B1, S1, n)'
  <2>1. /\ UNCHANGED <<vmvars, phase, p, h, start, alloc_pos>> /\ root' = root + 1
    BY DEF MarkSkip
  <2>2. /\ Unmoved /\ UNCHANGED regs /\ mem' \in SizedHeap /\ h' \in Sizable /\ p' \in Int /\ start' \in Int /\ alloc_pos' \in Int
        /\ \A a \in 0 .. StaticWosize - 1 : mem'[a] = mem[a]
    BY <2>1 DEF vmvars, regs, Unmoved, Sound
  <2>3. root' \in 0 .. Len(Roots) + 1
    BY <1>2, <2>1
  <2>. QED
    BY <1>2, <2>2, <2>3, HeapStep
<1>4. Into(Root, S)
  <2>1. CASE ~ Is_block_in_dynamic_heap(Root)
    BY <2>1 DEF Into
  <2>2. CASE Is_block_in_dynamic_heap(Root)
    <3>1. Into(Root, B) /\ Root.at - 1 \in B
      BY <1>1, <1>2, <2>2, RootValue DEF AtRoot
    <3>2. HdAt(Root.at - 1) /\ Color_hd(mem[Root.at - 1]) # Color_white
      BY <2>2 DEF MarkSkip, Unmarked, Hd_val
    <3>3. Root.at - 1 \in S
      BY <1>1, <3>1, <3>2, MarkHeader DEF AtRoot
    <3>. QED
      BY <3>1, <3>3 DEF Into
  <2>. QED
    BY <2>1, <2>2
<1>5. PICK n : n = root /\ Rooted(B, S, n) /\ n \in Int /\ n <= Len(Roots)
  BY <1>1, <1>2, <1>4, NextRoot DEF AtRoot
<1>6. MarkState(mem, g, B, S, 0, bs, fs, 0)'
  <2>1. mem' = mem /\ heap_ptr' = heap_ptr
    BY DEF MarkSkip, vmvars
  <2>. QED
    BY <1>1, <2>1, MarkNext DEF AtRoot
<1>7. root' = root + 1 /\ phase' = phase /\ root' - 1 = n
  BY <1>2, <1>5 DEF MarkSkip
<1>8. Rooted(B, S, n)'
  BY <1>3, <1>5
<1>9. AtRoot(g, B, S, bs, fs)'
  <2>1. Rooted(B, S, root - 1)'
    BY <1>7, <1>8
  <2>. QED
    BY <1>2, <1>3, <1>6, <1>7, <2>1 DEF AtRoot
<1>. QED
  BY <1>2, <1>3, <1>7, <1>9 DEF MarkInv, In

\* A root that refers to a white block.
LEMMA WhiteRoot ==
  ASSUME Sound, NEW g, NEW B, NEW S, NEW bs, NEW fs, AtRoot(g, B, S, bs, fs), Marking, Unmarked
  PROVE  /\ root \in 1 .. Len(Roots) /\ Is_block_in_dynamic_heap(Root)
         /\ \E c \in B :
              /\ c = Root.at - 1 /\ c \notin S /\ InHeap(c) /\ c \in Int /\ c >= StaticWosize /\ HdAt(c)
              /\ mem[c] = g[c] /\ Hd_val(mem, Root) = g[c] /\ WhiteHeader(g[c])
              /\ Root.at + Wosize_hd(g[c]) - 1 = c + Wosize_hd(g[c])
              /\ \A T : S \subseteq T /\ c \in T => Rooted(B, T, root)
<1>1. root \in 1 .. Len(Roots) /\ Len(Roots) \in Nat /\ Is_block_in_dynamic_heap(Root)
  BY Bounds DEF AtRoot, Marking, Unmarked
<1>2. Into(Root, B) /\ Root.at \in Int /\ Root.at - 1 \in B
  BY <1>1, RootValue DEF AtRoot
<1>3. PICK c \in B : c = Root.at - 1
  BY <1>2
<1>4. /\ InHeap(c) /\ c \in Int /\ c >= StaticWosize
      /\ c \in S => Color_hd(mem[c]) = Color_black
      /\ c \notin S => mem[c] = g[c] /\ IsHd(mem[c])
  BY <1>3, MarkHeader DEF AtRoot
<1>5. c \notin S
  <2>1. ASSUME c \in S PROVE FALSE
    <3>1. HdAt(c) => Color_hd(mem[c]) = Color_white
      BY <1>3 DEF Unmarked, Hd_val
    <3>2. \E b \in S : b = c
      BY <2>1
    <3>3. MarkState(mem, g, B, S, 0, bs, fs, 0)
      BY DEF AtRoot
    <3>4. mem[c] = with_black(g[c])
      BY <2>1, <3>3, MarkIdle
    <3>5. WhiteHeader(g[c])
      BY <3>3, LayoutFacts DEF MarkState
    <3>6. IsHd(mem[c])
      BY <3>4, <3>5, HeaderColours
    <3>. QED
      BY <3>1, <3>6, <1>4, <2>1 DEF HdAt, Color_white, Color_black
  <2>. QED
    BY <2>1
<1>6. WhiteHeader(g[c]) /\ Wosize_hd(g[c]) \in Nat
  BY LayoutFacts DEF AtRoot, MarkState
<1>7. ASSUME NEW T, S \subseteq T, c \in T PROVE Rooted(B, T, root)
  <2>1. Rooted(B, T, root - 1)
    BY <1>7, RootedWider DEF AtRoot
  <2>2. Into(Root, T)
    BY <1>2, <1>3, <1>7 DEF Into
  <2>. QED
    BY <1>1, <2>1, <2>2, NextRoot
<1>8. Root.at + Wosize_hd(g[c]) - 1 = c + Wosize_hd(g[c])
  BY <1>2, <1>3, <1>6
<1>9. mem[c] = g[c] /\ Hd_val(mem, Root) = g[c] /\ HdAt(c)
  BY <1>3, <1>4, <1>5 DEF Hd_val, HdAt
<1>. QED
  BY <1>1, <1>3, <1>4, <1>5, <1>6, <1>7, <1>8, <1>9

\* mark_root blackens a block without fields to follow.
LEMMA MarkLeafStep == ASSUME Sound, MarkInv, MarkLeaf PROVE Sound' /\ MarkInv'
<1>1. PICK g, B, S, bs, fs : AtRoot(g, B, S, bs, fs)
  BY DEF MarkInv
<1>2. ctl = "gc" /\ phase = "mark" /\ Marking /\ Unmarked /\ Len(Roots) \in Nat
  BY Bounds DEF MarkLeaf, Marking, In
<1>3. /\ root \in 1 .. Len(Roots) /\ Is_block_in_dynamic_heap(Root)
      /\ \E c \in B :
           /\ c = Root.at - 1 /\ c \notin S /\ InHeap(c) /\ c \in Int /\ c >= StaticWosize /\ HdAt(c)
           /\ mem[c] = g[c] /\ Hd_val(mem, Root) = g[c] /\ WhiteHeader(g[c])
           /\ Root.at + Wosize_hd(g[c]) - 1 = c + Wosize_hd(g[c])
           /\ \A T : S \subseteq T /\ c \in T => Rooted(B, T, root)
  BY <1>1, <1>2, WhiteRoot
<1>4. PICK c \in B :
        /\ c = Root.at - 1 /\ c \notin S /\ InHeap(c) /\ c \in Int /\ c >= StaticWosize
        /\ mem[c] = g[c] /\ Hd_val(mem, Root) = g[c] /\ WhiteHeader(g[c])
        /\ Rooted(B, S \cup {c}, root)
  BY <1>3
<1>5. PICK m : m = [mem EXCEPT ![c] = with_black(@)]
  OBVIOUS
<1>6. /\ mem' = m /\ root' = root + 1 /\ UNCHANGED <<regs, phase, p, h, start, alloc_pos>> /\ Unmoved
      /\ Tag_hd(g[c]) >= No_scan_tag
  BY <1>4, <1>5 DEF MarkLeaf
<1>7. /\ m \in SizedHeap
      /\ \A a \in 0 .. HeapWosize - 1 : m[a] = IF a = c THEN with_black(g[c]) ELSE mem[a]
      /\ \A a \in 0 .. StaticWosize - 1 : m[a] = mem[a]
  <2>1. with_black(mem[c]) \in Sizable
    BY <1>4, HeaderColours
  <2>2. mem \in [0 .. HeapWosize - 1 -> Sizable] /\ StaticWosize \in Nat /\ HeapWosize \in Nat /\ StaticWosize < HeapWosize
    BY Bounds DEF SizedHeap
  <2>3. m \in SizedHeap
    BY <1>5, <2>1, <2>2 DEF SizedHeap
  <2>4. ASSUME NEW a \in 0 .. HeapWosize - 1 PROVE m[a] = IF a = c THEN with_black(g[c]) ELSE mem[a]
    BY <1>4, <1>5, <2>2
  <2>5. ASSUME NEW a \in 0 .. StaticWosize - 1 PROVE m[a] = mem[a]
    <3>1. a \in 0 .. HeapWosize - 1 /\ a # c
      BY <1>4, <2>2
    <3>. QED
      BY <3>1, <2>4
  <2>. QED
    BY <2>3, <2>4, <2>5
<1>8. MarkState(m, g, B, S \cup {c}, 0, bs, fs, 0)
  <2>1. MarkState(mem, g, B, S, 0, bs, fs, 0)
    BY <1>1 DEF AtRoot
  <2>. QED
    BY <1>4, <1>6, <1>7, <2>1, Blacken
<1>9. /\ Sound' /\ Roots' = Roots /\ ctl' = "gc"
      /\ \A B1, S1, n : Rooted(B1, S1, n) /\ n \in Int /\ n <= Len(Roots) => Rooted(B1, S1, n)'
  <2>1. /\ mem' \in SizedHeap /\ h' \in Sizable /\ p' \in Int /\ start' \in Int /\ alloc_pos' \in Int
        /\ UNCHANGED regs /\ Unmoved /\ \A a \in 0 .. StaticWosize - 1 : mem'[a] = mem[a]
    BY <1>6, <1>7 DEF Sound
  <2>2. root' \in 0 .. Len(Roots) + 1
    BY <1>2, <1>3, <1>6
  <2>. QED
    BY <1>2, <2>1, <2>2, HeapStep
<1>10. PICK n : n = root
  OBVIOUS
<1>11. Rooted(B, S \cup {c}, n)'
  BY <1>2, <1>3, <1>4, <1>9, <1>10
<1>12. MarkState(mem, g, B, S \cup {c}, 0, bs, fs, 0)'
  BY <1>6, <1>8, MarkNext DEF Unmoved
<1>13. AtRoot(g, B, S \cup {c}, bs, fs)'
  <2>1. root' - 1 = n /\ root' \in 1 .. Len(Roots) + 1
    BY <1>2, <1>3, <1>6, <1>10
  <2>2. Rooted(B, S \cup {c}, root - 1)'
    BY <1>11, <2>1
  <2>. QED
    BY <1>9, <1>12, <2>1, <2>2 DEF AtRoot
<1>. QED
  BY <1>2, <1>6, <1>9, <1>13 DEF MarkInv, In

\* Writing a word of the dynamic heap.
Wrote(m, m2, c, w) == m2 = [m EXCEPT ![c] = w]
WordSet(m, m2, c, w) ==
  /\ \A a \in 0 .. HeapWosize - 1 : m2[a] = IF a = c THEN w ELSE m[a]
  /\ \A a \in 0 .. StaticWosize - 1 : m2[a] = m[a]

\* A word of the dynamic heap is written.
LEMMA WriteWord ==
  ASSUME Sound, NEW m, m \in SizedHeap, NEW c, InHeap(c), c \in Int, c >= StaticWosize, NEW w, w \in Sizable,
         NEW m2, Wrote(m, m2, c, w)
  PROVE  m2 \in SizedHeap /\ WordSet(m, m2, c, w)
<1>. USE DEF Wrote, WordSet
<1>1. m \in [0 .. HeapWosize - 1 -> Sizable] /\ StaticWosize \in Nat /\ HeapWosize \in Nat /\ StaticWosize < HeapWosize
  BY Bounds DEF SizedHeap
<1>2. m2 \in SizedHeap
  BY <1>1 DEF SizedHeap
<1>3. ASSUME NEW a \in 0 .. HeapWosize - 1 PROVE m2[a] = IF a = c THEN w ELSE m[a]
  BY <1>1
<1>4. ASSUME NEW a \in 0 .. StaticWosize - 1 PROVE m2[a] = m[a]
  <2>1. a \in 0 .. HeapWosize - 1 /\ a # c
    BY <1>1
  <2>. QED
    BY <2>1, <1>3
<1>. QED
  BY <1>2, <1>3, <1>4

\* A step that leaves mark_block in its loop.
LEMMA BlockNext ==
  ASSUME Sound, ctl = "gc", UNCHANGED <<regs, root, start, alloc_pos>>, Unmoved, phase' = "block",
         NEW g, NEW B, NEW S, NEW k, NEW bs, NEW fs, NEW q, NEW m, MarkState(m, g, B, S, k, bs, fs, q), k > 0,
         mem' = m, p' = q, h' = g[bs[1]], q \in bs[k] .. bs[k] + Wosize_hd(g[bs[k]]),
         \A a \in 0 .. StaticWosize - 1 : m[a] = mem[a],
         root \in 1 .. Len(Roots), Rooted(B, S, root), Is_block_in_dynamic_heap(Root), Root.at - 1 = bs[1]
  PROVE  Sound' /\ BlockInv'
<1>1. m \in SizedHeap /\ q \in Int /\ k \in Nat
  BY DEF MarkState, Marks, Way
<1>2. h' \in Sizable
  <2>1. bs[1] \in B
    <3>1. 1 \in 1 .. k
      BY <1>1
    <3>. QED
      BY <3>1 DEF MarkState, Way
  <2>. QED
    BY <2>1, LayoutFacts DEF MarkState, WhiteHeader
<1>3. root \in Int /\ Len(Roots) \in Nat /\ root \in 0 .. Len(Roots) + 1
  BY Bounds
<1>4. /\ Sound' /\ Roots' = Roots /\ ctl' = "gc"
      /\ \A B1, S1, n : Rooted(B1, S1, n) /\ n \in Int /\ n <= Len(Roots) => Rooted(B1, S1, n)'
      /\ \A i \in 1 .. Len(Roots) : At(Roots[i])' = At(Roots[i])
  <2>1. /\ mem' \in SizedHeap /\ p' \in Int /\ start' \in Int /\ alloc_pos' \in Int /\ UNCHANGED regs
        /\ \A a \in 0 .. StaticWosize - 1 : mem'[a] = mem[a]
    BY <1>1 DEF Sound
  <2>2. root' \in 0 .. Len(Roots) + 1
    BY <1>3
  <2>. QED
    BY <1>2, <2>1, <2>2, HeapStep
<1>5. PICK n : n = root
  OBVIOUS
<1>6. Rooted(B, S, root)'
  <2>1. Rooted(B, S, n)'
    BY <1>3, <1>4, <1>5
  <2>. QED
    BY <1>5, <2>1
<1>7. Root' = Root
  <2>1. At(Roots[n])' = At(Roots[n])
    BY <1>4, <1>5
  <2>2. root' = n
    BY <1>5
  <2>. QED
    BY <1>5, <2>1, <2>2 DEF Root
<1>8. MarkState(mem, g, B, S, k, bs, fs, q)'
  BY MarkNext DEF Unmoved
<1>9. root' \in 1 .. Len(Roots') /\ p' \in bs[k] .. bs[k] + Wosize_hd(g[bs[k]])
  BY <1>4
<1>10. AtBlock(g, B, S, k, bs, fs)'
  BY <1>6, <1>7, <1>8, <1>9 DEF AtBlock, Is_block_in_dynamic_heap
<1>. QED
  BY <1>4, <1>10 DEF BlockInv, In

\* mark_root enters a block.
LEMMA MarkRootStep == ASSUME Sound, MarkInv, MarkRoot PROVE Sound' /\ BlockInv'
<1>1. PICK g, B, S, bs, fs : AtRoot(g, B, S, bs, fs)
  BY DEF MarkInv
<1>2. ctl = "gc" /\ phase = "mark" /\ Marking /\ Unmarked /\ Len(Roots) \in Nat
  BY Bounds DEF MarkRoot, Marking, In
<1>3. /\ root \in 1 .. Len(Roots) /\ Is_block_in_dynamic_heap(Root)
      /\ \E c \in B :
           /\ c = Root.at - 1 /\ c \notin S /\ InHeap(c) /\ c \in Int /\ c >= StaticWosize /\ HdAt(c)
           /\ mem[c] = g[c] /\ Hd_val(mem, Root) = g[c] /\ WhiteHeader(g[c])
           /\ Root.at + Wosize_hd(g[c]) - 1 = c + Wosize_hd(g[c])
           /\ \A T : S \subseteq T /\ c \in T => Rooted(B, T, root)
  BY <1>1, <1>2, WhiteRoot
<1>4. PICK c \in B :
        /\ c = Root.at - 1 /\ c \notin S /\ InHeap(c) /\ c \in Int /\ c >= StaticWosize
        /\ mem[c] = g[c] /\ Hd_val(mem, Root) = g[c] /\ WhiteHeader(g[c])
        /\ Root.at + Wosize_hd(g[c]) - 1 = c + Wosize_hd(g[c])
        /\ Rooted(B, S \cup {c}, root)
  BY <1>3
<1>5. PICK m : m = [mem EXCEPT ![c] = Back(0)]
  OBVIOUS
<1>6. PICK q : q = c + Wosize_hd(g[c])
  OBVIOUS
<1>7. /\ mem' = m /\ h' = g[c] /\ p' = q /\ phase' = "block" /\ UNCHANGED <<regs, root, start, alloc_pos>> /\ Unmoved
      /\ Tag_hd(g[c]) < No_scan_tag
  BY <1>4, <1>5, <1>6 DEF MarkRoot, UNIQUE_MARK
<1>8. /\ m \in SizedHeap
      /\ \A a \in 0 .. HeapWosize - 1 : m[a] = IF a = c THEN Back(0) ELSE mem[a]
      /\ \A a \in 0 .. StaticWosize - 1 : m[a] = mem[a]
  <2>1. Back(0) \in Sizable
    BY LinkColours
  <2>2. mem \in SizedHeap /\ Wrote(mem, m, c, Back(0))
    BY <1>5, Bounds DEF Wrote
  <2>3. m \in SizedHeap /\ WordSet(mem, m, c, Back(0))
    BY <1>4, <2>1, <2>2, WriteWord
  <2>. QED
    BY <2>3 DEF WordSet
<1>9. q \in Int /\ Wosize_hd(g[c]) \in Nat
  BY <1>4, <1>6, HeaderColours
<1>10. \E bs2, fs2 : MarkState(m, g, B, S \cup {c}, 1, bs2, fs2, q) /\ bs2[1] = c
  <2>1. MarkState(mem, g, B, S, 0, bs, fs, 0)
    BY <1>1 DEF AtRoot
  <2>2. EnterWrites(mem, m, g, 0, c, 0) /\ EnteredBy(g, 0, bs, 0, c, 0)
    BY <1>8 DEF EnterWrites, EnteredBy
  <2>3. /\ 0 \in Int /\ c \in B /\ c \notin S /\ Tag_hd(g[c]) < No_scan_tag /\ m \in SizedHeap
        /\ q \in Int /\ q = c + Wosize_hd(g[c])
    BY <1>4, <1>6, <1>7, <1>8, <1>9
  <2>4. Entered(m, g, B, S, 0, bs, c, q)
    BY <2>1, <2>2, <2>3, Enter
  <2>. QED
    BY <2>4 DEF Entered
<1>11. PICK bs2, fs2 : MarkState(m, g, B, S \cup {c}, 1, bs2, fs2, q) /\ bs2[1] = c
  BY <1>10
<1>12. q \in bs2[1] .. bs2[1] + Wosize_hd(g[bs2[1]]) /\ h' = g[bs2[1]] /\ Root.at - 1 = bs2[1]
  BY <1>4, <1>6, <1>7, <1>9, <1>11
<1>. QED
  BY <1>2, <1>3, <1>4, <1>7, <1>8, <1>11, <1>12, BlockNext

\* A word nothing has written yet.
LEMMA UndefSizable == Undef \in Sizable
BY ImmediateWord DEF Undef, Sizable, IsHd

\* A step that goes on to the next root.
LEMMA RootNext ==
  ASSUME Sound, ctl = "gc", UNCHANGED <<regs, start, alloc_pos>>, Unmoved, phase' = "mark", root' = root + 1,
         NEW g, NEW B, NEW S, NEW bs, NEW fs, NEW m, MarkState(m, g, B, S, 0, bs, fs, 0),
         mem' = m, m \in SizedHeap, h' \in Sizable, p' \in Int,
         \A a \in 0 .. StaticWosize - 1 : m[a] = mem[a],
         root \in 1 .. Len(Roots), Rooted(B, S, root)
  PROVE  Sound' /\ MarkInv'
<1>1. root \in Int /\ Len(Roots) \in Nat /\ root' \in 0 .. Len(Roots) + 1 /\ root' \in 1 .. Len(Roots) + 1
  BY Bounds
<1>2. /\ Sound' /\ Roots' = Roots /\ ctl' = "gc"
      /\ \A B1, S1, n : Rooted(B1, S1, n) /\ n \in Int /\ n <= Len(Roots) => Rooted(B1, S1, n)'
  <2>1. /\ mem' \in SizedHeap /\ start' \in Int /\ alloc_pos' \in Int /\ UNCHANGED regs
        /\ \A a \in 0 .. StaticWosize - 1 : mem'[a] = mem[a]
    BY DEF Sound
  <2>. QED
    BY <1>1, <2>1, HeapStep
<1>3. PICK n : n = root
  OBVIOUS
<1>4. root' - 1 = n
  BY <1>1, <1>3
<1>5. Rooted(B, S, root - 1)'
  <2>1. Rooted(B, S, n)'
    BY <1>1, <1>2, <1>3
  <2>. QED
    BY <1>4, <2>1
<1>6. MarkState(mem, g, B, S, 0, bs, fs, 0)'
  BY MarkNext DEF Unmoved
<1>7. AtRoot(g, B, S, bs, fs)'
  BY <1>1, <1>2, <1>5, <1>6 DEF AtRoot
<1>. QED
  BY <1>2, <1>7 DEF MarkInv, In

\* Where the loop of mark_block is: at a field of the last block of its way, or at the
\* place of its header.
LEMMA BlockPlace ==
  ASSUME Sound, NEW g, NEW B, NEW S, NEW k, NEW bs, NEW fs, AtBlock(g, B, S, k, bs, fs)
  PROVE  /\ k \in Nat /\ k \in 1 .. k /\ 1 \in 1 .. k /\ bs[k] \in S /\ bs[k] \in B /\ bs[1] \in B
         /\ bs[k] \in Int /\ bs[k] >= StaticWosize /\ InHeap(bs[k]) /\ WhiteHeader(g[bs[k]])
         /\ InHeap(p) /\ p \in Int /\ p >= StaticWosize
         /\ p = bs[k] => /\ mem[p] = Back(fs[k]) /\ fs[k] \in Int
                         /\ IF k = 1 THEN fs[k] = 0
                            ELSE fs[k] # 0 /\ fs[k] > StaticWosize /\ InHeap(fs[k]) /\ fs[k] \in FieldsOf(g, bs[k - 1])
         /\ p # bs[k] => /\ p \in FieldsOf(g, bs[k]) /\ mem[p] = g[p] /\ g[p] \in Word
                         /\ Into(g[p], B) /\ ~ Is_unaligned_block(g[p])
<1>1. MarkState(mem, g, B, S, k, bs, fs, p) /\ k > 0 /\ k \in Nat /\ p \in bs[k] .. bs[k] + Wosize_hd(g[bs[k]])
  BY DEF AtBlock, MarkState, Way
<1>2. k \in 1 .. k /\ 1 \in 1 .. k
  BY <1>1
<1>3. Way(g, S, k, bs, fs) /\ Marks(mem, g, S, k, bs, fs) /\ S \subseteq B /\ Layout(g, B)
  BY <1>1 DEF MarkState
<1>4. bs[k] \in S /\ bs[k] \in B /\ bs[1] \in B /\ Tag_hd(g[bs[k]]) < No_scan_tag /\ fs[k] \in Int /\ fs[1] = 0
  BY <1>1, <1>2, <1>3 DEF Way
<1>5. /\ bs[k] \in 0 .. HeapWosize - 1 /\ bs[k] \in StaticWosize .. heap_ptr - 1 /\ bs[k] \in Int /\ WhiteHeader(g[bs[k]])
      /\ Wosize_hd(g[bs[k]]) \in Nat /\ bs[k] + Wosize_hd(g[bs[k]]) < heap_ptr
      /\ FieldsOf(g, bs[k]) \subseteq 1 .. HeapWosize - 1
  BY <1>3, <1>4, LayoutFacts
<1>6. StaticWosize \in Nat /\ heap_ptr \in Nat /\ heap_ptr <= HeapWosize /\ HeapWosize \in Nat
  BY Bounds
<1>7. InHeap(bs[k]) /\ bs[k] >= StaticWosize /\ InHeap(p) /\ p \in Int /\ p >= StaticWosize
  <2>1. PICK z : z = Wosize_hd(g[bs[k]])
    OBVIOUS
  <2>. QED
    BY <1>1, <1>5, <1>6, <2>1 DEF InHeap
<1>8. ASSUME p = bs[k]
      PROVE  /\ mem[p] = Back(fs[k])
             /\ IF k = 1 THEN fs[k] = 0
                ELSE fs[k] # 0 /\ fs[k] > StaticWosize /\ InHeap(fs[k]) /\ fs[k] \in FieldsOf(g, bs[k - 1])
  <2>1. mem[p] = Back(fs[k])
    BY <1>2, <1>3, <1>8 DEF Marks
  <2>2. ASSUME k # 1 PROVE fs[k] # 0 /\ fs[k] > StaticWosize /\ InHeap(fs[k]) /\ fs[k] \in FieldsOf(g, bs[k - 1])
    <3>1. k \in 2 .. k /\ k - 1 \in 1 .. k
      BY <1>1, <2>2
    <3>2. fs[k] \in FieldsOf(g, bs[k - 1]) /\ bs[k - 1] \in B
      BY <3>1, <1>3 DEF Way
    <3>3. FieldsOf(g, bs[k - 1]) \subseteq StaticWosize + 1 .. heap_ptr - 1
      BY <3>2, <1>3, LayoutFacts
    <3>. QED
      BY <3>2, <3>3, <1>6 DEF InHeap
  <2>. QED
    BY <2>1, <2>2, <1>4
<1>9. ASSUME p # bs[k]
      PROVE  /\ p \in FieldsOf(g, bs[k]) /\ mem[p] = g[p] /\ g[p] \in Word
             /\ Into(g[p], B) /\ ~ Is_unaligned_block(g[p])
  <2>1. p \in FieldsOf(g, bs[k])
    BY <1>1, <1>5, <1>9 DEF FieldsOf
  <2>2. mem[p] = g[p]
    BY <1>1, <2>1, MarkWords
  <2>3. Into(g[p], B) /\ ~ Is_unaligned_block(g[p])
    BY <1>3, <1>4, <1>5, <2>1, FieldInto DEF Layout
  <2>4. g[p] \in Word
    BY <1>3, <1>7 DEF Layout, SizedHeap, Sizable, InHeap
  <2>. QED
    BY <2>1, <2>2, <2>3, <2>4
<1>. QED
  BY <1>1, <1>2, <1>4, <1>5, <1>7, <1>8, <1>9

\* A way back is not a field, and leads where it came from.
LEMMA BackMark ==
  /\ \A a \in Int : Is_unaligned_block(Back(a)) /\ (Back(a) = UNIQUE_MARK => a = 0)
  /\ Is_unaligned_block(UNIQUE_MARK)
<1>1. ASSUME NEW a \in Int PROVE Is_unaligned_block(Back(a)) /\ Back(a).at = a
  BY LinkColours DEF Is_unaligned_block
<1>2. 0 \in Int
  OBVIOUS
<1>. QED
  BY <1>1, <1>2 DEF UNIQUE_MARK

\* mark_root leaves the block it entered.
LEMMA MarkedRootStep == ASSUME Sound, BlockInv, MarkedRoot PROVE Sound' /\ MarkInv'
<1>1. PICK g, B, S, k, bs, fs : AtBlock(g, B, S, k, bs, fs)
  BY DEF BlockInv
<1>2. /\ ctl = "gc" /\ mem[p] = UNIQUE_MARK
      /\ phase' = "mark" /\ root' = root + 1 /\ h' = Undef /\ p' = 0
      /\ UNCHANGED <<regs, start, alloc_pos>> /\ Unmoved
  BY DEF MarkedRoot, In
<1>3. p = bs[k] /\ k = 1
  <2>1. ASSUME p # bs[k] PROVE FALSE
    <3>1. ~ Is_unaligned_block(mem[p])
      BY <1>1, <2>1, BlockPlace
    <3>. QED
      BY <3>1, <1>2, BackMark
  <2>2. fs[k] \in Int /\ mem[p] = Back(fs[k]) /\ (k # 1 => fs[k] # 0)
    BY <1>1, <2>1, BlockPlace
  <2>. QED
    BY <2>1, <2>2, <1>2, BackMark
<1>4. /\ bs[1] \in B /\ InHeap(bs[1]) /\ bs[1] \in Int /\ bs[1] >= StaticWosize /\ WhiteHeader(g[bs[1]])
  BY <1>1, <1>3, BlockPlace
<1>5. /\ root \in 1 .. Len(Roots) /\ Rooted(B, S, root) /\ Root.at - 1 = bs[1] /\ h = g[bs[1]]
      /\ MarkState(mem, g, B, S, 1, bs, fs, bs[1])
  BY <1>1, <1>3 DEF AtBlock
<1>6. PICK m : m = [mem EXCEPT ![bs[1]] = with_black(g[bs[1]])]
  OBVIOUS
<1>7. mem' = m
  BY <1>5, <1>6 DEF MarkedRoot
<1>8. m \in SizedHeap /\ WordSet(mem, m, bs[1], with_black(g[bs[1]]))
  <2>1. with_black(g[bs[1]]) \in Sizable
    BY <1>4, HeaderColours
  <2>2. mem \in SizedHeap /\ Wrote(mem, m, bs[1], with_black(g[bs[1]]))
    BY <1>6, Bounds DEF Wrote
  <2>. QED
    BY <1>4, <2>1, <2>2, WriteWord
<1>9. LeaveWrites(mem, m, g, 1, bs, fs)
  BY <1>8 DEF LeaveWrites, WordSet
<1>10. MarkState(m, g, B, S, 0, bs, fs, 0)
  <2>1. 1 > 0 /\ 1 - 1 = 0 /\ 0 \in Int /\ ~ (1 > 1)
    OBVIOUS
  <2>2. MarkState(m, g, B, S, 1 - 1, bs, fs, 0)
    BY <1>5, <1>8, <1>9, <2>1, Leave
  <2>. QED
    BY <2>1, <2>2
<1>11. \A a \in 0 .. StaticWosize - 1 : m[a] = mem[a]
  BY <1>8 DEF WordSet
<1>12. h' \in Sizable /\ p' \in Int
  BY <1>2, UndefSizable
<1>. QED
  BY <1>2, <1>5, <1>7, <1>8, <1>10, <1>11, <1>12, RootNext

\* Writing two words of the dynamic heap.
WroteTwo(m, m2, c, w, d, v) == m2 = [m EXCEPT ![c] = w, ![d] = v]
WordsSet(m, m2, c, w, d, v) ==
  /\ \A a \in 0 .. HeapWosize - 1 : m2[a] = IF a = d THEN v ELSE IF a = c THEN w ELSE m[a]
  /\ \A a \in 0 .. StaticWosize - 1 : m2[a] = m[a]

\* Two words of the dynamic heap are written, one after the other.
LEMMA WriteTwo ==
  ASSUME Sound, NEW m, m \in SizedHeap, NEW c, InHeap(c), c \in Int, c >= StaticWosize, NEW w, w \in Sizable,
         NEW d, InHeap(d), d \in Int, d >= StaticWosize, NEW v, v \in Sizable,
         NEW m2, WroteTwo(m, m2, c, w, d, v)
  PROVE  m2 \in SizedHeap /\ WordsSet(m, m2, c, w, d, v)
<1>1. PICK m1 : m1 = [m EXCEPT ![c] = w]
  OBVIOUS
<1>2. m2 = [m1 EXCEPT ![d] = v]
  BY <1>1 DEF WroteTwo
<1>3. m1 \in SizedHeap /\ WordSet(m, m1, c, w)
  BY <1>1, WriteWord DEF Wrote
<1>4. m2 \in SizedHeap /\ WordSet(m1, m2, d, v)
  BY <1>2, <1>3, WriteWord DEF Wrote
<1>. QED
  BY <1>3, <1>4 DEF WordSet, WordsSet

\* mark_block goes back to the block it came from.
LEMMA LeaveBlockStep == ASSUME Sound, BlockInv, LeaveBlock PROVE Sound' /\ BlockInv'
<1>1. PICK g, B, S, k, bs, fs : AtBlock(g, B, S, k, bs, fs)
  BY DEF BlockInv
<1>2. ctl = "gc" /\ phase = "block" /\ mem[p] # UNIQUE_MARK /\ Is_unaligned_block(mem[p])
  BY DEF LeaveBlock, InBlock, In, Word_p
<1>3. p = bs[k]
  <2>1. ASSUME p # bs[k] PROVE FALSE
    BY <1>1, <1>2, <2>1, BlockPlace
  <2>. QED
    BY <2>1
<1>4. /\ mem[p] = Back(fs[k]) /\ fs[k] \in Int /\ k # 1 /\ k \in Nat
      /\ fs[k] > StaticWosize /\ InHeap(fs[k]) /\ fs[k] \in FieldsOf(g, bs[k - 1])
      /\ InHeap(p) /\ p \in Int /\ p >= StaticWosize /\ WhiteHeader(g[bs[k]]) /\ 1 \in 1 .. k /\ k \in 1 .. k
  <2>1. /\ mem[p] = Back(fs[k]) /\ fs[k] \in Int /\ k \in Nat
        /\ IF k = 1 THEN fs[k] = 0
           ELSE fs[k] # 0 /\ fs[k] > StaticWosize /\ InHeap(fs[k]) /\ fs[k] \in FieldsOf(g, bs[k - 1])
        /\ InHeap(p) /\ p \in Int /\ p >= StaticWosize /\ WhiteHeader(g[bs[k]]) /\ 1 \in 1 .. k /\ k \in 1 .. k
    BY <1>1, <1>3, BlockPlace
  <2>2. k # 1
    BY <2>1, <1>2 DEF UNIQUE_MARK
  <2>. QED
    BY <2>1, <2>2
<1>5. /\ MarkState(mem, g, B, S, k, bs, fs, bs[k]) /\ root \in 1 .. Len(Roots) /\ Rooted(B, S, root)
      /\ Is_block_in_dynamic_heap(Root) /\ Root.at - 1 = bs[1] /\ h = g[bs[1]]
  BY <1>1, <1>3 DEF AtBlock
<1>6. k > 1 /\ k > 0 /\ k \in 2 .. k /\ k - 1 > 0 /\ k - 1 \in Nat /\ k - 1 \in 1 .. k
  BY <1>4
<1>7. mem[fs[k]] = with_black(g[bs[k]])
  BY <1>5, <1>6 DEF MarkState, Marks
<1>8. p # fs[k]
  BY <1>3, <1>4, <1>5, <1>6, MarkWords
<1>9. Color_hd(mem[fs[k]]) # Color_red /\ mem[p].at = fs[k]
  <2>1. with_black(g[bs[k]]).low = Color_black
    BY <1>4, HeaderColours
  <2>2. Back(fs[k]).at = fs[k]
    BY <1>4, LinkColours
  <2>. QED
    BY <1>4, <1>7, <2>1, <2>2 DEF Color_hd, Color_black, Color_red
<1>10. PICK m : WroteTwo(mem, m, p, with_black(g[bs[k]]), fs[k], Val_dynamic_block(p + 1))
  BY DEF WroteTwo
<1>11. /\ mem' = m /\ p' = fs[k] - 1
       /\ UNCHANGED <<regs, phase, root, h, start, alloc_pos>> /\ Unmoved
  BY <1>7, <1>9, <1>10 DEF LeaveBlock, Word_p, Goto, WroteTwo
<1>12. m \in SizedHeap /\ WordsSet(mem, m, p, with_black(g[bs[k]]), fs[k], Val_dynamic_block(p + 1))
  <2>1. with_black(g[bs[k]]) \in Sizable /\ Val_dynamic_block(p + 1) \in Sizable
    BY <1>4, HeaderColours, LinkColours
  <2>2. mem \in SizedHeap /\ fs[k] >= StaticWosize
    BY <1>4, Bounds
  <2>. QED
    BY <1>4, <1>10, <2>1, <2>2, WriteTwo
<1>13. LeaveWrites(mem, m, g, k, bs, fs)
  BY <1>3, <1>6, <1>8, <1>12 DEF LeaveWrites, WordsSet
<1>14. PICK q \in Int : q = fs[k] - 1
  BY <1>4
<1>15. MarkState(m, g, B, S, k - 1, bs, fs, q)
  BY <1>5, <1>6, <1>12, <1>13, <1>14, Leave
<1>16. q \in bs[k - 1] .. bs[k - 1] + Wosize_hd(g[bs[k - 1]])
  <2>1. bs[k - 1] \in B
    BY <1>5, <1>6 DEF MarkState, Way
  <2>2. bs[k - 1] \in Int /\ Wosize_hd(g[bs[k - 1]]) \in Nat
    BY <1>5, <2>1, LayoutFacts DEF MarkState
  <2>. QED
    BY <1>4, <1>14, <2>2 DEF FieldsOf
<1>17. \A a \in 0 .. StaticWosize - 1 : m[a] = mem[a]
  BY <1>12 DEF WordsSet
<1>. QED
  BY <1>2, <1>5, <1>6, <1>11, <1>14, <1>15, <1>16, <1>17, BlockNext

\* The field at p points to the block at c.
PointsTo(g, B, S, bs, k, c) ==
  /\ c \in B /\ c = mem[p].at - 1 /\ c \in Int /\ c >= StaticWosize /\ InHeap(c) /\ c # p
  /\ mem[p] = g[p] /\ g[p] = Val_dynamic_block(c + 1) /\ mem[p].at = c + 1 /\ FieldHd = mem[c]
  /\ p # bs[k] /\ p \in FieldsOf(g, bs[k]) /\ WhiteHeader(g[c])
  /\ IF c \in S THEN Color_hd(mem[c]) = Color_black
     ELSE mem[c] = g[c] /\ IsHd(mem[c]) /\ Color_hd(mem[c]) = Color_white

\* mark_block is at a field that holds a reference: to a block of the heap, marked or not.
LEMMA PointerHere ==
  ASSUME Sound, NEW g, NEW B, NEW S, NEW k, NEW bs, NEW fs, AtBlock(g, B, S, k, bs, fs), IsPointer
  PROVE  ~ IsInfix /\ \E c : PointsTo(g, B, S, bs, k, c)
<1>1. Is_block_in_dynamic_heap(mem[p]) /\ ~ Is_unaligned_block(mem[p])
  BY DEF IsPointer, IsField, Word_p
<1>2. p # bs[k]
  <2>1. ASSUME p = bs[k] PROVE FALSE
    <3>1. mem[p] = Back(fs[k]) /\ fs[k] \in Int
      BY <2>1, BlockPlace
    <3>. QED
      BY <3>1, <1>1, BackMark
  <2>. QED
    BY <2>1
<1>3. /\ p \in FieldsOf(g, bs[k]) /\ mem[p] = g[p] /\ g[p] \in Word /\ Into(g[p], B) /\ bs[k] \in B
  BY <1>2, BlockPlace
<1>4. g[p].at \in Int /\ g[p].at - 1 \in B /\ g[p] = Val_dynamic_block(g[p].at)
  BY <1>1, <1>3, PointerOf DEF Into
<1>5. PICK c \in B : c = g[p].at - 1
  BY <1>4
<1>6. c \in Int /\ g[p].at = c + 1
  BY <1>4, <1>5
<1>7. MarkState(mem, g, B, S, k, bs, fs, p)
  BY DEF AtBlock
<1>8. /\ InHeap(c) /\ c >= StaticWosize
      /\ c \in S => Color_hd(mem[c]) = Color_black /\ (IsHd(mem[c]) => Tag_hd(mem[c]) # Infix_tag)
      /\ c \notin S => /\ mem[c] = g[c] /\ IsHd(mem[c]) /\ Color_hd(mem[c]) = Color_white
                       /\ Tag_hd(mem[c]) # Infix_tag
  BY <1>7, MarkHeader
<1>9. c # p /\ WhiteHeader(g[c])
  BY <1>3, <1>7, LayoutFacts DEF MarkState
<1>10. FieldHd = mem[c]
  BY <1>3, <1>5 DEF FieldHd, Hd_val, Word_p
<1>11. ~ IsInfix
  BY <1>8, <1>10 DEF IsInfix
<1>. QED
  BY <1>2, <1>3, <1>4, <1>5, <1>6, <1>8, <1>9, <1>10, <1>11 DEF PointsTo

\* mark_block has nothing to do for the field at p.
LEMMA PrevFieldStep == ASSUME Sound, BlockInv, PrevField PROVE Sound' /\ BlockInv'
<1>1. PICK g, B, S, k, bs, fs : AtBlock(g, B, S, k, bs, fs)
  BY DEF BlockInv
<1>2. /\ ctl = "gc" /\ phase = "block" /\ IsField /\ ~ Is_unaligned_block(mem[p])
      /\ mem' = mem /\ p' = p - 1 /\ UNCHANGED <<regs, phase, root, h, start, alloc_pos>> /\ Unmoved
  BY DEF PrevField, IsPointer, IsField, InBlock, In, Word_p, Goto
<1>3. /\ MarkState(mem, g, B, S, k, bs, fs, p) /\ root \in 1 .. Len(Roots) /\ Rooted(B, S, root)
      /\ Is_block_in_dynamic_heap(Root) /\ Root.at - 1 = bs[1] /\ h = g[bs[1]] /\ k > 0
      /\ p \in bs[k] .. bs[k] + Wosize_hd(g[bs[k]])
  BY <1>1 DEF AtBlock
<1>4. p # bs[k]
  <2>1. ASSUME p = bs[k] PROVE FALSE
    <3>1. mem[p] = Back(fs[k]) /\ fs[k] \in Int
      BY <1>1, <2>1, BlockPlace
    <3>. QED
      BY <3>1, <1>2, BackMark
  <2>. QED
    BY <2>1
<1>5. mem[p] = g[p] /\ p \in Int /\ bs[k] \in Int /\ p >= StaticWosize
  BY <1>1, <1>4, BlockPlace
<1>6. Into(g[p], S)
  <2>1. CASE ~ IsPointer
    BY <2>1, <1>2, <1>5 DEF IsPointer, Word_p, Into
  <2>2. CASE IsPointer
    <3>1. PICK c : PointsTo(g, B, S, bs, k, c) /\ ~ IsInfix
      BY <1>1, <2>2, PointerHere
    <3>2. Color_hd(mem[c]) # Color_white
      BY <2>2, <3>1 DEF PrevField, PointsTo
    <3>3. c \in S /\ g[p] = Val_dynamic_block(c + 1) /\ c \in Int
      BY <3>1, <3>2 DEF PointsTo
    <3>. QED
      BY <3>3, LinkColours DEF Into
  <2>. QED
    BY <2>1, <2>2
<1>7. PICK q, m : q = p - 1 /\ m = mem
  OBVIOUS
<1>8. MarkState(m, g, B, S, k, bs, fs, q)
  BY <1>3, <1>6, <1>7, PreviousField
<1>9. q \in bs[k] .. bs[k] + Wosize_hd(g[bs[k]])
  <2>1. PICK z \in Nat : z = Wosize_hd(g[bs[k]])
    BY <1>1, BlockPlace, HeaderColours
  <2>. QED
    BY <1>3, <1>4, <1>5, <1>7, <2>1
<1>. QED
  BY <1>2, <1>3, <1>7, <1>8, <1>9, BlockNext

\* mark_block enters the block its field refers to.
LEMMA EnterBlockStep == ASSUME Sound, BlockInv, EnterBlock PROVE Sound' /\ BlockInv'
<1>1. PICK g, B, S, k, bs, fs : AtBlock(g, B, S, k, bs, fs)
  BY DEF BlockInv
<1>2. IsPointer /\ ctl = "gc" /\ phase = "block"
  BY DEF EnterBlock, IsPointer, IsField, InBlock, In
<1>3. PICK c : PointsTo(g, B, S, bs, k, c)
  BY <1>1, <1>2, PointerHere
<1>4. c \notin S /\ mem[c] = g[c]
  BY <1>3 DEF EnterBlock, PointsTo, Color_white, Color_black
<1>5. /\ c \in B /\ c \in Int /\ c >= StaticWosize /\ InHeap(c) /\ c # p /\ mem[p].at = c + 1 /\ FieldHd = g[c]
      /\ mem[p].at - 1 = c /\ WhiteHeader(g[c]) /\ p # bs[k] /\ p \in FieldsOf(g, bs[k]) /\ g[p] = Val_dynamic_block(c + 1)
  BY <1>3, <1>4 DEF PointsTo
<1>6. /\ MarkState(mem, g, B, S, k, bs, fs, p) /\ root \in 1 .. Len(Roots) /\ Rooted(B, S, root)
      /\ Is_block_in_dynamic_heap(Root) /\ Root.at - 1 = bs[1] /\ h = g[bs[1]] /\ k > 0
  BY <1>1 DEF AtBlock
<1>7. k \in Nat /\ k \in 1 .. k /\ p \in Int /\ p >= StaticWosize /\ InHeap(p)
  BY <1>1, BlockPlace
<1>8. PICK m : WroteTwo(mem, m, p, with_black(g[c]), c, Back(p))
  BY DEF WroteTwo
<1>9. PICK q \in Int : q = c + Wosize_hd(g[c])
  BY <1>5, HeaderColours
<1>10. /\ mem' = m /\ UNCHANGED <<regs, phase, root, h, start, alloc_pos>> /\ Unmoved /\ Tag_hd(g[c]) < No_scan_tag
       /\ p' = c + 1 + Wosize_hd(g[c]) - 1
  BY <1>5, <1>8 DEF EnterBlock, Goto, Word_p, WroteTwo
<1>11. p' = q
  <2>1. Wosize_hd(g[c]) \in Nat
    BY <1>5, HeaderColours
  <2>. QED
    BY <1>5, <1>9, <1>10, <2>1
<1>12. m \in SizedHeap /\ WordsSet(mem, m, p, with_black(g[c]), c, Back(p))
  <2>1. with_black(g[c]) \in Sizable /\ Back(p) \in Sizable
    BY <1>5, <1>7, HeaderColours, LinkColours
  <2>2. mem \in SizedHeap
    BY Bounds
  <2>. QED
    BY <1>5, <1>7, <1>8, <2>1, <2>2, WriteTwo
<1>13. EnterWrites(mem, m, g, k, c, p)
  BY <1>6, <1>12 DEF EnterWrites, WordsSet
<1>14. EnteredBy(g, k, bs, p, c, p)
  BY <1>5, <1>6, <1>7 DEF EnteredBy
<1>15. Entered(m, g, B, S, k, bs, c, q)
  BY <1>4, <1>5, <1>6, <1>7, <1>9, <1>10, <1>12, <1>13, <1>14, Enter
<1>16. PICK bs2, fs2 : MarkState(m, g, B, S \cup {c}, k + 1, bs2, fs2, q) /\ bs2[k + 1] = c /\ bs2[1] = bs[1]
  BY <1>6, <1>15 DEF Entered
<1>17. k + 1 > 0 /\ q \in bs2[k + 1] .. bs2[k + 1] + Wosize_hd(g[bs2[k + 1]]) /\ h' = g[bs2[1]] /\ Root.at - 1 = bs2[1]
  <2>1. Wosize_hd(g[c]) \in Nat
    BY <1>5, HeaderColours
  <2>. QED
    BY <1>5, <1>6, <1>7, <1>9, <1>10, <1>16, <2>1
<1>18. Rooted(B, S \cup {c}, root) /\ \A a \in 0 .. StaticWosize - 1 : m[a] = mem[a]
  BY <1>6, <1>12, RootedWider DEF WordsSet
<1>. QED
  BY <1>2, <1>6, <1>10, <1>11, <1>16, <1>17, <1>18, BlockNext

\* mark_block blackens the block its field refers to.
LEMMA BlackenLeafStep == ASSUME Sound, BlockInv, BlackenLeaf PROVE Sound' /\ BlockInv'
<1>1. PICK g, B, S, k, bs, fs : AtBlock(g, B, S, k, bs, fs)
  BY DEF BlockInv
<1>2. IsPointer /\ ctl = "gc" /\ phase = "block"
  BY DEF BlackenLeaf, IsPointer, IsField, InBlock, In
<1>3. PICK c : PointsTo(g, B, S, bs, k, c)
  BY <1>1, <1>2, PointerHere
<1>4. c \notin S /\ mem[c] = g[c]
  BY <1>3 DEF BlackenLeaf, PointsTo, Color_white, Color_black
<1>5. /\ c \in B /\ c \in Int /\ c >= StaticWosize /\ InHeap(c) /\ FieldHd = g[c]
      /\ mem[p].at - 1 = c /\ WhiteHeader(g[c]) /\ p # bs[k] /\ g[p] = Val_dynamic_block(c + 1)
  BY <1>3, <1>4 DEF PointsTo
<1>6. /\ MarkState(mem, g, B, S, k, bs, fs, p) /\ root \in 1 .. Len(Roots) /\ Rooted(B, S, root)
      /\ Is_block_in_dynamic_heap(Root) /\ Root.at - 1 = bs[1] /\ h = g[bs[1]] /\ k > 0
      /\ p \in bs[k] .. bs[k] + Wosize_hd(g[bs[k]])
  BY <1>1 DEF AtBlock
<1>7. p \in Int /\ p >= StaticWosize /\ bs[k] \in Int
  BY <1>1, BlockPlace
<1>8. PICK m : Wrote(mem, m, c, with_black(g[c]))
  BY DEF Wrote
<1>9. /\ mem' = m /\ UNCHANGED <<regs, phase, root, h, start, alloc_pos>> /\ Unmoved /\ Tag_hd(g[c]) >= No_scan_tag
      /\ p' = p - 1
  BY <1>4, <1>5, <1>8 DEF BlackenLeaf, Goto, Word_p, Wrote
<1>10. m \in SizedHeap /\ WordSet(mem, m, c, with_black(g[c]))
  <2>1. with_black(g[c]) \in Sizable /\ mem \in SizedHeap
    BY <1>5, HeaderColours, Bounds
  <2>. QED
    BY <1>5, <1>8, <2>1, WriteWord
<1>11. MarkState(m, g, B, S \cup {c}, k, bs, fs, p)
  <2>1. \A a \in 0 .. HeapWosize - 1 : m[a] = IF a = c THEN with_black(g[c]) ELSE mem[a]
    BY <1>10 DEF WordSet
  <2>. QED
    BY <1>4, <1>5, <1>6, <1>9, <1>10, <2>1, Blacken
<1>12. PICK q : q = p - 1
  OBVIOUS
<1>13. MarkState(m, g, B, S \cup {c}, k, bs, fs, q)
  <2>1. Into(g[p], S \cup {c})
    <3>1. Val_dynamic_block(c + 1).at = c + 1 /\ c + 1 - 1 = c
      BY <1>5, LinkColours
    <3>. QED
      BY <3>1, <1>5 DEF Into
  <2>. QED
    BY <1>11, <1>12, <2>1, PreviousField
<1>14. q \in bs[k] .. bs[k] + Wosize_hd(g[bs[k]])
  <2>1. PICK z \in Nat : z = Wosize_hd(g[bs[k]])
    BY <1>1, BlockPlace, HeaderColours
  <2>. QED
    BY <1>5, <1>6, <1>7, <1>12, <2>1
<1>15. Rooted(B, S \cup {c}, root) /\ \A a \in 0 .. StaticWosize - 1 : m[a] = mem[a]
  BY <1>6, <1>10, RootedWider DEF WordSet
<1>. QED
  BY <1>2, <1>6, <1>9, <1>12, <1>13, <1>14, <1>15, BlockNext

\* Marking meets no pointer into a closure, and finds headers where it looks for them.
LEMMA MarkReads ==
  ASSUME Sound
  PROVE  /\ MarkInv => ~ MarkMisread
         /\ BlockInv => ~ EnterInfix /\ ~ MarkMisread
<1>1. ASSUME MarkInv, MarkMisread PROVE FALSE
  <2>1. PICK g, B, S, bs, fs : AtRoot(g, B, S, bs, fs)
    BY <1>1 DEF MarkInv
  <2>2. Marking /\ Unmarked /\ ~ HdAt(Root.at - 1)
    BY <1>1 DEF MarkInv, MarkMisread, In, InBlock, IsPointer, IsField
  <2>. QED
    BY <2>1, <2>2, WhiteRoot
<1>2. ASSUME BlockInv PROVE ~ EnterInfix /\ ~ MarkMisread
  <2>1. PICK g, B, S, k, bs, fs : AtBlock(g, B, S, k, bs, fs)
    BY <1>2 DEF BlockInv
  <2>2. ~ Marking /\ InHeap(p)
    BY <1>2, <2>1, BlockPlace DEF BlockInv, Marking, In
  <2>3. ASSUME InBlock, Is_unaligned_block(Word_p) PROVE HdAt(Word_p.at) /\ Color_hd(mem[Word_p.at]) # Color_red
    <3>1. p = bs[k]
      <4>1. ASSUME p # bs[k] PROVE FALSE
        BY <2>1, <2>3, <4>1, BlockPlace DEF Word_p
      <4>. QED
        BY <4>1
    <3>2. /\ mem[p] = Back(fs[k]) /\ fs[k] \in Int /\ k # 1 /\ k \in Nat /\ k \in 1 .. k /\ InHeap(fs[k])
          /\ WhiteHeader(g[bs[k]])
      <4>1. /\ mem[p] = Back(fs[k]) /\ fs[k] \in Int /\ k \in Nat /\ k \in 1 .. k /\ WhiteHeader(g[bs[k]])
            /\ IF k = 1 THEN fs[k] = 0
               ELSE fs[k] # 0 /\ fs[k] > StaticWosize /\ InHeap(fs[k]) /\ fs[k] \in FieldsOf(g, bs[k - 1])
        BY <2>1, <3>1, BlockPlace
      <4>2. k # 1
        BY <4>1, <2>3 DEF InBlock, Word_p, UNIQUE_MARK
      <4>. QED
        BY <4>1, <4>2
    <3>3. mem[fs[k]] = with_black(g[bs[k]])
      <4>1. k \in 2 .. k
        BY <3>2
      <4>. QED
        BY <2>1, <4>1 DEF AtBlock, MarkState, Marks
    <3>4. IsHd(mem[fs[k]]) /\ mem[fs[k]].low = Color_black
      BY <3>2, <3>3, HeaderColours
    <3>5. Word_p.at = fs[k]
      BY <3>2, LinkColours DEF Word_p
    <3>. QED
      BY <3>2, <3>4, <3>5 DEF HdAt, Color_hd, Color_black, Color_red
  <2>4. ASSUME IsPointer
        PROVE  InHeap(Word_p.at - 1) /\ ~ IsInfix /\ (IsHd(FieldHd) \/ Color_hd(FieldHd) # Color_white)
    <3>1. ~ IsInfix /\ \E c : PointsTo(g, B, S, bs, k, c)
      BY <2>1, <2>4, PointerHere
    <3>2. PICK c : PointsTo(g, B, S, bs, k, c)
      BY <3>1
    <3>. QED
      BY <3>1, <3>2 DEF PointsTo, Word_p, Color_white, Color_black
  <2>. QED
    BY <2>2, <2>3, <2>4 DEF EnterInfix, MarkMisread
<1>. QED
  BY <1>1, <1>2

\* gc() begins with no block seen.
LEMMA GcStartStep ==
  ASSUME Sound, GcStart, NEW B, MachineOK(StaticWosize, B)
  PROVE  Sound' /\ MarkInv'
<1>1. /\ ctl = "gc" /\ phase' = "mark" /\ root' = 1 /\ UNCHANGED <<vmvars, p, h, start, alloc_pos>>
  BY DEF GcStart, In
<1>2. /\ mem' = mem /\ UNCHANGED regs /\ Unmoved
  BY <1>1 DEF vmvars, regs, Unmoved
<1>3. VMTypeOK /\ RootsIn(B) /\ StaticKept
  <2>1. VMTypeOK
    BY DEF Sound
  <2>2. RegsOK(acc, env, stack, globals, B) /\ StaticOK(mem, B)
    BY DEF MachineOK, HeapOK
  <2>3. \A a \in ToSet(StaticFields) : Value(mem[a], B)
    BY <2>2, StaticAddresses DEF StaticOK
  <2>4. RootsIn(B)
    BY <2>1, <2>2, <2>3, RootsValues DEF RootsIn
  <2>5. StaticKept
    BY <2>2 DEF StaticOK, StaticKept
  <2>. QED
    BY <2>1, <2>4, <2>5
<1>4. Rooted(B, {}, 0)
  BY <1>3 DEF Rooted
<1>5. PICK g, e : g = mem /\ e = [i \in {} |-> 0]
  OBVIOUS
<1>6. MarkState(g, g, B, {}, 0, e, e, 0)
  <2>1. Layout(g, B)
    BY <1>5, Bounds DEF MachineOK, HeapOK, Layout
  <2>2. Way(g, {}, 0, e, e)
    BY DEF Way
  <2>3. Marks(g, g, {}, 0, e, e)
    BY <2>1 DEF Marks, Layout
  <2>4. Closed(g, {}, 0, e, e, 0)
    BY DEF Closed
  <2>. QED
    BY <2>1, <2>2, <2>3, <2>4 DEF MarkState
<1>7. Len(Roots) \in Nat /\ 1 \in 0 .. Len(Roots) + 1 /\ 1 \in 1 .. Len(Roots) + 1
  BY Bounds
<1>8. /\ Sound' /\ Roots' = Roots /\ ctl' = "gc"
      /\ \A B1, S1, n : Rooted(B1, S1, n) /\ n \in Int /\ n <= Len(Roots) => Rooted(B1, S1, n)'
  <2>1. /\ mem' \in SizedHeap /\ h' \in Sizable /\ p' \in Int /\ start' \in Int /\ alloc_pos' \in Int
        /\ \A a \in 0 .. StaticWosize - 1 : mem'[a] = mem[a]
    BY <1>1, <1>2 DEF Sound
  <2>2. root' \in 0 .. Len(Roots) + 1
    BY <1>1, <1>7
  <2>. QED
    BY <1>1, <1>2, <2>1, <2>2, HeapStep
<1>9. Rooted(B, {}, root - 1)'
  <2>1. Rooted(B, {}, 0)'
    BY <1>4, <1>7, <1>8
  <2>2. root' - 1 = 0
    BY <1>1
  <2>. QED
    BY <2>1, <2>2
<1>10. MarkState(mem, g, B, {}, 0, e, e, 0)'
  BY <1>2, <1>5, <1>6, MarkNext DEF Unmoved
<1>11. AtRoot(g, B, {}, e, e)'
  BY <1>1, <1>7, <1>8, <1>9, <1>10 DEF AtRoot
<1>. QED
  BY <1>1, <1>8, <1>11 DEF MarkInv, In

-----------------------------------------------------------------------------
(* A heap w whose headers are at C, those of living blocks at K.            *)

\* The headers at C lead from lo to hi.
Tiled(w, lo, hi, C) ==
  /\ lo \in C \cup {hi}
  /\ \A c \in C : /\ c \in lo .. hi - 1 /\ WhiteHeader(w[c]) /\ Tag_hd(w[c]) # Infix_tag
                  /\ c + Wosize_hd(w[c]) + 1 \in C \cup {hi}
                  /\ \A d \in C : d <= c \/ d > c + Wosize_hd(w[c])

\* Living blocks refer to living blocks.
Alive(w, C, K) ==
  /\ w \in SizedHeap /\ Tiled(w, StaticWosize, heap_ptr, C)
  /\ K \subseteq C /\ (\A b \in K : Wosize_hd(w[b]) > 0) /\ FieldsOK(w, K)

\* wipe_dead_blocks has reached q: before, dead blocks are strings and headers are
\* white; from there on, living blocks are black.
WipeState(m, w, C, K, q) ==
  /\ Alive(w, C, K) /\ q \in C \cup {heap_ptr}
  /\ \A c \in C : c < q => c \in K \/ Tag_hd(w[c]) = String_tag
  /\ \A a \in 0 .. HeapWosize - 1 : m[a] = IF a \in K /\ a >= q THEN with_black(w[a]) ELSE w[a]

AtWipe(w, C, K) ==
  /\ WipeState(mem, w, C, K, p) /\ RootsIn(K) /\ StaticKept
  /\ p < heap_ptr => h = mem[p]
AtDead(w, C, K) ==
  /\ WipeState(mem, w, C, K, start) /\ RootsIn(K) /\ StaticKept
  /\ start \in C /\ start < p /\ p \in C \cup {heap_ptr} /\ p - start - 1 < MaxWosize
  /\ \A c \in K : c < start \/ c >= p
WipeInv == In("wipe") /\ root = 0 /\ \E w, C, K : AtWipe(w, C, K)
DeadInv == In("dead") /\ root = 0 /\ \E w, C, K : AtDead(w, C, K)

\* Blocks, and what is between them.
LEMMA LayoutTiled ==
  ASSUME Sound, NEW g, NEW B, Layout(g, B)
  PROVE  \E C : B \subseteq C /\ Tiled(g, StaticWosize, heap_ptr, C)
<1>1. /\ StaticWosize \in Nat /\ HeapWosize \in Nat /\ heap_ptr \in Nat /\ heap_ptr <= HeapWosize
      /\ StaticWosize <= heap_ptr
  BY Bounds
<1>2. PICK C : C = {a \in StaticWosize .. heap_ptr - 1 : a \in B \/ \A b \in B : a \notin b .. b + Wosize_hd(g[b])}
  OBVIOUS
<1>3. ASSUME NEW b \in B
      PROVE  /\ b \in StaticWosize .. heap_ptr - 1 /\ WhiteHeader(g[b]) /\ Tag_hd(g[b]) # Infix_tag
             /\ Wosize_hd(g[b]) \in Nat /\ b + Wosize_hd(g[b]) < heap_ptr
             /\ \A c \in B : c <= b \/ c > b + Wosize_hd(g[b])
  <2>1. \A c \in B : c <= b \/ c > b + Wosize_hd(g[b])
    BY DEF Layout, BlocksOK
  <2>. QED
    BY <2>1, LayoutFacts
<1>4. ASSUME NEW c \in C, c \notin B
      PROVE  g[c] = Make_header(0, 0, 0) /\ WhiteHeader(g[c]) /\ Tag_hd(g[c]) = 0 /\ Wosize_hd(g[c]) = 0
  <2>1. c \in StaticWosize .. heap_ptr - 1 /\ c \in 0 .. HeapWosize - 1 /\ \A b \in B : c \notin b .. b + Wosize_hd(g[b])
    BY <1>1, <1>2, <1>4
  <2>2. g[c] = Make_header(0, 0, 0) /\ g[c] \in Sizable
    BY <2>1 DEF Layout, Filled, SizedHeap
  <2>. QED
    BY <2>2 DEF WhiteHeader, Make_header, IsHd, Tag_hd, Wosize_hd, Color_white
<1>5. ASSUME NEW c \in C
      PROVE  c \in StaticWosize .. heap_ptr - 1 /\ c \in Int /\ Wosize_hd(g[c]) \in Nat /\ c + Wosize_hd(g[c]) < heap_ptr
  BY <1>1, <1>2, <1>3, <1>4
<1>6. ASSUME NEW c \in C, NEW d \in C PROVE d <= c \/ d > c + Wosize_hd(g[c])
  <2>1. CASE c \notin B
    BY <2>1, <1>4, <1>5
  <2>2. CASE c \in B /\ d \in B
    BY <2>2, <1>3
  <2>3. CASE c \in B /\ d \notin B
    <3>1. d \notin c .. c + Wosize_hd(g[c])
      BY <2>3, <1>2
    <3>. QED
      BY <3>1, <1>5
  <2>. QED
    BY <2>1, <2>2, <2>3
<1>7. ASSUME NEW a \in StaticWosize .. heap_ptr - 1, a \notin C
      PROVE  \E b \in B : b < a /\ a <= b + Wosize_hd(g[b])
  <2>1. PICK b \in B : a \in b .. b + Wosize_hd(g[b]) /\ a # b
    BY <1>2, <1>7
  <2>2. b \in Int /\ Wosize_hd(g[b]) \in Nat
    BY <1>3
  <2>. QED
    BY <2>1, <2>2
<1>8. ASSUME NEW c \in C PROVE c + Wosize_hd(g[c]) + 1 \in C \cup {heap_ptr}
  <2>1. PICK s \in Nat : s = Wosize_hd(g[c])
    BY <1>5
  <2>2. c \in Int /\ c >= StaticWosize /\ c + s < heap_ptr
    BY <1>5, <2>1
  <2>3. ASSUME c + s + 1 # heap_ptr, c + s + 1 \notin C PROVE FALSE
    <3>1. c + s + 1 \in StaticWosize .. heap_ptr - 1
      BY <1>1, <2>2, <2>3
    <3>2. PICK b \in B : b < c + s + 1 /\ c + s + 1 <= b + Wosize_hd(g[b])
      BY <1>7, <2>3, <3>1
    <3>3. b \in C /\ b \in Int /\ Wosize_hd(g[b]) \in Nat
      BY <1>2, <1>3
    <3>4. b <= c \/ b > c + s
      BY <1>6, <2>1, <3>3
    <3>5. c <= b \/ c > b + Wosize_hd(g[b])
      BY <1>6, <3>3
    <3>6. b = c
      BY <2>2, <3>2, <3>3, <3>4, <3>5
    <3>. QED
      BY <2>1, <2>2, <3>2, <3>6
  <2>. QED
    BY <2>1, <2>3
<1>9. StaticWosize \in C \cup {heap_ptr}
  <2>1. ASSUME StaticWosize # heap_ptr, StaticWosize \notin C PROVE FALSE
    <3>1. StaticWosize \in StaticWosize .. heap_ptr - 1
      BY <1>1, <2>1
    <3>2. PICK b \in B : b < StaticWosize
      BY <1>7, <2>1, <3>1
    <3>. QED
      BY <3>2, <1>1, <1>3
  <2>. QED
    BY <2>1
<1>10. B \subseteq C
  BY <1>2, <1>3
<1>11. ASSUME NEW c \in C PROVE WhiteHeader(g[c]) /\ Tag_hd(g[c]) # Infix_tag
  BY <1>3, <1>4 DEF Infix_tag
<1>. QED
  BY <1>5, <1>6, <1>8, <1>9, <1>10, <1>11 DEF Tiled

\* A value that refers to what has been seen.
LEMMA ValueSeen ==
  ASSUME NEW B, NEW S, NEW w, Value(w, B), Into(w, S)
  PROVE  Value(w, S)
BY DEF Value, Into, Is_block_in_dynamic_heap

\* The blocks seen, when they refer to blocks seen, are a heap.
LEMMA FieldsSeen ==
  ASSUME NEW g, NEW B, FieldsOK(g, B), NEW S, S \subseteq B, \A b \in S : b \in Int /\ Wosize_hd(g[b]) \in Nat,
         \A b \in S : Tag_hd(g[b]) < No_scan_tag => \A a \in FieldsOf(g, b) : Into(g[a], S)
  PROVE  FieldsOK(g, S)
<1>1. ASSUME NEW b \in S, Tag_hd(g[b]) < No_scan_tag, NEW i \in 1 .. Wosize_hd(g[b])
      PROVE  FieldOK(g, b, i, S)
  <2>1. FieldOK(g, b, i, B)
    BY <1>1 DEF FieldsOK
  <2>2. b + i \in FieldsOf(g, b)
    BY <1>1 DEF FieldsOf
  <2>3. Into(g[b + i], S)
    BY <1>1, <2>2
  <2>. QED
    BY <2>1, <2>3, ValueSeen DEF FieldOK
<1>. QED
  BY <1>1 DEF FieldsOK

\* Where headers and fields are.
LEMMA TiledFacts ==
  ASSUME Sound, NEW w, NEW C, NEW K, Alive(w, C, K)
  PROVE  /\ \A c \in C : /\ c \in StaticWosize .. heap_ptr - 1 /\ c \in 0 .. HeapWosize - 1 /\ c \in Int /\ InHeap(c)
                         /\ WhiteHeader(w[c]) /\ Wosize_hd(w[c]) \in Nat /\ Wosize_hd(w[c]) < MaxWosize
                         /\ Tag_hd(w[c]) # Infix_tag /\ Tag_hd(w[c]) \in Nat
                         /\ c + Wosize_hd(w[c]) < heap_ptr
                         /\ c + Wosize_hd(w[c]) + 1 \in C \cup {heap_ptr}
                         /\ FieldsOf(w, c) \subseteq StaticWosize + 1 .. heap_ptr - 1
                         /\ FieldsOf(w, c) \subseteq 1 .. HeapWosize - 1
         /\ \A c, d \in C : d <= c \/ d > c + Wosize_hd(w[c])
         /\ \A c, d \in C : d \notin FieldsOf(w, c)
         /\ \A c, d \in C : c # d => FieldsOf(w, c) \cap FieldsOf(w, d) = {}
         /\ StaticWosize \in C \cup {heap_ptr}
<1>1. /\ StaticWosize \in Nat /\ HeapWosize \in Nat /\ heap_ptr \in Nat /\ heap_ptr <= HeapWosize
      /\ StaticWosize <= heap_ptr
  BY Bounds
<1>2. ASSUME NEW c \in C
      PROVE  /\ c \in StaticWosize .. heap_ptr - 1 /\ WhiteHeader(w[c]) /\ Tag_hd(w[c]) # Infix_tag
             /\ c + Wosize_hd(w[c]) + 1 \in C \cup {heap_ptr}
             /\ \A d \in C : d <= c \/ d > c + Wosize_hd(w[c])
  BY DEF Alive, Tiled
<1>3. ASSUME NEW c \in C
      PROVE  /\ c \in 0 .. HeapWosize - 1 /\ c \in Int /\ InHeap(c) /\ Wosize_hd(w[c]) \in Nat
             /\ Wosize_hd(w[c]) < MaxWosize /\ Tag_hd(w[c]) \in Nat
  <2>1. c \in 0 .. HeapWosize - 1 /\ c \in Int
    BY <1>1, <1>2
  <2>2. Wosize_hd(w[c]) \in Nat /\ Tag_hd(w[c]) \in Nat
    BY <1>2, HeaderColours DEF Tag_hd
  <2>. QED
    BY <1>2, <2>1, <2>2 DEF InHeap, WhiteHeader, Sizable
<1>4. ASSUME NEW c \in C PROVE c + Wosize_hd(w[c]) < heap_ptr
  <2>1. c + Wosize_hd(w[c]) + 1 <= heap_ptr
    BY <1>1, <1>2
  <2>. QED
    BY <2>1, <1>1, <1>3
<1>5. ASSUME NEW c \in C
      PROVE  /\ FieldsOf(w, c) \subseteq StaticWosize + 1 .. heap_ptr - 1
             /\ FieldsOf(w, c) \subseteq 1 .. HeapWosize - 1
  BY <1>1, <1>2, <1>3, <1>4 DEF FieldsOf
<1>6. ASSUME NEW c \in C, NEW d \in C PROVE d \notin FieldsOf(w, c)
  BY <1>2, <1>3 DEF FieldsOf
<1>7. ASSUME NEW c \in C, NEW d \in C, c # d PROVE FieldsOf(w, c) \cap FieldsOf(w, d) = {}
  <2>1. PICK x \in Nat, y \in Nat : x = Wosize_hd(w[c]) /\ y = Wosize_hd(w[d])
    BY <1>3
  <2>2. c \in Int /\ d \in Int /\ (d <= c \/ d > c + x) /\ (c <= d \/ c > d + y)
    BY <1>2, <1>3, <2>1
  <2>. QED
    BY <2>1, <2>2, <1>7 DEF FieldsOf
<1>8. StaticWosize \in C \cup {heap_ptr}
  BY DEF Alive, Tiled
<1>. QED
  BY <1>2, <1>3, <1>4, <1>5, <1>6, <1>7, <1>8

\* A step that ends in the loop of wipe_dead_blocks.
LEMMA WipeNext ==
  ASSUME Sound, ctl = "gc", UNCHANGED regs, Unmoved, phase' = "wipe", root' = 0,
         NEW m, NEW w, NEW C, NEW K, NEW q, WipeState(m, w, C, K, q), mem' = m, p' = q, q \in Int, m \in SizedHeap,
         RootsIn(K), StaticKept, start' \in Int, alloc_pos' \in Int, h' \in Sizable,
         q < heap_ptr => h' = m[q],
         \A a \in 0 .. StaticWosize - 1 : m[a] = mem[a]
  PROVE  Sound' /\ WipeInv'
<1>1. Rooted(K, {}, 0)
  BY DEF Rooted
<1>2. Len(Roots) \in Nat /\ 0 \in 0 .. Len(Roots) + 1 /\ 0 \in Int /\ 0 <= Len(Roots)
  BY Bounds
<1>3. /\ Sound' /\ Roots' = Roots /\ ctl' = "gc"
      /\ \A B1, S1, n : Rooted(B1, S1, n) /\ n \in Int /\ n <= Len(Roots) => Rooted(B1, S1, n)'
  <2>1. /\ mem' \in SizedHeap /\ p' \in Int /\ root' \in 0 .. Len(Roots) + 1
        /\ \A a \in 0 .. StaticWosize - 1 : mem'[a] = mem[a]
    BY <1>2
  <2>. QED
    BY <2>1, HeapStep
<1>4. RootsIn(K)' /\ StaticKept'
  <2>1. Rooted(K, {}, 0)'
    BY <1>1, <1>2, <1>3
  <2>. QED
    BY <2>1 DEF Rooted
<1>5. WipeState(mem, w, C, K, p)'
  BY DEF WipeState, Alive, Unmoved, SizedHeap, Sizable, HeapWosize, StaticWosize
<1>6. AtWipe(w, C, K)'
  BY <1>4, <1>5 DEF AtWipe, Unmoved
<1>. QED
  BY <1>3, <1>6 DEF WipeInv, In

\* After the last root.
LEMMA MarkDoneStep == ASSUME Sound, MarkInv, MarkDone PROVE Sound' /\ WipeInv'
<1>1. PICK g, B, S, bs, fs : AtRoot(g, B, S, bs, fs)
  BY DEF MarkInv
<1>2. /\ ctl = "gc" /\ root > Len(Roots) /\ phase' = "wipe" /\ root' = 0 /\ p' = StaticWosize /\ alloc_pos' = StaticWosize
      /\ h' = mem[StaticWosize] /\ UNCHANGED <<vmvars, start>>
  BY DEF MarkDone, In, FirstBlock
<1>3. UNCHANGED regs /\ Unmoved /\ mem' = mem
  BY <1>2 DEF vmvars, regs, Unmoved
<1>4. /\ MarkState(mem, g, B, S, 0, bs, fs, 0) /\ Rooted(B, S, root - 1) /\ Layout(g, B) /\ S \subseteq B
      /\ FieldsOK(g, B) /\ g \in SizedHeap
  BY <1>1 DEF AtRoot, MarkState, Layout
<1>5. Len(Roots) \in Nat /\ root - 1 = Len(Roots)
  BY <1>1, <1>2, Bounds DEF AtRoot
<1>6. PICK C : B \subseteq C /\ Tiled(g, StaticWosize, heap_ptr, C)
  BY <1>4, LayoutTiled
<1>7. Alive(g, C, S)
  <2>1. \A b \in S : b \in Int /\ Wosize_hd(g[b]) \in Nat /\ Wosize_hd(g[b]) > 0
    BY <1>4, LayoutFacts
  <2>2. \A b \in S : Tag_hd(g[b]) < No_scan_tag => \A a \in FieldsOf(g, b) : Into(g[a], S)
    BY <1>4, MarkIdle
  <2>3. FieldsOK(g, S)
    BY <1>4, <2>1, <2>2, FieldsSeen
  <2>. QED
    BY <1>4, <1>6, <2>1, <2>3 DEF Alive
<1>8. PICK m, q : m = mem /\ q = StaticWosize
  OBVIOUS
<1>9. /\ StaticWosize \in Nat /\ StaticWosize \in 0 .. HeapWosize - 1 /\ mem \in SizedHeap /\ mem[StaticWosize] \in Sizable
  <2>1. StaticWosize \in Nat /\ StaticWosize \in 0 .. HeapWosize - 1 /\ mem \in SizedHeap
    BY Bounds
  <2>. QED
    BY <2>1 DEF SizedHeap
<1>10. WipeState(m, g, C, S, q)
  <2>1. \A c \in C : c >= StaticWosize /\ c \in Int
    BY <1>7, TiledFacts
  <2>2. StaticWosize \in C \cup {heap_ptr}
    BY <1>7, TiledFacts
  <2>3. ASSUME NEW a \in 0 .. HeapWosize - 1
        PROVE  m[a] = IF a \in S /\ a >= q THEN with_black(g[a]) ELSE g[a]
    <3>1. a \in S => a >= q
      BY <1>4, <1>6, <1>8, <2>1
    <3>. QED
      BY <3>1, <1>4, <1>8, MarkIdle
  <2>. QED
    BY <1>7, <1>8, <1>9, <2>1, <2>2, <2>3 DEF WipeState
<1>11. RootsIn(S) /\ StaticKept
  <2>1. ASSUME NEW loc \in RootSet PROVE Value(At(loc), S)
    <3>1. loc \in ToSet(Roots) /\ Roots \in Seq(Int)
      BY RootsOnce DEF Sound
    <3>2. PICK i \in 1 .. Len(Roots) : loc = Roots[i]
      BY <3>1, SeqElements
    <3>3. Value(At(loc), B) /\ Into(At(loc), S)
      BY <1>4, <1>5, <3>2 DEF Rooted, RootsIn
    <3>. QED
      BY <3>3, ValueSeen
  <2>. QED
    BY <1>4, <2>1 DEF RootsIn, Rooted
<1>12. start' \in Int /\ alloc_pos' \in Int /\ h' \in Sizable /\ q \in Int /\ p' = q /\ mem' = m /\ m \in SizedHeap
       /\ (q < heap_ptr => h' = m[q]) /\ \A a \in 0 .. StaticWosize - 1 : m[a] = mem[a]
  BY <1>2, <1>3, <1>8, <1>9 DEF Sound
<1>. QED
  BY <1>2, <1>3, <1>10, <1>11, <1>12, WipeNext

\* What wipe_dead_blocks finds at a header it has reached.
LEMMA WipeHeader ==
  ASSUME Sound, NEW m, NEW w, NEW C, NEW K, NEW q, WipeState(m, w, C, K, q), NEW c \in C, c >= q
  PROVE  /\ IsHd(m[c]) /\ Wosize_hd(m[c]) = Wosize_hd(w[c]) /\ m[c] \in Sizable
         /\ IF c \in K THEN Color_hd(m[c]) = Color_black /\ m[c] = with_black(w[c]) ELSE Color_hd(m[c]) = Color_white
<1>1. c \in 0 .. HeapWosize - 1 /\ WhiteHeader(w[c])
  BY TiledFacts DEF WipeState
<1>2. m[c] = IF c \in K THEN with_black(w[c]) ELSE w[c]
  BY <1>1 DEF WipeState
<1>3. CASE c \in K
  BY <1>1, <1>2, <1>3, HeaderColours DEF Color_hd
<1>4. CASE c \notin K
  BY <1>1, <1>2, <1>4 DEF WhiteHeader, Color_hd
<1>. QED
  BY <1>3, <1>4

\* Past a living block.
LEMMA PastAlive ==
  ASSUME Sound, NEW m, NEW w, NEW C, NEW K, NEW q, WipeState(m, w, C, K, q), q \in K,
         NEW m2, WordSet(m, m2, q, w[q]), NEW q2, q2 = q + Wosize_hd(w[q]) + 1
  PROVE  WipeState(m2, w, C, K, q2)
<1>1. Alive(w, C, K) /\ q \in C /\ K \subseteq C
  BY DEF WipeState, Alive
<1>2. \A c \in C : c \in Int /\ (c <= q \/ c > q + Wosize_hd(w[q]))
  BY <1>1, TiledFacts
<1>3. q \in Int /\ Wosize_hd(w[q]) \in Nat /\ q2 \in C \cup {heap_ptr} /\ q2 \in Int
  <2>1. q \in Int /\ Wosize_hd(w[q]) \in Nat /\ q + Wosize_hd(w[q]) + 1 \in C \cup {heap_ptr}
    BY <1>1, TiledFacts
  <2>. QED
    BY <2>1
<1>4. ASSUME NEW c \in C, c < q2 PROVE c \in K \/ Tag_hd(w[c]) = String_tag
  <2>1. c < q \/ c = q
    BY <1>2, <1>3, <1>4
  <2>. QED
    BY <2>1 DEF WipeState
<1>5. ASSUME NEW a \in 0 .. HeapWosize - 1
      PROVE  m2[a] = IF a \in K /\ a >= q2 THEN with_black(w[a]) ELSE w[a]
  <2>1. m2[a] = IF a = q THEN w[q] ELSE m[a]
    BY DEF WordSet
  <2>2. m[a] = IF a \in K /\ a >= q THEN with_black(w[a]) ELSE w[a]
    BY DEF WipeState
  <2>3. a \in K => (a >= q2 <=> a >= q /\ a # q)
    BY <1>1, <1>2, <1>3
  <2>. QED
    BY <2>1, <2>2, <2>3, <1>3
<1>. QED
  BY <1>1, <1>3, <1>4, <1>5 DEF WipeState

\* wipe_dead_blocks passes a block that is black, and makes it white.
LEMMA WipeAliveStep == ASSUME Sound, WipeInv, WipeAlive PROVE Sound' /\ WipeInv'
<1>1. PICK w, C, K : AtWipe(w, C, K)
  BY DEF WipeInv
<1>2. PICK q : q = p
  OBVIOUS
<1>3. /\ ctl = "gc" /\ phase = "wipe" /\ q < heap_ptr /\ root = 0 /\ h = mem[q] /\ Color_hd(h) # Color_white
      /\ WipeState(mem, w, C, K, q) /\ RootsIn(K) /\ StaticKept
  BY <1>1, <1>2 DEF WipeAlive, WipeInv, In, AtWipe
<1>4. q \in C /\ Alive(w, C, K)
  BY <1>3, Bounds DEF WipeState
<1>5. /\ q \in Int /\ q >= StaticWosize /\ InHeap(q) /\ WhiteHeader(w[q]) /\ Wosize_hd(w[q]) \in Nat
      /\ q + Wosize_hd(w[q]) + 1 \in C \cup {heap_ptr}
  BY <1>4, TiledFacts
<1>6. q \in K /\ h = with_black(w[q]) /\ Wosize_hd(h) = Wosize_hd(w[q])
  BY <1>3, <1>4, <1>5, WipeHeader
<1>7. xor_black(h) = w[q]
  BY <1>5, <1>6, HeaderColours
<1>8. PICK m, q2 : Wrote(mem, m, q, w[q]) /\ q2 = q + Wosize_hd(w[q]) + 1
  BY DEF Wrote
<1>9. /\ mem' = m /\ p' = q2 /\ h' = HeaderAt(q2) /\ UNCHANGED <<regs, phase, root, start, alloc_pos>> /\ Unmoved
  BY <1>2, <1>6, <1>7, <1>8 DEF WipeAlive, Wrote
<1>10. m \in SizedHeap /\ WordSet(mem, m, q, w[q])
  <2>1. mem \in SizedHeap /\ w[q] \in Sizable
    BY <1>5, Bounds DEF WhiteHeader
  <2>. QED
    BY <1>5, <1>8, <2>1, WriteWord
<1>11. WipeState(m, w, C, K, q2)
  BY <1>3, <1>6, <1>8, <1>10, PastAlive
<1>12. q2 \in Int /\ q2 # q /\ (q2 < heap_ptr => q2 \in 0 .. HeapWosize - 1)
  BY <1>5, <1>8, Bounds
<1>13. h' \in Sizable /\ (q2 < heap_ptr => h' = m[q2])
  <2>1. h' = IF q2 \in 0 .. HeapWosize - 1 THEN mem[q2] ELSE Undef
    BY <1>9 DEF HeaderAt, InHeap
  <2>2. q2 \in 0 .. HeapWosize - 1 => m[q2] = mem[q2] /\ m[q2] \in Sizable
    BY <1>10, <1>12 DEF WordSet, SizedHeap
  <2>. QED
    BY <2>1, <2>2, <1>12, UndefSizable
<1>14. start' \in Int /\ alloc_pos' \in Int /\ \A a \in 0 .. StaticWosize - 1 : m[a] = mem[a]
  BY <1>9, <1>10 DEF Sound, WordSet
<1>. QED
  BY <1>3, <1>9, <1>10, <1>11, <1>12, <1>13, <1>14, WipeNext

\* A step that ends in the inner loop of wipe_dead_blocks.
LEMMA DeadNext ==
  ASSUME Sound, ctl = "gc", UNCHANGED <<vmvars, root, alloc_pos>>, phase' = "dead", root = 0,
         NEW w, NEW C, NEW K, NEW q, NEW s, WipeState(mem, w, C, K, s), RootsIn(K), StaticKept,
         start' = s, p' = q, s \in C, s \in Int, q \in Int, s < q, q \in C \cup {heap_ptr}, q - s - 1 < MaxWosize,
         \A c \in K : c < s \/ c >= q, h' \in Sizable
  PROVE  Sound' /\ DeadInv'
<1>1. Rooted(K, {}, 0)
  BY DEF Rooted
<1>2. Len(Roots) \in Nat /\ 0 \in 0 .. Len(Roots) + 1 /\ 0 \in Int /\ 0 <= Len(Roots)
  BY Bounds
<1>3. /\ Sound' /\ Roots' = Roots /\ ctl' = "gc"
      /\ \A B1, S1, n : Rooted(B1, S1, n) /\ n \in Int /\ n <= Len(Roots) => Rooted(B1, S1, n)'
  <2>1. /\ mem' \in SizedHeap /\ p' \in Int /\ start' \in Int /\ alloc_pos' \in Int /\ root' \in 0 .. Len(Roots) + 1
        /\ UNCHANGED regs /\ Unmoved /\ \A a \in 0 .. StaticWosize - 1 : mem'[a] = mem[a]
    BY <1>2 DEF Sound, vmvars, regs, Unmoved
  <2>. QED
    BY <2>1, HeapStep
<1>4. RootsIn(K)' /\ StaticKept'
  <2>1. Rooted(K, {}, 0)'
    BY <1>1, <1>2, <1>3
  <2>. QED
    BY <2>1 DEF Rooted
<1>5. WipeState(mem, w, C, K, start)'
  BY DEF WipeState, Alive, vmvars, SizedHeap, Sizable, HeapWosize, StaticWosize
<1>6. AtDead(w, C, K)'
  BY <1>4, <1>5 DEF AtDead, vmvars
<1>. QED
  BY <1>3, <1>6 DEF DeadInv, In

\* wipe_dead_blocks comes to a dead block.
LEMMA WipeDeadStep == ASSUME Sound, WipeInv, WipeDead PROVE Sound' /\ DeadInv'
<1>1. PICK w, C, K : AtWipe(w, C, K)
  BY DEF WipeInv
<1>2. PICK s : s = p
  OBVIOUS
<1>3. /\ ctl = "gc" /\ s < heap_ptr /\ root = 0 /\ h = mem[s] /\ Color_hd(h) = Color_white
      /\ WipeState(mem, w, C, K, s) /\ RootsIn(K) /\ StaticKept
      /\ UNCHANGED <<vmvars, root, h, alloc_pos>> /\ phase' = "dead" /\ start' = s /\ p' = s + Wosize_hd(h) + 1
  BY <1>1, <1>2 DEF WipeDead, WipeInv, In, AtWipe
<1>4. s \in C /\ Alive(w, C, K) /\ K \subseteq C
  BY <1>3, Bounds DEF WipeState, Alive
<1>5. /\ s \in Int /\ Wosize_hd(w[s]) \in Nat /\ Wosize_hd(w[s]) < MaxWosize
      /\ s + Wosize_hd(w[s]) + 1 \in C \cup {heap_ptr}
      /\ \A d \in C : d \in Int /\ (d <= s \/ d > s + Wosize_hd(w[s]))
  BY <1>4, TiledFacts
<1>6. s \notin K /\ Wosize_hd(h) = Wosize_hd(w[s])
  BY <1>3, <1>4, <1>5, WipeHeader DEF Color_white, Color_black
<1>7. PICK q : q = s + Wosize_hd(w[s]) + 1
  OBVIOUS
<1>8. /\ p' = q /\ q \in Int /\ s < q /\ q \in C \cup {heap_ptr} /\ q - s - 1 < MaxWosize
      /\ \A c \in K : c < s \/ c >= q
  BY <1>3, <1>4, <1>5, <1>6, <1>7
<1>9. h' \in Sizable
  BY <1>3 DEF Sound
<1>. QED
  BY <1>3, <1>4, <1>5, <1>8, <1>9, DeadNext

\* The next block is dead too, and merged.
LEMMA MergeStep == ASSUME Sound, DeadInv, Merge PROVE Sound' /\ DeadInv'
<1>1. PICK w, C, K : AtDead(w, C, K)
  BY DEF DeadInv
<1>2. PICK s, q : s = start /\ q = p
  OBVIOUS
<1>3. /\ ctl = "gc" /\ q < heap_ptr /\ root = 0 /\ Color_hd(mem[q]) = Color_white
      /\ WipeState(mem, w, C, K, s) /\ RootsIn(K) /\ StaticKept
      /\ UNCHANGED <<vmvars, root, phase, start, alloc_pos>> /\ phase = "dead" /\ h' = mem[q] /\ p' = q + Wosize_hd(mem[q]) + 1
      /\ s \in C /\ s < q /\ q \in C \cup {heap_ptr} /\ \A c \in K : c < s \/ c >= q
      /\ q + Wosize_hd(mem[q]) - s < MaxWosize
  BY <1>1, <1>2 DEF Merge, DeadInv, In, AtDead
<1>4. q \in C /\ Alive(w, C, K) /\ K \subseteq C /\ q \in Int /\ s \in Int
  BY <1>2, <1>3, Bounds DEF WipeState, Alive, Sound
<1>5. /\ Wosize_hd(w[q]) \in Nat /\ q + Wosize_hd(w[q]) + 1 \in C \cup {heap_ptr}
      /\ \A d \in C : d \in Int /\ (d <= q \/ d > q + Wosize_hd(w[q]))
  BY <1>4, TiledFacts
<1>6. q \notin K /\ Wosize_hd(mem[q]) = Wosize_hd(w[q]) /\ mem[q] \in Sizable
  <2>1. q >= s
    BY <1>3, <1>4
  <2>. QED
    BY <1>3, <1>4, <2>1, WipeHeader DEF Color_white, Color_black
<1>7. PICK q2 : q2 = q + Wosize_hd(w[q]) + 1
  OBVIOUS
<1>8. /\ p' = q2 /\ q2 \in Int /\ s < q2 /\ q2 \in C \cup {heap_ptr} /\ q2 - s - 1 < MaxWosize
      /\ \A c \in K : c < s \/ c >= q2
  <2>1. \A c \in K : c < s \/ c >= q2
    BY <1>3, <1>4, <1>5, <1>6, <1>7
  <2>2. q2 - s - 1 < MaxWosize
    BY <1>3, <1>4, <1>5, <1>6, <1>7
  <2>. QED
    BY <1>3, <1>4, <1>5, <1>6, <1>7, <2>1, <2>2
<1>9. start' = s /\ phase' = "dead" /\ h' \in Sizable
  BY <1>2, <1>3, <1>6
<1>. QED
  BY <1>3, <1>4, <1>8, <1>9, DeadNext

\* The header of the string that a run of dead blocks becomes.
LEMMA StringHeader ==
  ASSUME NEW s \in Int, NEW q \in Int, s < q, q - s - 1 < MaxWosize,
         NEW hd, hd = Make_header(q - s - 1, String_tag, 0)
  PROVE  WhiteHeader(hd) /\ hd \in Sizable /\ Tag_hd(hd) = String_tag /\ Wosize_hd(hd) = q - s - 1
<1>1. PICK size \in Nat : size = q - s - 1
  OBVIOUS
<1>2. hd = [kind |-> "hd", tag |-> String_tag, size |-> size, low |-> 0, id |-> 0]
  BY <1>1 DEF Make_header, Color_white
<1>. QED
  BY <1>1, <1>2 DEF WhiteHeader, Sizable, Word, IsHd, Wosize_hd, Tag_hd, Color_white, String_tag

\* The blocks from s to q are dead, and not too large for one block.
DeadRun(C, K, s, q) ==
  s \in C /\ s < q /\ q \in C \cup {heap_ptr} /\ q - s - 1 < MaxWosize /\ \A c \in K : c < s \/ c >= q
\* wipe_dead_blocks has reached q, in a heap that has lost some dead blocks.
WipedTo(m, K, q) == \E w, C : WipeState(m, w, C, K, q)

\* The dead blocks from s to q become one string.
LEMMA Merged ==
  ASSUME Sound, NEW m, NEW w, NEW C, NEW K, NEW s, NEW q, WipeState(m, w, C, K, s),
         DeadRun(C, K, s, q),
         NEW hd, hd = Make_header(q - s - 1, String_tag, 0),
         NEW m2, WordSet(m, m2, s, hd)
  PROVE  WipedTo(m2, K, q)
<1>. USE DEF DeadRun
<1>1. Alive(w, C, K) /\ K \subseteq C /\ w \in SizedHeap /\ FieldsOK(w, K)
  BY DEF WipeState, Alive
<1>2. heap_ptr \in Nat /\ HeapWosize \in Nat /\ StaticWosize \in Nat
  BY Bounds
<1>3. \A c \in C : /\ c \in Int /\ c >= StaticWosize /\ c < heap_ptr /\ c \in 0 .. HeapWosize - 1
                   /\ WhiteHeader(w[c]) /\ Tag_hd(w[c]) # Infix_tag
                   /\ Wosize_hd(w[c]) \in Nat /\ c + Wosize_hd(w[c]) + 1 \in C \cup {heap_ptr}
                   /\ \A d \in C : d <= c \/ d > c + Wosize_hd(w[c])
                   /\ s \notin FieldsOf(w, c)
  BY <1>1, <1>2, TiledFacts
<1>4. s \in Int /\ q \in Int /\ s >= StaticWosize /\ s \in 0 .. HeapWosize - 1 /\ s \notin K
  BY <1>2, <1>3
<1>5. WhiteHeader(hd) /\ hd \in Sizable /\ Tag_hd(hd) = String_tag /\ Wosize_hd(hd) = q - s - 1
  BY <1>4, StringHeader
<1>6. PICK w2 : w2 = [w EXCEPT ![s] = hd]
  OBVIOUS
<1>7. PICK C2 : C2 = {c \in C : c <= s \/ c >= q}
  OBVIOUS
<1>8. w2 \in SizedHeap /\ \A a \in 0 .. HeapWosize - 1 : w2[a] = IF a = s THEN hd ELSE w[a]
  <2>1. w \in [0 .. HeapWosize - 1 -> Sizable]
    BY <1>1 DEF SizedHeap
  <2>. QED
    BY <2>1, <1>5, <1>6 DEF SizedHeap
<1>9. Tiled(w2, StaticWosize, heap_ptr, C2)
  <2>1. StaticWosize \in C2 \cup {heap_ptr}
    BY <1>1, <1>4, <1>7, TiledFacts
  <2>2. ASSUME NEW c \in C2
        PROVE  /\ c \in StaticWosize .. heap_ptr - 1 /\ WhiteHeader(w2[c]) /\ Tag_hd(w2[c]) # Infix_tag
               /\ c + Wosize_hd(w2[c]) + 1 \in C2 \cup {heap_ptr}
               /\ \A d \in C2 : d <= c \/ d > c + Wosize_hd(w2[c])
    <3>1. c \in C /\ (c <= s \/ c >= q)
      BY <1>7
    <3>2. CASE c = s
      <4>1. w2[c] = hd
        BY <1>4, <1>8, <3>2
      <4>2. PICK z \in Int : z = Wosize_hd(w2[c]) /\ z = q - s - 1
        BY <4>1, <1>4, <1>5
      <4>3. \A d \in C2 : d <= c \/ d > c + z
        BY <4>2, <3>2, <1>3, <1>4, <1>7
      <4>4. c + z + 1 \in C2 \cup {heap_ptr}
        <5>1. c + z + 1 = q
          BY <4>2, <3>2, <1>4
        <5>. QED
          BY <5>1, <1>4, <1>7
      <4>5. Tag_hd(w2[c]) # Infix_tag
        BY <4>1, <1>5 DEF String_tag, Infix_tag
      <4>. QED
        BY <4>1, <4>2, <4>3, <4>4, <4>5, <3>1, <1>2, <1>3, <1>5
    <3>3. CASE c # s
      <4>1. w2[c] = w[c]
        BY <3>1, <3>3, <1>3, <1>8
      <4>2. PICK z \in Nat : z = Wosize_hd(w[c])
        BY <3>1, <1>3
      <4>3. c + z + 1 \in C \cup {heap_ptr} /\ (\A d \in C : d <= c \/ d > c + z) /\ c \in Int /\ s \in C
        BY <3>1, <4>2, <1>3
      <4>4. c + z + 1 <= s \/ c + z + 1 >= q
        BY <3>1, <3>3, <4>3, <1>4
      <4>5. c + z + 1 \in C2 \cup {heap_ptr} /\ \A d \in C2 : d <= c \/ d > c + z
        BY <4>3, <4>4, <1>7
      <4>. QED
        BY <4>1, <4>2, <4>5, <3>1, <1>2, <1>3
    <3>. QED
      BY <3>2, <3>3
  <2>. QED
    BY <2>1, <2>2 DEF Tiled
<1>10. ASSUME NEW b \in K PROVE b \in C2 /\ w2[b] = w[b] /\ \A a \in FieldsOf(w, b) : w2[a] = w[a]
  <2>1. b \in C2
    BY <1>1, <1>3, <1>4, <1>7
  <2>2. w2[b] = w[b]
    BY <1>1, <1>3, <1>4, <1>8
  <2>3. FieldsOf(w, b) \subseteq 1 .. HeapWosize - 1
    BY <1>1, TiledFacts
  <2>4. \A a \in FieldsOf(w, b) : w2[a] = w[a]
    BY <1>1, <1>2, <1>3, <1>8, <2>3
  <2>. QED
    BY <2>1, <2>2, <2>4
<1>11. FieldsOK(w2, K)
  <2>1. ASSUME NEW b \in K, Tag_hd(w2[b]) < No_scan_tag, NEW i \in 1 .. Wosize_hd(w2[b]) PROVE FieldOK(w2, b, i, K)
    <3>1. w2[b] = w[b] /\ b \in Int /\ Wosize_hd(w[b]) \in Nat
      BY <1>1, <1>3, <1>10
    <3>2. FieldOK(w, b, i, K)
      BY <1>1, <2>1, <3>1 DEF FieldsOK
    <3>3. w2[b + i] = w[b + i]
      <4>1. b + i \in FieldsOf(w, b)
        BY <2>1, <3>1 DEF FieldsOf
      <4>. QED
        BY <4>1, <1>10
    <3>. QED
      BY <3>1, <3>2, <3>3 DEF FieldOK
  <2>. QED
    BY <2>1 DEF FieldsOK
<1>12. Alive(w2, C2, K)
  <2>1. \A b \in K : b \in C2 /\ Wosize_hd(w2[b]) > 0
    BY <1>1, <1>10 DEF Alive
  <2>. QED
    BY <2>1, <1>8, <1>9, <1>11 DEF Alive
<1>13. ASSUME NEW c \in C2, c < q PROVE c \in K \/ Tag_hd(w2[c]) = String_tag
  <2>1. CASE c = s
    BY <2>1, <1>4, <1>5, <1>8
  <2>2. CASE c # s
    <3>1. c < s /\ c \in C
      BY <2>2, <1>3, <1>4, <1>7, <1>13
    <3>2. w2[c] = w[c]
      BY <2>2, <3>1, <1>3, <1>8
    <3>. QED
      BY <3>1, <3>2 DEF WipeState
  <2>. QED
    BY <2>1, <2>2
<1>14. ASSUME NEW a \in 0 .. HeapWosize - 1
       PROVE  m2[a] = IF a \in K /\ a >= q THEN with_black(w2[a]) ELSE w2[a]
  <2>1. m2[a] = IF a = s THEN hd ELSE m[a]
    BY DEF WordSet
  <2>2. m[a] = IF a \in K /\ a >= s THEN with_black(w[a]) ELSE w[a]
    BY DEF WipeState
  <2>3. a \in K => (a >= q <=> a >= s)
    BY <1>4
  <2>. QED
    BY <2>1, <2>2, <2>3, <1>4, <1>8
<1>15. q \in C2 \cup {heap_ptr}
  BY <1>4, <1>7
<1>16. WipeState(m2, w2, C2, K, q)
  BY <1>12, <1>13, <1>14, <1>15 DEF WipeState
<1>. QED
  BY <1>16 DEF WipedTo

\* The next block is not: the header of the merged ones is written.
LEMMA EndDeadStep == ASSUME Sound, DeadInv, EndDead PROVE Sound' /\ WipeInv'
<1>1. PICK w, C, K : AtDead(w, C, K)
  BY DEF DeadInv
<1>2. PICK s, q : s = start /\ q = p
  OBVIOUS
<1>3. /\ ctl = "gc" /\ root = 0 /\ WipeState(mem, w, C, K, s) /\ RootsIn(K) /\ StaticKept
      /\ s \in C /\ s < q /\ q \in C \cup {heap_ptr} /\ q - s - 1 < MaxWosize /\ \A c \in K : c < s \/ c >= q
  BY <1>1, <1>2 DEF DeadInv, In, AtDead
<1>4. PICK hd : hd = Make_header(q - s - 1, String_tag, 0)
  OBVIOUS
<1>5. PICK m : Wrote(mem, m, s, hd)
  BY DEF Wrote
<1>6. /\ mem' = m /\ phase' = "wipe" /\ UNCHANGED <<regs, root, p, start, alloc_pos>> /\ Unmoved
      /\ IF q < heap_ptr THEN HdAt(q) /\ h' = mem[q] ELSE h' = h
  <2>1. heap_ptr \in Int /\ q \in Int
    BY <1>2, Bounds DEF Sound
  <2>. QED
    BY <2>1, <1>2, <1>4, <1>5 DEF EndDead, Wrote
<1>7. s \in Int /\ q \in Int /\ InHeap(s) /\ s >= StaticWosize /\ mem \in SizedHeap
  <2>1. Alive(w, C, K)
    BY <1>3 DEF WipeState
  <2>. QED
    BY <2>1, <1>2, <1>3, TiledFacts, Bounds DEF Sound
<1>8. hd \in Sizable
  BY <1>3, <1>4, <1>7, StringHeader
<1>9. m \in SizedHeap /\ WordSet(mem, m, s, hd)
  BY <1>5, <1>7, <1>8, WriteWord
<1>10. PICK w2, C2 : WipeState(m, w2, C2, K, q)
  <2>1. DeadRun(C, K, s, q)
    BY <1>3 DEF DeadRun
  <2>2. WipedTo(m, K, q)
    BY <1>3, <1>4, <1>9, <2>1, Merged
  <2>. QED
    BY <2>2 DEF WipedTo
<1>11. h' \in Sizable /\ (q < heap_ptr => h' = m[q])
  <2>1. q < heap_ptr => q \in 0 .. HeapWosize - 1 /\ m[q] = mem[q]
    <3>1. q < heap_ptr => q \in 0 .. HeapWosize - 1 /\ q # s
      BY <1>3, <1>6, <1>7 DEF HdAt, InHeap
    <3>. QED
      BY <3>1, <1>9 DEF WordSet
  <2>2. q < heap_ptr => mem[q] \in Sizable
    BY <2>1, <1>7 DEF SizedHeap
  <2>. QED
    BY <2>1, <2>2, <1>6 DEF Sound
<1>12. start' \in Int /\ alloc_pos' \in Int /\ p' = q /\ root' = 0 /\ \A a \in 0 .. StaticWosize - 1 : m[a] = mem[a]
  BY <1>2, <1>3, <1>6, <1>9 DEF Sound, WordSet
<1>. QED
  BY <1>3, <1>6, <1>7, <1>9, <1>10, <1>11, <1>12, WipeNext

\* wipe_dead_blocks finds headers where it looks for them.
LEMMA WipeReads == ASSUME Sound PROVE (WipeInv => ~ WipeMisread) /\ (DeadInv => ~ WipeMisread)
<1>1. ASSUME WipeInv, WipeMisread PROVE FALSE
  <2>1. PICK w, C, K : AtWipe(w, C, K)
    BY <1>1 DEF WipeInv
  <2>2. p < heap_ptr /\ ~ IsHd(h)
    BY <1>1 DEF WipeInv, WipeMisread, In
  <2>3. p \in C /\ h = mem[p] /\ WipeState(mem, w, C, K, p) /\ p >= p
    BY <2>1, <2>2, Bounds DEF AtWipe, WipeState, Sound
  <2>. QED
    BY <2>2, <2>3, WipeHeader
<1>2. ASSUME DeadInv, WipeMisread PROVE FALSE
  <2>1. PICK w, C, K : AtDead(w, C, K)
    BY <1>2 DEF DeadInv
  <2>2. p < heap_ptr /\ ~ HdAt(p)
    BY <1>2 DEF DeadInv, WipeMisread, In
  <2>3. p \in C /\ WipeState(mem, w, C, K, start) /\ p >= start /\ Alive(w, C, K)
    BY <2>1, <2>2, Bounds DEF AtDead, WipeState, Sound
  <2>4. IsHd(mem[p]) /\ InHeap(p)
    BY <2>3, WipeHeader, TiledFacts
  <2>. QED
    BY <2>2, <2>4 DEF HdAt
<1>. QED
  BY <1>1, <1>2

-----------------------------------------------------------------------------
(* Threads.  V are the words that were at every address when wiping ended,  *)
(* w those of the heap, R the addresses of the roots, and A the words that  *)
(* are there now.                                                           *)

\* Where there are words: the roots and the heap.
Places(R) == R \cup 0 .. HeapWosize - 1

\* The words that may refer to blocks: the roots and the fields of living blocks.
Scan(w, K, R) == R \cup UNION {FieldsOf(w, b) : b \in {c \in K : Tag_hd(w[c]) < No_scan_tag}}

\* What wiping leaves: living blocks K and dead strings, and references to the living ones.
Frame(V, w, C, K, R) ==
  /\ R = RootSet /\ Alive(w, C, K)
  /\ \A a \in 0 .. HeapWosize - 1 : V[a] = w[a]
  /\ \A l \in R : Value(V[l], K)
  /\ \A c \in C : c \in K \/ Tag_hd(w[c]) = String_tag
  /\ \A a \in (0 .. StaticWosize - 1) \ ToSet(StaticFields) : w[a] = StaticHeap[a + 1]

Words(R, A) == \A l \in Places(R) : A[l] = At(l)

\* The thread of the block at c goes through the words at t[c][1] .. t[c][n[c]], the
\* last one first.  Its first i words begin with ...
HeadWord(V, t, c, i) == IF i = 0 THEN V[c] ELSE Back(t[c][i])

\* Each word of a thread, all from E, has referred to the block, and holds the rest of
\* the thread.
Chains(A, V, K, E, n, t) ==
  \A c \in K :
    /\ n[c] \in Nat
    /\ \A i \in 1 .. n[c] : /\ t[c][i] \in E /\ V[t[c][i]] = Val_dynamic_block(c + 1)
                            /\ A[t[c][i]] = with_red(HeadWord(V, t, c, i - 1))
    /\ \A i, j \in 1 .. n[c] : t[c][i] = t[c][j] => i = j

\* The word at l is in a thread.
Linked(V, n, t, l) == \E i \in 1 .. n[V[l].at - 1] : t[V[l].at - 1][i] = l

\* The references at E are in threads, each of which begins in the place of the block's header.
Threading(A, V, K, R, E, n, t) ==
  /\ Chains(A, V, K, E, n, t)
  /\ \A c \in K : A[c] = HeadWord(V, t, c, n[c])
  /\ \A l \in E : Is_block_in_dynamic_heap(V[l]) => V[l].at - 1 \in K /\ Linked(V, n, t, l)
  /\ \A l \in Places(R) : l \notin K /\ ~ (l \in E /\ Is_block_in_dynamic_heap(V[l])) => A[l] = V[l]
Threaded(A, V, K, R, E) == \E n, t : Threading(A, V, K, R, E, n, t)

\* Where words and references are.
LEMMA FrameFacts ==
  ASSUME Sound, NEW V, NEW w, NEW C, NEW K, NEW R, Frame(V, w, C, K, R)
  PROVE  /\ K \subseteq C /\ C \subseteq 0 .. HeapWosize - 1 /\ R \subseteq Scan(w, K, R)
         /\ \A l \in R : l \in Int /\ l < StaticWosize
         /\ \A l \in Scan(w, K, R) : /\ l \in Places(R) /\ l \in Int /\ l \notin C /\ l < heap_ptr
                                     /\ Into(V[l], K) /\ V[l] \in Word
                                     /\ (l >= StaticWosize => l \in 0 .. HeapWosize - 1)
         /\ \A c \in C : /\ c \in Places(R) /\ c \in Int /\ V[c] = w[c]
                         /\ Tag_hd(w[c]) < No_scan_tag => c \in K /\ FieldsOf(w, c) \subseteq Scan(w, K, R)
<1>1. Alive(w, C, K) /\ K \subseteq C /\ FieldsOK(w, K) /\ R = RootSet
  BY DEF Frame, Alive
<1>2. \A l \in R : l \in Int /\ l < StaticWosize
  BY <1>1, RootsOnce DEF Sound
<1>3. /\ StaticWosize \in Nat /\ HeapWosize \in Nat /\ heap_ptr \in Nat /\ heap_ptr <= HeapWosize
      /\ StaticWosize <= heap_ptr
  BY Bounds
<1>4. \A c \in C : /\ c \in StaticWosize .. heap_ptr - 1 /\ c \in 0 .. HeapWosize - 1 /\ c \in Int
                   /\ Wosize_hd(w[c]) \in Nat
                   /\ FieldsOf(w, c) \subseteq StaticWosize + 1 .. heap_ptr - 1
                   /\ FieldsOf(w, c) \subseteq 1 .. HeapWosize - 1
  BY <1>1, TiledFacts
<1>5. \A c, d \in C : d \notin FieldsOf(w, c)
  BY <1>1, TiledFacts
<1>6. ASSUME NEW l \in Scan(w, K, R)
      PROVE  /\ l \in Places(R) /\ l \in Int /\ l \notin C /\ l < heap_ptr
             /\ Into(V[l], K) /\ V[l] \in Word
             /\ (l >= StaticWosize => l \in 0 .. HeapWosize - 1)
  <2>1. CASE l \in R
    <3>1. Value(V[l], K)
      BY <2>1 DEF Frame
    <3>2. Into(V[l], K) /\ V[l] \in Word
      BY <3>1, ValueInto
    <3>. QED
      BY <2>1, <3>2, <1>2, <1>3, <1>4 DEF Places
  <2>2. CASE l \notin R
    <3>1. PICK b \in K : Tag_hd(w[b]) < No_scan_tag /\ l \in FieldsOf(w, b)
      BY <2>2 DEF Scan
    <3>2. b \in C /\ b \in Int /\ Wosize_hd(w[b]) \in Nat /\ l \in StaticWosize + 1 .. heap_ptr - 1 /\ l \in 1 .. HeapWosize - 1
      BY <3>1, <1>1, <1>4
    <3>3. Into(w[l], K)
      BY <1>1, <3>1, <3>2, FieldInto
    <3>4. l \in 0 .. HeapWosize - 1
      BY <3>2, <1>3
    <3>5. V[l] = w[l] /\ w[l] \in Word
      BY <3>4, <1>1, SizedWords DEF Frame, Alive, SizedHeap
    <3>. QED
      BY <1>3, <1>5, <3>1, <3>2, <3>3, <3>4, <3>5 DEF Places
  <2>. QED
    BY <2>1, <2>2
<1>7. ASSUME NEW c \in C
      PROVE  /\ c \in Places(R) /\ c \in Int /\ V[c] = w[c]
             /\ Tag_hd(w[c]) < No_scan_tag => c \in K /\ FieldsOf(w, c) \subseteq Scan(w, K, R)
  <2>1. c \in Places(R) /\ c \in Int /\ V[c] = w[c]
    BY <1>4 DEF Places, Frame
  <2>2. ASSUME Tag_hd(w[c]) < No_scan_tag PROVE c \in K
    BY <2>2 DEF Frame, String_tag, No_scan_tag
  <2>3. ASSUME Tag_hd(w[c]) < No_scan_tag PROVE FieldsOf(w, c) \subseteq Scan(w, K, R)
    BY <2>2, <2>3 DEF Scan
  <2>. QED
    BY <2>1, <2>2, <2>3
<1>8. R \subseteq Scan(w, K, R)
  BY DEF Scan
<1>. QED
  BY <1>1, <1>2, <1>4, <1>6, <1>7, <1>8

\* A reference to a living block.
LEMMA Reference ==
  ASSUME NEW K, NEW w, Into(w, K), Is_block_in_dynamic_heap(w)
  PROVE  w.at - 1 \in K /\ w = Val_dynamic_block(w.at)
BY DEF Into

\* A word that refers to no block needs no thread.
LEMMA ThreadSkip ==
  ASSUME NEW A, NEW V, NEW K, NEW R, NEW E, Threaded(A, V, K, R, E), NEW l, ~ Is_block_in_dynamic_heap(V[l]),
         NEW E2, E2 = E \cup {l}
  PROVE  Threaded(A, V, K, R, E2)
<1>1. PICK n, t : Threading(A, V, K, R, E, n, t)
  BY DEF Threaded
<1>2. Chains(A, V, K, E2, n, t)
  BY <1>1 DEF Threading, Chains
<1>3. Threading(A, V, K, R, E2, n, t)
  BY <1>1, <1>2 DEF Threading
<1>. QED
  BY <1>3 DEF Threaded

\* What reverse_pointer writes.
ThreadWrites(A, A2, R, l, c) ==
  \A x \in Places(R) : A2[x] = IF x = l THEN with_red(A[c]) ELSE IF x = c THEN Back(l) ELSE A[x]

\* One more word in a thread.
LEMMA AddThread ==
  ASSUME NEW A, NEW V, NEW K, NEW R, NEW E, Threaded(A, V, K, R, E), E \subseteq Places(R), K \subseteq Places(R),
         NEW l \in Places(R), l \notin E, l \notin K, \A x \in E : x \notin K,
         NEW c \in K, V[l] = Val_dynamic_block(c + 1), c \in Int,
         NEW A2, ThreadWrites(A, A2, R, l, c), NEW E2, E2 = E \cup {l}
  PROVE  Threaded(A2, V, K, R, E2)
<1>1. PICK n, t : Threading(A, V, K, R, E, n, t)
  BY DEF Threaded
<1>2. PICK n2 : n2 = [b \in K |-> IF b = c THEN n[b] + 1 ELSE n[b]]
  OBVIOUS
<1>3. PICK t2 : t2 = [b \in K |-> [i \in Int |-> IF b = c /\ i = n[c] + 1 THEN l ELSE t[b][i]]]
  OBVIOUS
<1>4. \A b \in K : n[b] \in Nat
  BY <1>1 DEF Threading, Chains
<1>5. ASSUME NEW b \in K
      PROVE  /\ n2[b] \in Nat
             /\ \A i \in 1 .. n[b] : i \in 1 .. n2[b] /\ t2[b][i] = t[b][i]
             /\ \A i \in 0 .. n[b] : HeadWord(V, t2, b, i) = HeadWord(V, t, b, i)
  <2>1. n2[b] \in Nat /\ \A i \in 1 .. n[b] : i \in 1 .. n2[b] /\ t2[b][i] = t[b][i]
    <3>1. n[b] \in Nat /\ (n2[b] = n[b] \/ n2[b] = n[b] + 1)
      BY <1>2, <1>4
    <3>2. ASSUME NEW i \in 1 .. n[b] PROVE i \in 1 .. n2[b] /\ i \in Int /\ i # n[b] + 1
      BY <3>1
    <3>3. ASSUME NEW i \in 1 .. n[b] PROVE t2[b][i] = t[b][i]
      <4>1. t2[b] = [j \in Int |-> IF b = c /\ j = n[c] + 1 THEN l ELSE t[b][j]]
        BY <1>3
      <4>. QED
        BY <4>1, <3>2
    <3>. QED
      BY <3>1, <3>2, <3>3
  <2>2. \A i \in 0 .. n[b] : i = 0 \/ i \in 1 .. n[b]
    BY <1>4
  <2>. QED
    BY <2>1, <2>2 DEF HeadWord
<1>6. /\ n2[c] = n[c] + 1 /\ n2[c] \in 1 .. n2[c] /\ n2[c] # 0 /\ t2[c][n2[c]] = l /\ HeadWord(V, t2, c, n2[c]) = Back(l)
      /\ \A i \in 1 .. n2[c] : i \in 1 .. n[c] \/ i = n2[c]
  BY <1>2, <1>3, <1>4 DEF HeadWord
<1>7. \A b \in K : b # c => n2[b] = n[b]
  BY <1>2
<1>8. \A x \in E : x # l /\ x # c /\ A2[x] = A[x]
  BY DEF ThreadWrites
<1>9. A2[l] = with_red(HeadWord(V, t, c, n[c]))
  <2>1. A[c] = HeadWord(V, t, c, n[c])
    BY <1>1 DEF Threading
  <2>. QED
    BY <2>1 DEF ThreadWrites
<1>10. ASSUME NEW b \in K, NEW i \in 1 .. n[b]
       PROVE  t2[b][i] \in E /\ V[t2[b][i]] = Val_dynamic_block(b + 1) /\ A2[t2[b][i]] = with_red(HeadWord(V, t2, b, i - 1))
  <2>1. t[b][i] \in E /\ V[t[b][i]] = Val_dynamic_block(b + 1) /\ A[t[b][i]] = with_red(HeadWord(V, t, b, i - 1))
    BY <1>1 DEF Threading, Chains
  <2>2. i - 1 \in 0 .. n[b]
    BY <1>4
  <2>. QED
    BY <2>1, <2>2, <1>5, <1>8
<1>11. Chains(A2, V, K, E2, n2, t2)
  <2>1. ASSUME NEW b \in K
        PROVE  /\ n2[b] \in Nat
               /\ \A i \in 1 .. n2[b] : /\ t2[b][i] \in E2 /\ V[t2[b][i]] = Val_dynamic_block(b + 1)
                                        /\ A2[t2[b][i]] = with_red(HeadWord(V, t2, b, i - 1))
               /\ \A i, j \in 1 .. n2[b] : t2[b][i] = t2[b][j] => i = j
    <3>1. \A i, j \in 1 .. n[b] : t2[b][i] = t2[b][j] => i = j
      <4>1. \A i, j \in 1 .. n[b] : t[b][i] = t[b][j] => i = j
        BY <1>1 DEF Threading, Chains
      <4>2. \A i \in 1 .. n[b] : t2[b][i] = t[b][i]
        BY <1>5
      <4>. QED
        BY <4>1, <4>2
    <3>2. CASE b = c
      <4>1. n2[c] - 1 = n[c] /\ HeadWord(V, t2, c, n[c]) = HeadWord(V, t, c, n[c])
        BY <1>4, <1>5, <1>6
      <4>. QED
        BY <3>1, <3>2, <4>1, <1>5, <1>6, <1>8, <1>9, <1>10
    <3>3. CASE b # c
      BY <3>1, <3>3, <1>5, <1>7, <1>10
    <3>. QED
      BY <3>2, <3>3
  <2>. QED
    BY <2>1 DEF Chains
<1>12. ASSUME NEW b \in K PROVE A2[b] = HeadWord(V, t2, b, n2[b])
  <2>1. CASE b = c
    BY <2>1, <1>6 DEF ThreadWrites
  <2>2. CASE b # c
    <3>1. A2[b] = A[b] /\ A[b] = HeadWord(V, t, b, n[b])
      BY <2>2, <1>1 DEF ThreadWrites, Threading
    <3>2. n[b] \in 0 .. n[b]
      BY <1>4
    <3>. QED
      BY <3>1, <3>2, <2>2, <1>5, <1>7
  <2>. QED
    BY <2>1, <2>2
<1>13. ASSUME NEW x \in E2, Is_block_in_dynamic_heap(V[x]) PROVE V[x].at - 1 \in K /\ Linked(V, n2, t2, x)
  <2>1. CASE x = l
    <3>1. V[l].at - 1 = c
      BY DEF Val_dynamic_block
    <3>. QED
      BY <2>1, <3>1, <1>6 DEF Linked
  <2>2. CASE x # l
    <3>1. PICK b : b = V[x].at - 1
      OBVIOUS
    <3>2. b \in K /\ \E i \in 1 .. n[b] : t[b][i] = x
      BY <2>2, <3>1, <1>1, <1>13 DEF Threading, Linked
    <3>. QED
      BY <3>1, <3>2, <1>5 DEF Linked
  <2>. QED
    BY <2>1, <2>2
<1>14. \A x \in Places(R) : x \notin K /\ ~ (x \in E2 /\ Is_block_in_dynamic_heap(V[x])) => A2[x] = V[x]
  <2>1. Is_block_in_dynamic_heap(V[l])
    BY DEF Val_dynamic_block, Is_block_in_dynamic_heap
  <2>. QED
    BY <2>1, <1>1 DEF Threading, ThreadWrites
<1>15. Threading(A2, V, K, R, E2, n2, t2)
  BY <1>11, <1>12, <1>13, <1>14 DEF Threading
<1>. QED
  BY <1>15 DEF Threaded

\* A store of a sized word in a memory of sized words.
LEMMA PutWords ==
  ASSUME Sound, NEW R, R = RootSet, NEW a \in Places(R), NEW w \in Sizable, NEW m \in SizedHeap, Put(a, w, m)
  PROVE  /\ mem' \in SizedHeap /\ SizedRegs(acc', env', stack', globals')
         /\ Len(stack') = Len(stack) /\ Len(globals') = Len(globals)
         /\ \A l \in Places(R) : At(l)' = IF l = a THEN w ELSE IF l >= 0 THEN m[l] ELSE At(l)
<1>1. VMTypeOK /\ StaticWosize \in Nat /\ HeapWosize \in Nat /\ StaticWosize <= HeapWosize
  BY Bounds DEF Sound
<1>2. \A l \in R : l \in Int /\ l < StaticWosize
  BY <1>1, RootsOnce
<1>3. a \in Int /\ (a \in RootSet \/ a \in 0 .. HeapWosize - 1) /\ (a >= 0 => a \in 0 .. HeapWosize - 1)
  BY <1>1, <1>2 DEF Places
<1>4. m \in Memories
  BY SizedWords
<1>5. /\ \A b \in RootSet : At(b)' = IF b = a THEN w ELSE IF b >= 0 THEN m[b] ELSE At(b)
      /\ \A c \in 0 .. HeapWosize - 1 : mem'[c] = IF c = a THEN w ELSE m[c]
      /\ Len(stack') = Len(stack) /\ Len(globals') = Len(globals)
  BY <1>1, <1>3, <1>4, PutAt
<1>6. mem' \in SizedHeap
  BY <1>3 DEF Put, SizedHeap
<1>7. acc' \in Sizable /\ env' \in Sizable
  BY DEF Put, Sound, SizedRegs
<1>8. stack' \in Seq(Sizable)
  <2>1. stack \in Seq(Sizable) /\ Len(stack) \in Nat
    BY DEF Sound, SizedRegs
  <2>2. stack' \in [1 .. Len(stack) -> Sizable]
    BY <2>1 DEF Put
  <2>. QED
    BY <2>1, <2>2, FunctionSeq
<1>9. globals' \in Seq(Sizable)
  <2>1. globals \in Seq(Sizable) /\ Len(globals) \in Nat
    BY DEF Sound, SizedRegs
  <2>2. globals' \in [1 .. Len(globals) -> Sizable]
    BY <2>1 DEF Put
  <2>. QED
    BY <2>1, <2>2, FunctionSeq
<1>10. ASSUME NEW l \in Places(R) PROVE At(l)' = IF l = a THEN w ELSE IF l >= 0 THEN m[l] ELSE At(l)
  <2>1. CASE l \in RootSet
    BY <2>1, <1>5
  <2>2. CASE l \in 0 .. HeapWosize - 1
    <3>1. l >= 0 /\ At(l)' = mem'[l]
      BY <2>2, <1>1 DEF At
    <3>. QED
      BY <2>2, <3>1, <1>5
  <2>. QED
    BY <2>1, <2>2 DEF Places
<1>. QED
  BY <1>5, <1>6, <1>7, <1>8, <1>9, <1>10 DEF SizedRegs

\* Threads, when the references at E have been reversed.
ThreadState(V, w, C, K, R, E) ==
  Frame(V, w, C, K, R) /\ E \subseteq Scan(w, K, R) /\ \E A : Words(R, A) /\ Threaded(A, V, K, R, E)

\* The frame does not move.
LEMMA FrameNext ==
  ASSUME UNCHANGED heap_ptr, RootSet' = RootSet,
         NEW V, NEW w, NEW C, NEW K, NEW R, Frame(V, w, C, K, R)
  PROVE  Frame(V, w, C, K, R)'
BY DEF Frame, Alive, SizedHeap, Sizable, HeapWosize, StaticWosize

\* The words of memory, when nothing is written.
LEMMA WordsNext ==
  ASSUME UNCHANGED <<mem, regs>>, NEW R, NEW A, Words(R, A)
  PROVE  Words(R, A)'
BY DEF Words, regs, At, Places, HeapWosize, StaticWosize

\* Threads of words that the collector scans.
ChainsIn(A, V, w, C, K, R, E, n, t) ==
  Frame(V, w, C, K, R) /\ E \subseteq Scan(w, K, R) /\ Chains(A, V, K, E, n, t)

\* What a thread begins with: a header or a link.
LEMMA HeadWords ==
  ASSUME Sound, NEW V, NEW w, NEW C, NEW K, NEW R, NEW A, NEW E, NEW n, NEW t, ChainsIn(A, V, w, C, K, R, E, n, t),
         NEW c \in K, NEW i \in 0 .. n[c], NEW hd, hd = HeadWord(V, t, c, i)
  PROVE  /\ hd \in Sizable /\ with_red(hd) \in Sizable /\ without_red(with_red(hd)) = hd
         /\ IF i = 0 THEN hd = V[c] /\ WhiteHeader(V[c])
            ELSE t[c][i] \in E /\ t[c][i] \in Int /\ t[c][i] \in Places(R) /\ hd = Back(t[c][i])
<1>. USE DEF ChainsIn
<1>1. Alive(w, C, K) /\ c \in C /\ V[c] = w[c] /\ WhiteHeader(V[c])
  <2>1. Alive(w, C, K) /\ c \in C /\ V[c] = w[c]
    BY FrameFacts DEF Frame
  <2>. QED
    BY <2>1, TiledFacts
<1>2. n[c] \in Nat
  BY DEF Chains
<1>3. CASE i = 0
  BY <1>1, <1>3, HeaderColours DEF HeadWord, WhiteHeader
<1>4. CASE i # 0
  <2>1. i \in 1 .. n[c]
    BY <1>2, <1>4
  <2>2. t[c][i] \in E
    BY <2>1 DEF Chains
  <2>3. t[c][i] \in Int /\ t[c][i] \in Places(R)
    BY <2>2, FrameFacts
  <2>4. hd = Back(t[c][i])
    BY <1>4 DEF HeadWord
  <2>. QED
    BY <1>4, <2>2, <2>3, <2>4, LinkColours
<1>. QED
  BY <1>3, <1>4

\* A reference is reversed: one more word is in a thread.
LEMMA ReverseStep ==
  ASSUME Sound, ctl = "gc", Unmoved, NEW V, NEW w, NEW C, NEW K, NEW R, NEW E, ThreadState(V, w, C, K, R, E),
         NEW l \in Scan(w, K, R), l \notin E, reverse_pointer(l), NEW E2, E2 = E \cup {l},
         h' \in Sizable, root' \in 0 .. Len(Roots) + 1, p' \in Int, start' \in Int, alloc_pos' \in Int
  PROVE  Sound' /\ Roots' = Roots /\ ThreadState(V, w, C, K, R, E2)'
<1>1. Frame(V, w, C, K, R) /\ E \subseteq Scan(w, K, R) /\ E2 \subseteq Scan(w, K, R) /\ R = RootSet
  BY DEF ThreadState, Frame
<1>2. PICK A : Words(R, A) /\ Threaded(A, V, K, R, E)
  BY DEF ThreadState
<1>3. PICK n, t : Threading(A, V, K, R, E, n, t)
  BY <1>2 DEF Threaded
<1>4. /\ l \in Places(R) /\ l \in Int /\ l \notin K /\ Into(V[l], K)
      /\ K \subseteq Places(R) /\ K \subseteq C /\ E \subseteq Places(R) /\ \A x \in E : x \notin K
      /\ \A c \in K : c \in Int /\ c \in 0 .. HeapWosize - 1
  BY <1>1, FrameFacts
<1>5. At(l) = V[l]
  BY <1>2, <1>3, <1>4 DEF Words, Threading
<1>6. /\ heap_ptr' = heap_ptr /\ heap_ptr' \in Nat /\ heap_ptr' >= StaticWosize /\ heap_ptr' <= heap_end
      /\ UNCHANGED <<heap_end, pend>> /\ ctl' \in {"gc", "done"}
  BY Bounds DEF Unmoved
<1>7. CASE ~ Is_block_in_dynamic_heap(V[l])
  <2>1. UNCHANGED <<mem, regs>>
    BY <1>5, <1>7 DEF reverse_pointer
  <2>2. Words(R, A)'
    BY <1>2, <2>1, WordsNext
  <2>3. mem' \in SizedHeap /\ SizedRegs(acc', env', stack', globals') /\ Len(stack') = Len(stack) /\ Len(globals') = Len(globals)
    BY <2>1 DEF Sound, regs
  <2>4. Sound' /\ Roots' = Roots /\ RootSet' = RootSet
    BY <2>3, <1>6, SteppedSound
  <2>5. Frame(V, w, C, K, R)'
    BY <1>1, <1>6, <2>4, FrameNext
  <2>6. Threaded(A, V, K, R, E2)
    BY <1>2, <1>7, ThreadSkip
  <2>7. Threaded(A, V, K, R, E2)'
    BY <2>6 DEF Threaded, Threading, Places, HeapWosize, StaticWosize
  <2>. QED
    BY <2>2, <2>4, <2>5, <2>7, <1>1 DEF ThreadState
<1>8. CASE Is_block_in_dynamic_heap(V[l])
  <2>1. PICK c : c = V[l].at - 1
    OBVIOUS
  <2>2. c \in K /\ c \in Int /\ V[l] = Val_dynamic_block(c + 1) /\ V[l].at - 1 = c
    <3>1. c \in K /\ V[l] = Val_dynamic_block(V[l].at)
      BY <1>4, <1>8, <2>1, Reference
    <3>2. V[l].at \in Int
      BY <1>8, FrameFacts, PointerOf, <1>1
    <3>. QED
      BY <3>1, <3>2, <2>1
  <2>3. A[c] = HeadWord(V, t, c, n[c]) /\ Chains(A, V, K, E, n, t) /\ n[c] \in 0 .. n[c]
    BY <1>3, <2>2 DEF Threading, Chains
  <2>4. PICK hd : hd = A[c]
    OBVIOUS
  <2>5. with_red(hd) \in Sizable
    <3>1. PICK i : i = n[c]
      OBVIOUS
    <3>2. i \in 0 .. n[c] /\ hd = HeadWord(V, t, c, i)
      BY <2>3, <2>4, <3>1
    <3>3. ChainsIn(A, V, w, C, K, R, E, n, t)
      BY <1>1, <2>3 DEF ChainsIn
    <3>. QED
      BY <2>2, <3>2, <3>3, HeadWords
  <2>6. c \in 0 .. HeapWosize - 1 /\ c \in Places(R) /\ c >= 0 /\ c # l
    BY <1>4, <2>2
  <2>7. mem[c] = hd
    BY <1>2, <2>4, <2>6 DEF Words, At
  <2>8. PICK m : m = [mem EXCEPT ![c] = Back(l)]
    OBVIOUS
  <2>9. m \in SizedHeap /\ \A a \in 0 .. HeapWosize - 1 : m[a] = IF a = c THEN Back(l) ELSE mem[a]
    <3>1. Back(l) \in Sizable
      BY <1>4, LinkColours
    <3>2. mem \in [0 .. HeapWosize - 1 -> Sizable]
      BY Bounds DEF SizedHeap
    <3>. QED
      BY <2>8, <3>1, <3>2 DEF SizedHeap
  <2>10. Put(l, with_red(hd), m)
    BY <1>5, <1>8, <2>2, <2>7, <2>8 DEF reverse_pointer, Hd_val
  <2>11. /\ mem' \in SizedHeap /\ SizedRegs(acc', env', stack', globals')
         /\ Len(stack') = Len(stack) /\ Len(globals') = Len(globals)
         /\ \A x \in Places(R) : At(x)' = IF x = l THEN with_red(hd) ELSE IF x >= 0 THEN m[x] ELSE At(x)
    BY <1>1, <1>4, <2>5, <2>9, <2>10, PutWords
  <2>12. Sound' /\ Roots' = Roots /\ RootSet' = RootSet
    BY <2>11, <1>6, SteppedSound
  <2>13. Frame(V, w, C, K, R)'
    BY <1>1, <1>6, <2>12, FrameNext
  <2>14. PICK A2 : A2 = [x \in Places(R) |-> IF x = l THEN with_red(hd) ELSE IF x = c THEN Back(l) ELSE A[x]]
    OBVIOUS
  <2>15. ThreadWrites(A, A2, R, l, c)
    BY <2>4, <2>14 DEF ThreadWrites
  <2>16. ASSUME NEW x \in Places(R) PROVE A2[x] = At(x)'
    <3>1. A[x] = At(x)
      BY <1>2 DEF Words
    <3>2. x \in RootSet \/ x \in 0 .. HeapWosize - 1
      BY <1>1 DEF Places
    <3>3. x \in Int /\ (x >= 0 => x \in 0 .. HeapWosize - 1)
      <4>1. \A y \in R : y \in Int /\ y < StaticWosize
        BY <1>1, FrameFacts
      <4>. QED
        BY <3>2, <4>1, <1>1, Bounds
    <3>4. x >= 0 => At(x) = mem[x]
      BY DEF At
    <3>. QED
      BY <2>6, <2>9, <2>11, <2>14, <3>1, <3>3, <3>4
  <2>17. Words(R, A2)'
    BY <2>16 DEF Words, Places, HeapWosize, StaticWosize
  <2>18. Threaded(A2, V, K, R, E2)
    BY <1>2, <1>4, <2>2, <2>15, AddThread
  <2>19. Threaded(A2, V, K, R, E2)'
    BY <2>18 DEF Threaded, Threading, Places, HeapWosize, StaticWosize
  <2>. QED
    BY <2>12, <2>13, <2>17, <2>19, <1>1 DEF ThreadState
<1>. QED
  BY <1>7, <1>8

\* A step of gc() that writes nothing.
LEMMA QuietStep ==
  ASSUME Sound, ctl = "gc", UNCHANGED vmvars,
         h' \in Sizable, root' \in 0 .. Len(Roots) + 1, p' \in Int, start' \in Int, alloc_pos' \in Int
  PROVE  /\ Sound' /\ Roots' = Roots /\ RootSet' = RootSet /\ ctl' = "gc" /\ heap_ptr' = heap_ptr
         /\ UNCHANGED <<mem, regs>>
<1>1. /\ UNCHANGED <<mem, heap_ptr, heap_end, acc, env, stack, globals, pend, ctl>>
  BY DEF vmvars
<1>2. /\ mem' \in SizedHeap /\ SizedRegs(acc', env', stack', globals') /\ Len(stack') = Len(stack) /\ Len(globals') = Len(globals)
      /\ heap_ptr' \in Nat /\ heap_ptr' >= StaticWosize /\ heap_ptr' <= heap_end /\ ctl' \in {"gc", "done"}
  BY <1>1, Bounds DEF Sound
<1>3. Sound' /\ Roots' = Roots /\ RootSet' = RootSet
  BY <1>1, <1>2, SteppedSound
<1>. QED
  BY <1>1, <1>3 DEF regs

\* ... and so reverses no reference.
LEMMA ThreadsKept ==
  ASSUME UNCHANGED <<mem, regs, heap_ptr>>, RootSet' = RootSet,
         NEW V, NEW w, NEW C, NEW K, NEW R, NEW E, ThreadState(V, w, C, K, R, E)
  PROVE  ThreadState(V, w, C, K, R, E)'
<1>1. Frame(V, w, C, K, R) /\ E \subseteq Scan(w, K, R)
  BY DEF ThreadState
<1>2. PICK A : Words(R, A) /\ Threaded(A, V, K, R, E)
  BY DEF ThreadState
<1>3. Frame(V, w, C, K, R)'
  BY <1>1, FrameNext
<1>4. Words(R, A)'
  BY <1>2, WordsNext
<1>5. Threaded(A, V, K, R, E)'
  BY <1>2 DEF Threaded, Threading, Places, HeapWosize, StaticWosize
<1>. QED
  BY <1>1, <1>3, <1>4, <1>5 DEF ThreadState

\* The first k roots; the words to scan below the address q.
RootsTo(k) == {Roots[i] : i \in 1 .. k}
ScanTo(w, K, R, q) == {l \in Scan(w, K, R) : l < q}

RootsInv ==
  /\ In("roots") /\ root \in 1 .. Len(Roots) + 1
  /\ \E V, w, C, K, R : ThreadState(V, w, C, K, R, RootsTo(root - 1))
ReverseInv ==
  /\ In("reverse") /\ root = 0
  /\ \E V, w, C, K, R : ThreadState(V, w, C, K, R, ScanTo(w, K, R, p)) /\ p \in C \cup {heap_ptr}

\* The loop is at the word hd, or at the header, of the thread of the block at c.
OnThread(V, K, n, t, c, hd) ==
  \/ hd \in {V[c], with_red(V[c])}
  \/ c \in K /\ \E i \in 1 .. n[c] : hd \in {Back(t[c][i]), with_red(Back(t[c][i]))}
AtThread(V, w, C, K, R, A, n, t) ==
  /\ Frame(V, w, C, K, R) /\ Words(R, A) /\ Threading(A, V, K, R, ScanTo(w, K, R, p), n, t)
  /\ p \in C /\ OnThread(V, K, n, t, p, h)
ThreadInv ==
  In("thread") /\ root = 0 /\ \E V, w, C, K, R, A, n, t : AtThread(V, w, C, K, R, A, n, t)

\* The loop is in the fields of the living block at c.
AtFields(w, C, K, c) ==
  /\ c \in K /\ Tag_hd(w[c]) < No_scan_tag /\ start = c + Wosize_hd(w[c]) + 1 /\ p \in c + 1 .. start
FieldsInv ==
  /\ In("fields") /\ root = 0
  /\ \E V, w, C, K, R : ThreadState(V, w, C, K, R, ScanTo(w, K, R, p)) /\ \E c : AtFields(w, C, K, c)

\* After wiping nothing is in a thread.
LEMMA WipeDoneStep == ASSUME Sound, WipeInv, WipeDone PROVE Sound' /\ RootsInv'
<1>1. PICK w, C, K : AtWipe(w, C, K)
  BY DEF WipeInv
<1>2. /\ ctl = "gc" /\ p >= heap_ptr /\ phase' = "roots" /\ root' = 1 /\ h' = Undef /\ p' = 0
      /\ UNCHANGED vmvars /\ UNCHANGED <<start, alloc_pos>>
  BY DEF WipeDone, In
<1>3. WipeState(mem, w, C, K, p) /\ RootsIn(K) /\ StaticKept /\ Alive(w, C, K)
  BY <1>1 DEF AtWipe, WipeState
<1>4. /\ StaticWosize \in Nat /\ HeapWosize \in Nat /\ heap_ptr \in Nat /\ Len(Roots) \in Nat /\ p \in Int
      /\ StaticWosize <= HeapWosize
  BY Bounds DEF Sound
<1>5. \A c \in C : c \in Int /\ c < heap_ptr /\ c \in 0 .. HeapWosize - 1
  BY <1>3, <1>4, TiledFacts
<1>6. K \subseteq C
  BY <1>3 DEF Alive
<1>7. \A a \in 0 .. HeapWosize - 1 : mem[a] = w[a]
  <2>1. \A a \in K : ~ a >= p
    BY <1>2, <1>4, <1>5, <1>6
  <2>. QED
    BY <1>3, <2>1 DEF WipeState
<1>8. PICK R : R = RootSet
  OBVIOUS
<1>9. PICK V : V = [l \in Places(R) |-> At(l)]
  OBVIOUS
<1>10. \A a \in 0 .. HeapWosize - 1 : a \in Places(R) /\ V[a] = w[a]
  <2>1. ASSUME NEW a \in 0 .. HeapWosize - 1 PROVE a \in Places(R) /\ At(a) = mem[a]
    BY <2>1, <1>4 DEF Places, At
  <2>. QED
    BY <2>1, <1>7, <1>9
<1>11. Frame(V, w, C, K, R)
  <2>1. \A l \in R : Value(V[l], K)
    BY <1>3, <1>8, <1>9 DEF RootsIn, Places
  <2>2. \A c \in C : c \in K \/ Tag_hd(w[c]) = String_tag
    BY <1>2, <1>3, <1>4, <1>5 DEF WipeState
  <2>3. \A a \in (0 .. StaticWosize - 1) \ ToSet(StaticFields) : w[a] = StaticHeap[a + 1]
    BY <1>3, <1>4, <1>7 DEF StaticKept
  <2>. QED
    BY <1>3, <1>8, <1>10, <2>1, <2>2, <2>3 DEF Frame
<1>12. Words(R, V)
  BY <1>9 DEF Words
<1>13. PICK n, t : n = [c \in K |-> 0] /\ t = [c \in K |-> << >>]
  OBVIOUS
<1>14. Threading(V, V, K, R, {}, n, t)
  <2>1. \A c \in K : n[c] = 0 /\ HeadWord(V, t, c, n[c]) = V[c]
    BY <1>13 DEF HeadWord
  <2>2. Chains(V, V, K, {}, n, t)
    BY <2>1 DEF Chains
  <2>. QED
    BY <2>1, <2>2 DEF Threading
<1>15. ThreadState(V, w, C, K, R, {})
  BY <1>11, <1>12, <1>14 DEF ThreadState, Threaded
<1>16. Sound' /\ Roots' = Roots /\ RootSet' = RootSet /\ ctl' = "gc" /\ UNCHANGED <<mem, regs, heap_ptr>>
  <2>1. h' \in Sizable /\ root' \in 0 .. Len(Roots) + 1 /\ p' \in Int /\ start' \in Int /\ alloc_pos' \in Int
    BY <1>2, <1>4, UndefSizable DEF Sound
  <2>. QED
    BY <2>1, <1>2, QuietStep
<1>17. ThreadState(V, w, C, K, R, {})'
  BY <1>15, <1>16, ThreadsKept
<1>18. RootsTo(root - 1)' = {} /\ root' \in 1 .. Len(Roots') + 1
  BY <1>2, <1>4, <1>16 DEF RootsTo
<1>19. ThreadState(V, w, C, K, R, RootsTo(root - 1))'
  BY <1>17, <1>18 DEF ThreadState
<1>. QED
  BY <1>2, <1>16, <1>18, <1>19 DEF RootsInv, In

\* reverse_root_pointers reverses one more root.
LEMMA ReverseRootStep == ASSUME Sound, RootsInv, ReverseRoot PROVE Sound' /\ RootsInv'
<1>1. PICK V, w, C, K, R : ThreadState(V, w, C, K, R, RootsTo(root - 1))
  BY DEF RootsInv
<1>2. PICK r : r = root
  OBVIOUS
<1>3. PICK E : E = RootsTo(r - 1)
  OBVIOUS
<1>4. PICK l : l = Roots[r]
  OBVIOUS
<1>5. /\ ctl = "gc" /\ r \in 1 .. Len(Roots) /\ Len(Roots) \in Nat /\ reverse_pointer(l) /\ root' = r + 1
      /\ UNCHANGED <<phase, p, h, start, alloc_pos>> /\ Unmoved /\ phase = "roots"
  BY <1>2, <1>4, Bounds DEF RootsInv, ReverseRoot, In
<1>6. ThreadState(V, w, C, K, R, E) /\ Frame(V, w, C, K, R) /\ R = RootSet
  BY <1>1, <1>2, <1>3 DEF ThreadState, Frame
<1>7. l \in Scan(w, K, R) /\ l \notin E
  <2>1. Roots \in Seq(Int) /\ ToSet(Roots) = RootSet /\ Distinct(Roots)
    BY RootsOnce DEF Sound
  <2>2. l \in RootSet
    BY <2>1, <1>4, <1>5, SeqElements
  <2>3. l \in Scan(w, K, R)
    BY <2>2, <1>6 DEF Scan
  <2>4. \A i \in 1 .. r - 1 : i \in 1 .. Len(Roots) /\ i # r
    BY <1>5
  <2>5. \A i \in 1 .. r - 1 : Roots[i] # l
    BY <2>1, <2>4, <1>4, <1>5 DEF Distinct
  <2>. QED
    BY <2>3, <2>5, <1>3 DEF RootsTo
<1>8. PICK E2 : E2 = E \cup {l}
  OBVIOUS
<1>9. Sound' /\ Roots' = Roots /\ ThreadState(V, w, C, K, R, E2)'
  <2>1. h' \in Sizable /\ root' \in 0 .. Len(Roots) + 1 /\ p' \in Int /\ start' \in Int /\ alloc_pos' \in Int
    BY <1>5 DEF Sound
  <2>. QED
    BY <1>5, <1>6, <1>7, <1>8, <2>1, ReverseStep
<1>10. E2 = RootsTo(root - 1)' /\ root' \in 1 .. Len(Roots') + 1
  <2>1. root' - 1 = r /\ root' \in 1 .. Len(Roots') + 1
    BY <1>5, <1>9
  <2>2. \A i \in 1 .. r : i \in 1 .. r - 1 \/ i = r
    BY <1>5
  <2>3. \A i \in 1 .. r - 1 : i \in 1 .. r
    BY <1>5
  <2>4. RootsTo(root - 1)' = {Roots[i] : i \in 1 .. r}
    BY <2>1, <1>9 DEF RootsTo
  <2>5. r \in 1 .. r
    BY <1>5
  <2>. QED
    BY <2>1, <2>2, <2>3, <2>4, <2>5, <1>3, <1>4, <1>8 DEF RootsTo
<1>11. ThreadState(V, w, C, K, R, RootsTo(root - 1))'
  BY <1>9, <1>10 DEF ThreadState
<1>. QED
  BY <1>5, <1>9, <1>10, <1>11 DEF RootsInv, In, Unmoved

\* The roots have been reversed.
LEMMA RootsDoneStep == ASSUME Sound, RootsInv, RootsDone PROVE Sound' /\ ReverseInv'
<1>1. PICK V, w, C, K, R : ThreadState(V, w, C, K, R, RootsTo(root - 1))
  BY DEF RootsInv
<1>2. /\ ctl = "gc" /\ root > Len(Roots) /\ phase' = "reverse" /\ p' = StaticWosize /\ alloc_pos' = StaticWosize
      /\ root' = 0 /\ UNCHANGED vmvars /\ UNCHANGED <<h, start>>
  BY DEF RootsDone, In, FirstBlock
<1>3. Len(Roots) \in Nat /\ StaticWosize \in Nat /\ root \in 1 .. Len(Roots) + 1
  BY Bounds DEF RootsInv
<1>4. PICK E : E = RootsTo(root - 1)
  OBVIOUS
<1>5. ThreadState(V, w, C, K, R, E) /\ Frame(V, w, C, K, R) /\ R = RootSet /\ Alive(w, C, K)
  BY <1>1, <1>4 DEF ThreadState, Frame
<1>6. E = ScanTo(w, K, R, StaticWosize)
  <2>1. Roots \in Seq(Int) /\ ToSet(Roots) = R
    BY <1>5, RootsOnce DEF Sound
  <2>2. root - 1 = Len(Roots)
    BY <1>2, <1>3
  <2>3. E = R
    BY <1>4, <2>1, <2>2, SeqElements DEF RootsTo
  <2>4. \A l \in R : l \in Int /\ l < StaticWosize /\ l \in Scan(w, K, R)
    BY <1>5, FrameFacts
  <2>5. ASSUME NEW l \in Scan(w, K, R), l < StaticWosize PROVE l \in R
    <3>1. ASSUME NEW b \in K PROVE l \notin FieldsOf(w, b)
      <4>1. b \in C
        BY <1>5 DEF Alive
      <4>2. FieldsOf(w, b) \subseteq StaticWosize + 1 .. heap_ptr - 1
        BY <1>5, <4>1, TiledFacts
      <4>3. heap_ptr \in Int
        BY Bounds
      <4>. QED
        BY <4>2, <4>3, <1>3, <2>5
    <3>. QED
      BY <3>1, <2>5 DEF Scan
  <2>. QED
    BY <2>3, <2>4, <2>5 DEF ScanTo
<1>7. Sound' /\ RootSet' = RootSet /\ ctl' = "gc" /\ UNCHANGED <<mem, regs, heap_ptr>>
  <2>1. h' \in Sizable /\ root' \in 0 .. Len(Roots) + 1 /\ p' \in Int /\ start' \in Int /\ alloc_pos' \in Int
    BY <1>2, <1>3 DEF Sound
  <2>. QED
    BY <2>1, <1>2, QuietStep
<1>8. ThreadState(V, w, C, K, R, E)'
  BY <1>5, <1>7, ThreadsKept
<1>9. ThreadState(V, w, C, K, R, ScanTo(w, K, R, p))'
  <2>1. E = ScanTo(w, K, R, p')
    BY <1>2, <1>6
  <2>. QED
    BY <2>1, <1>8 DEF ThreadState
<1>10. p' \in C \cup {heap_ptr}'
  BY <1>2, <1>5, <1>7, TiledFacts
<1>. QED
  BY <1>2, <1>7, <1>9, <1>10 DEF ReverseInv, In

\* reverse_heap_pointers looks for the header of the block at p.
LEMMA OpenThreadStep == ASSUME Sound, ReverseInv, OpenThread PROVE Sound' /\ ThreadInv'
<1>1. PICK V, w, C, K, R : ThreadState(V, w, C, K, R, ScanTo(w, K, R, p)) /\ p \in C \cup {heap_ptr}
  BY DEF ReverseInv
<1>2. PICK q : q = p
  OBVIOUS
<1>3. /\ ctl = "gc" /\ root = 0 /\ q < heap_ptr /\ phase' = "thread" /\ h' = mem[q] /\ p' = q /\ root' = root
      /\ UNCHANGED vmvars /\ UNCHANGED <<start, alloc_pos>>
  BY <1>2 DEF ReverseInv, OpenThread, In
<1>4. PICK E : E = ScanTo(w, K, R, q)
  OBVIOUS
<1>5. PICK A, n, t : Words(R, A) /\ Threading(A, V, K, R, E, n, t)
  BY <1>1, <1>2, <1>4 DEF ThreadState, Threaded
<1>6. Frame(V, w, C, K, R) /\ E \subseteq Scan(w, K, R)
  BY <1>1, <1>2, <1>4 DEF ThreadState
<1>7. q \in C /\ q \in Int /\ q \in Places(R) /\ q \in 0 .. HeapWosize - 1 /\ \A l \in E : l # q
  <2>1. q \in C
    BY <1>1, <1>2, <1>3, Bounds
  <2>. QED
    BY <2>1, <1>6, FrameFacts
<1>8. h' = A[q] /\ h' \in Sizable
  BY <1>3, <1>5, <1>7, Bounds DEF Words, At, SizedHeap
<1>9. Sound' /\ RootSet' = RootSet /\ ctl' = "gc" /\ UNCHANGED <<mem, regs, heap_ptr>>
  <2>1. h' \in Sizable /\ root' \in 0 .. Len(Roots) + 1 /\ p' \in Int /\ start' \in Int /\ alloc_pos' \in Int
    BY <1>3, <1>7, <1>8 DEF Sound
  <2>. QED
    BY <2>1, <1>3, QuietStep
<1>10. OnThread(V, K, n, t, q, A[q])
  <2>1. CASE q \in K
    <3>1. A[q] = HeadWord(V, t, q, n[q]) /\ n[q] \in Nat
      BY <2>1, <1>5 DEF Threading, Chains
    <3>2. n[q] = 0 \/ n[q] \in 1 .. n[q]
      BY <3>1
    <3>. QED
      BY <3>1, <3>2, <2>1 DEF HeadWord, OnThread
  <2>2. CASE q \notin K
    BY <2>2, <1>5, <1>7 DEF Threading, OnThread
  <2>. QED
    BY <2>1, <2>2
<1>11. Frame(V, w, C, K, R)' /\ Words(R, A)' /\ Threading(A, V, K, R, E, n, t)'
  <2>1. Frame(V, w, C, K, R)' /\ Words(R, A)'
    BY <1>5, <1>6, <1>9, FrameNext, WordsNext
  <2>2. Threading(A, V, K, R, E, n, t)'
    BY <1>5 DEF Threading, Places, HeapWosize, StaticWosize
  <2>. QED
    BY <2>1, <2>2
<1>12. AtThread(V, w, C, K, R, A, n, t)'
  <2>1. E = ScanTo(w, K, R, p')
    BY <1>3, <1>4
  <2>2. OnThread(V, K, n, t, p', h')
    BY <1>3, <1>8, <1>10
  <2>. QED
    BY <2>1, <2>2, <1>3, <1>7, <1>11 DEF AtThread
<1>. QED
  BY <1>3, <1>9, <1>12 DEF ThreadInv, In

\* Along a thread, of black and red words and a header.
LEMMA ThreadWords ==
  ASSUME Sound, NEW V, NEW w, NEW C, NEW K, NEW R, NEW A, NEW n, NEW t, AtThread(V, w, C, K, R, A, n, t)
  PROVE  IF is_black(h) THEN h.kind = "dyn" /\ p \in K /\ OnThread(V, K, n, t, p, At(h.at)) /\ At(h.at) \in Sizable
         ELSE IsHd(h) /\ Wosize_hd(h) = Wosize_hd(w[p]) /\ Tag_hd(h) = Tag_hd(w[p])
<1>1. Frame(V, w, C, K, R) /\ p \in C /\ V[p] = w[p] /\ p \in Int /\ Alive(w, C, K)
  BY FrameFacts DEF AtThread, Frame
<1>2. WhiteHeader(V[p])
  BY <1>1, TiledFacts
<1>3. CASE h \in {V[p], with_red(V[p])}
  <2>1. /\ h.low \in {Color_white, Color_red} /\ IsHd(h) /\ Wosize_hd(h) = Wosize_hd(w[p])
        /\ Tag_hd(h) = Tag_hd(w[p])
    BY <1>1, <1>2, <1>3, HeaderColours DEF WhiteHeader
  <2>2. ~ is_black(h)
    BY <2>1 DEF is_black, Color_white, Color_red
  <2>. QED
    BY <2>1, <2>2
<1>4. CASE h \notin {V[p], with_red(V[p])}
  <2>1. PICK i \in 1 .. n[p] : p \in K /\ h \in {Back(t[p][i]), with_red(Back(t[p][i]))}
    BY <1>4 DEF AtThread, OnThread
  <2>2. PICK E : E = ScanTo(w, K, R, p)
    OBVIOUS
  <2>3. Words(R, A) /\ Threading(A, V, K, R, E, n, t) /\ ChainsIn(A, V, w, C, K, R, E, n, t)
    BY <1>1, <2>2 DEF AtThread, Threading, ChainsIn, ScanTo
  <2>4. /\ n[p] \in Nat /\ t[p][i] \in E /\ A[t[p][i]] = with_red(HeadWord(V, t, p, i - 1))
    BY <2>1, <2>3 DEF Threading, Chains
  <2>5. t[p][i] \in Int /\ t[p][i] \in Places(R)
    BY <2>3, <2>4, FrameFacts DEF ChainsIn
  <2>6. h.kind = "dyn" /\ h.at = t[p][i] /\ is_black(h)
    BY <2>1, <2>5, LinkColours DEF is_black, Color_black
  <2>7. At(h.at) = with_red(HeadWord(V, t, p, i - 1))
    BY <2>3, <2>4, <2>5, <2>6 DEF Words
  <2>8. PICK j, hd : j = i - 1 /\ hd = HeadWord(V, t, p, j)
    OBVIOUS
  <2>9. j \in 0 .. n[p] /\ (j = 0 \/ j \in 1 .. n[p])
    BY <2>1, <2>4, <2>8
  <2>10. with_red(hd) \in Sizable
    BY <2>1, <2>3, <2>8, <2>9, HeadWords
  <2>11. OnThread(V, K, n, t, p, with_red(hd))
    BY <2>1, <2>8, <2>9 DEF HeadWord, OnThread
  <2>. QED
    BY <2>1, <2>6, <2>7, <2>8, <2>10, <2>11
<1>. QED
  BY <1>3, <1>4

\* reverse_pointer follows the thread one link further.
LEMMA FollowThreadStep == ASSUME Sound, ThreadInv, FollowThread PROVE Sound' /\ ThreadInv'
<1>1. PICK V, w, C, K, R, A, n, t : AtThread(V, w, C, K, R, A, n, t)
  BY DEF ThreadInv
<1>2. PICK q, v : q = p /\ v = At(h.at)
  OBVIOUS
<1>3. /\ ctl = "gc" /\ phase = "thread" /\ root = 0 /\ is_black(h) /\ h' = v /\ UNCHANGED <<vmvars, phase, root, p, start, alloc_pos>>
  BY <1>2 DEF ThreadInv, FollowThread, In
<1>4. OnThread(V, K, n, t, q, v) /\ v \in Sizable
  BY <1>1, <1>2, <1>3, ThreadWords
<1>5. PICK E : E = ScanTo(w, K, R, q)
  OBVIOUS
<1>6. Frame(V, w, C, K, R) /\ Words(R, A) /\ Threading(A, V, K, R, E, n, t) /\ q \in C
  BY <1>1, <1>2, <1>5 DEF AtThread
<1>7. Sound' /\ RootSet' = RootSet /\ ctl' = "gc" /\ UNCHANGED <<mem, regs, heap_ptr>>
  <2>1. h' \in Sizable /\ root' \in 0 .. Len(Roots) + 1 /\ p' \in Int /\ start' \in Int /\ alloc_pos' \in Int
    BY <1>3, <1>4 DEF Sound
  <2>. QED
    BY <2>1, <1>3, QuietStep
<1>8. Frame(V, w, C, K, R)' /\ Words(R, A)' /\ Threading(A, V, K, R, E, n, t)'
  <2>1. Frame(V, w, C, K, R)' /\ Words(R, A)'
    BY <1>6, <1>7, FrameNext, WordsNext
  <2>2. Threading(A, V, K, R, E, n, t)'
    BY <1>6 DEF Threading, Places, HeapWosize, StaticWosize
  <2>. QED
    BY <2>1, <2>2
<1>9. AtThread(V, w, C, K, R, A, n, t)'
  <2>1. p' = q /\ E = ScanTo(w, K, R, p')
    BY <1>2, <1>3, <1>5
  <2>2. OnThread(V, K, n, t, p', h')
    BY <1>3, <1>4, <2>1
  <2>. QED
    BY <2>1, <2>2, <1>6, <1>8 DEF AtThread
<1>. QED
  BY <1>3, <1>7, <1>9 DEF ThreadInv, In

\* The header found: on to the fields, or to the next block.
LEMMA ScanBlockStep == ASSUME Sound, ThreadInv, ScanBlock PROVE Sound' /\ (FieldsInv' \/ ReverseInv')
<1>1. PICK V, w, C, K, R, A, n, t : AtThread(V, w, C, K, R, A, n, t)
  BY DEF ThreadInv
<1>2. PICK c : c = p
  OBVIOUS
<1>3. ~ is_black(h) /\ Wosize_hd(h) = Wosize_hd(w[c]) /\ Tag_hd(h) = Tag_hd(w[c])
  BY <1>1, <1>2, ThreadWords DEF ScanBlock
<1>4. PICK s : s = c + Wosize_hd(w[c]) + 1
  OBVIOUS
<1>5. /\ ctl = "gc" /\ root = 0 /\ start' = s /\ h' = Undef /\ UNCHANGED vmvars /\ root' = root /\ alloc_pos' = alloc_pos
      /\ IF Tag_hd(w[c]) < No_scan_tag THEN p' = c + 1 /\ phase' = "fields" ELSE p' = s /\ phase' = "reverse"
  BY <1>2, <1>3, <1>4 DEF ThreadInv, ScanBlock, In
<1>6. PICK E : E = ScanTo(w, K, R, c)
  OBVIOUS
<1>7. Frame(V, w, C, K, R) /\ Words(R, A) /\ Threading(A, V, K, R, E, n, t) /\ c \in C /\ E \subseteq Scan(w, K, R)
      /\ Alive(w, C, K)
  BY <1>1, <1>2, <1>6 DEF AtThread, ScanTo, Frame
<1>8. ThreadState(V, w, C, K, R, E)
  BY <1>7 DEF ThreadState, Threaded
<1>9. /\ c \in Int /\ Wosize_hd(w[c]) \in Nat /\ s \in Int /\ s \in C \cup {heap_ptr} /\ c \notin Scan(w, K, R)
      /\ \A l \in Scan(w, K, R) : l \in Int
      /\ Tag_hd(w[c]) < No_scan_tag => c \in K
  <2>1. c \in Int /\ Wosize_hd(w[c]) \in Nat /\ c + Wosize_hd(w[c]) + 1 \in C \cup {heap_ptr}
    BY <1>7, TiledFacts
  <2>. QED
    BY <1>4, <1>7, <2>1, FrameFacts
<1>10. Sound' /\ RootSet' = RootSet /\ ctl' = "gc" /\ UNCHANGED <<mem, regs, heap_ptr>>
  <2>1. h' \in Sizable /\ root' \in 0 .. Len(Roots) + 1 /\ p' \in Int /\ start' \in Int /\ alloc_pos' \in Int
    BY <1>5, <1>9, UndefSizable DEF Sound
  <2>. QED
    BY <2>1, <1>5, QuietStep
<1>11. ThreadState(V, w, C, K, R, E)'
  BY <1>8, <1>10, ThreadsKept
<1>12. CASE Tag_hd(w[c]) < No_scan_tag
  <2>1. p' = c + 1 /\ phase' = "fields"
    BY <1>5, <1>12
  <2>2. ScanTo(w, K, R, c + 1) = E
    BY <1>6, <1>9 DEF ScanTo
  <2>3. ThreadState(V, w, C, K, R, ScanTo(w, K, R, p))'
    BY <1>11, <2>1, <2>2 DEF ThreadState
  <2>4. AtFields(w, C, K, c)'
    BY <1>4, <1>5, <1>9, <1>12, <2>1 DEF AtFields
  <2>. QED
    BY <2>1, <2>3, <2>4, <1>5, <1>10 DEF FieldsInv, In
<1>13. CASE ~ (Tag_hd(w[c]) < No_scan_tag)
  <2>1. p' = s /\ phase' = "reverse"
    BY <1>5, <1>13
  <2>2. ScanTo(w, K, R, s) = E
    <3>1. ASSUME NEW l \in Scan(w, K, R), l < s PROVE l < c
      <4>1. CASE l \in R
        <5>1. l \in Int /\ l < StaticWosize /\ StaticWosize \in Int /\ c >= StaticWosize
          BY <4>1, <1>7, FrameFacts, TiledFacts, Bounds
        <5>. QED
          BY <5>1, <1>9
      <4>2. CASE l \notin R
        <5>1. PICK b \in K : Tag_hd(w[b]) < No_scan_tag /\ l \in FieldsOf(w, b)
          BY <4>2, <3>1 DEF Scan
        <5>2. b \in C /\ b \in Int /\ Wosize_hd(w[b]) \in Nat /\ b # c
          BY <5>1, <1>7, <1>13, TiledFacts DEF Alive
        <5>3. \A a, d \in C : d <= a \/ d > a + Wosize_hd(w[a])
          BY <1>7, TiledFacts
        <5>4. (b <= c \/ b > c + Wosize_hd(w[c])) /\ (c <= b \/ c > b + Wosize_hd(w[b]))
          BY <5>2, <5>3, <1>7
        <5>5. l \in Int /\ l >= b + 1 /\ l <= b + Wosize_hd(w[b])
          BY <5>1, <5>2 DEF FieldsOf
        <5>. QED
          BY <5>2, <5>4, <5>5, <1>4, <1>9, <3>1
      <4>. QED
        BY <4>1, <4>2
    <3>2. \A l \in Scan(w, K, R) : l < c => l < s
      BY <1>4, <1>9
    <3>. QED
      BY <3>1, <3>2, <1>6 DEF ScanTo
  <2>3. ThreadState(V, w, C, K, R, ScanTo(w, K, R, p))'
    BY <1>11, <2>1, <2>2 DEF ThreadState
  <2>4. p' \in C \cup {heap_ptr'}
    BY <1>9, <1>10, <2>1
  <2>. QED
    BY <2>1, <2>3, <2>4, <1>5, <1>10 DEF ReverseInv, In
<1>. QED
  BY <1>12, <1>13

\* reverse_heap_pointers reverses the field at p.
LEMMA ReverseFieldStep == ASSUME Sound, FieldsInv, ReverseField PROVE Sound' /\ FieldsInv'
<1>1. PICK V, w, C, K, R, c : ThreadState(V, w, C, K, R, ScanTo(w, K, R, p)) /\ AtFields(w, C, K, c)
  BY DEF FieldsInv
<1>2. PICK q, s : q = p /\ s = start
  OBVIOUS
<1>3. /\ ctl = "gc" /\ phase = "fields" /\ root = 0 /\ q < s /\ reverse_pointer(q) /\ p' = q + 1
      /\ UNCHANGED <<phase, root, h, start, alloc_pos>> /\ Unmoved
  BY <1>2 DEF FieldsInv, ReverseField, In
<1>4. PICK E : E = ScanTo(w, K, R, q)
  OBVIOUS
<1>5. ThreadState(V, w, C, K, R, E) /\ Frame(V, w, C, K, R) /\ Alive(w, C, K) /\ K \subseteq C
  BY <1>1, <1>2, <1>4 DEF ThreadState, Frame, Alive
<1>6. /\ c \in K /\ c \in C /\ Tag_hd(w[c]) < No_scan_tag /\ s = c + Wosize_hd(w[c]) + 1 /\ q \in c + 1 .. s
  BY <1>1, <1>2, <1>5 DEF AtFields
<1>7. q \in Int /\ q \in Scan(w, K, R) /\ q \notin E
  <2>1. c \in Int /\ Wosize_hd(w[c]) \in Nat
    BY <1>5, <1>6, TiledFacts
  <2>2. q \in FieldsOf(w, c) /\ q \in Int
    BY <2>1, <1>3, <1>6 DEF FieldsOf
  <2>3. q \in Scan(w, K, R)
    BY <2>2, <1>6 DEF Scan
  <2>. QED
    BY <2>2, <2>3, <1>4 DEF ScanTo
<1>8. PICK E2 : E2 = E \cup {q}
  OBVIOUS
<1>9. Sound' /\ Roots' = Roots /\ ThreadState(V, w, C, K, R, E2)'
  <2>1. h' \in Sizable /\ root' \in 0 .. Len(Roots) + 1 /\ p' \in Int /\ start' \in Int /\ alloc_pos' \in Int
    BY <1>3, <1>7 DEF Sound
  <2>. QED
    BY <1>3, <1>5, <1>7, <1>8, <2>1, ReverseStep
<1>10. E2 = ScanTo(w, K, R, p')
  <2>1. \A l \in Scan(w, K, R) : l \in Int
    BY <1>5, FrameFacts
  <2>2. \A l \in Scan(w, K, R) : l < q + 1 <=> (l < q \/ l = q)
    BY <2>1, <1>7
  <2>3. E2 = ScanTo(w, K, R, q + 1)
    BY <2>2, <1>4, <1>7, <1>8 DEF ScanTo
  <2>. QED
    BY <2>3, <1>3
<1>11. ThreadState(V, w, C, K, R, ScanTo(w, K, R, p))'
  BY <1>9, <1>10 DEF ThreadState
<1>12. AtFields(w, C, K, c)'
  <2>1. c \in Int /\ Wosize_hd(w[c]) \in Nat
    BY <1>5, <1>6, TiledFacts
  <2>2. p' \in c + 1 .. s
    BY <2>1, <1>3, <1>6
  <2>. QED
    BY <2>2, <1>2, <1>3, <1>6 DEF AtFields
<1>. QED
  BY <1>3, <1>9, <1>11, <1>12 DEF FieldsInv, In, Unmoved

\* The fields of the block have been reversed.
LEMMA FieldsDoneStep == ASSUME Sound, FieldsInv, FieldsDone PROVE Sound' /\ ReverseInv'
<1>1. PICK V, w, C, K, R, c : ThreadState(V, w, C, K, R, ScanTo(w, K, R, p)) /\ AtFields(w, C, K, c)
  BY DEF FieldsInv
<1>2. /\ ctl = "gc" /\ root = 0 /\ p >= start /\ phase' = "reverse"
      /\ UNCHANGED <<vmvars, root, p, h, start, alloc_pos>>
  BY DEF FieldsInv, FieldsDone, In
<1>3. PICK q, E : q = p /\ E = ScanTo(w, K, R, q)
  OBVIOUS
<1>4. ThreadState(V, w, C, K, R, E) /\ Frame(V, w, C, K, R) /\ Alive(w, C, K) /\ K \subseteq C
  BY <1>1, <1>3 DEF ThreadState, Frame, Alive
<1>5. q \in C \cup {heap_ptr}
  <2>1. c \in C /\ start = c + Wosize_hd(w[c]) + 1 /\ q \in c + 1 .. start
    BY <1>1, <1>3, <1>4 DEF AtFields
  <2>2. c \in Int /\ Wosize_hd(w[c]) \in Nat /\ c + Wosize_hd(w[c]) + 1 \in C \cup {heap_ptr}
    BY <1>4, <2>1, TiledFacts
  <2>3. q = c + Wosize_hd(w[c]) + 1
    BY <1>2, <1>3, <2>1, <2>2
  <2>. QED
    BY <2>2, <2>3
<1>6. Sound' /\ RootSet' = RootSet /\ ctl' = "gc" /\ UNCHANGED <<mem, regs, heap_ptr>>
  <2>1. h' \in Sizable /\ root' \in 0 .. Len(Roots) + 1 /\ p' \in Int /\ start' \in Int /\ alloc_pos' \in Int
    BY <1>2 DEF Sound
  <2>. QED
    BY <2>1, <1>2, QuietStep
<1>7. ThreadState(V, w, C, K, R, E)'
  BY <1>4, <1>6, ThreadsKept
<1>8. ThreadState(V, w, C, K, R, ScanTo(w, K, R, p))'
  <2>1. E = ScanTo(w, K, R, p')
    BY <1>2, <1>3
  <2>. QED
    BY <2>1, <1>7 DEF ThreadState
<1>9. p' \in C \cup {heap_ptr'}
  BY <1>2, <1>3, <1>5, <1>6
<1>. QED
  BY <1>2, <1>6, <1>8, <1>9 DEF ReverseInv, In

\* No reference that has not been reversed leads out of the heap.
LEMMA NoStray ==
  ASSUME Sound, NEW V, NEW w, NEW C, NEW K, NEW R, NEW E, ThreadState(V, w, C, K, R, E),
         NEW l \in Scan(w, K, R), l \notin E
  PROVE  ~ Stray(l)
<1>1. Frame(V, w, C, K, R)
  BY DEF ThreadState
<1>2. PICK A, n, t : Words(R, A) /\ Threading(A, V, K, R, E, n, t)
  BY DEF ThreadState, Threaded
<1>3. l \in Places(R) /\ l \notin K /\ Into(V[l], K) /\ \A c \in K : InHeap(c)
  BY <1>1, FrameFacts DEF InHeap
<1>4. At(l) = V[l]
  BY <1>2, <1>3 DEF Words, Threading
<1>. QED
  BY <1>3, <1>4, Reference DEF Stray

\* The phases that reverse pointers find headers and links where they look for them.
LEMMA ReverseReads ==
  ASSUME Sound
  PROVE  /\ RootsInv => ~ ReverseMisread
         /\ ReverseInv => ~ ReverseMisread
         /\ ThreadInv => ~ ReverseMisread
         /\ FieldsInv => ~ ReverseMisread
<1>1. ASSUME RootsInv, ReverseMisread PROVE FALSE
  <2>1. PICK V, w, C, K, R : ThreadState(V, w, C, K, R, RootsTo(root - 1))
    BY <1>1 DEF RootsInv
  <2>2. root \in 1 .. Len(Roots) /\ Stray(Roots[root])
    <3>1. Len(Roots) \in Nat
      BY Bounds
    <3>. QED
      BY <3>1, <1>1 DEF RootsInv, ReverseMisread, In
  <2>3. Roots \in Seq(Int) /\ ToSet(Roots) = RootSet /\ Distinct(Roots) /\ Len(Roots) \in Nat
    BY RootsOnce DEF Sound
  <2>4. Roots[root] \in Scan(w, K, R)
    BY <2>1, <2>2, <2>3, SeqElements DEF ThreadState, Frame, Scan
  <2>5. Roots[root] \notin RootsTo(root - 1)
    <3>1. \A i \in 1 .. root - 1 : i \in 1 .. Len(Roots) /\ i # root
      BY <2>2, <2>3
    <3>. QED
      BY <3>1, <2>2, <2>3 DEF RootsTo, Distinct
  <2>. QED
    BY <2>1, <2>2, <2>4, <2>5, NoStray
<1>2. ASSUME ReverseInv, ReverseMisread PROVE FALSE
  BY <1>2 DEF ReverseInv, ReverseMisread, In
<1>3. ASSUME ThreadInv, ReverseMisread PROVE FALSE
  <2>1. PICK V, w, C, K, R, A, n, t : AtThread(V, w, C, K, R, A, n, t)
    BY <1>3 DEF ThreadInv
  <2>2. (is_black(h) /\ h.kind # "dyn") \/ (~ is_black(h) /\ ~ IsHd(h))
    BY <1>3 DEF ThreadInv, ReverseMisread, In
  <2>. QED
    BY <2>1, <2>2, ThreadWords
<1>4. ASSUME FieldsInv, ReverseMisread PROVE FALSE
  <2>1. PICK V, w, C, K, R, c : ThreadState(V, w, C, K, R, ScanTo(w, K, R, p)) /\ AtFields(w, C, K, c)
    BY <1>4 DEF FieldsInv
  <2>2. p < start /\ (~ InHeap(p) \/ Stray(p))
    BY <1>4 DEF FieldsInv, ReverseMisread, In
  <2>3. Frame(V, w, C, K, R) /\ Alive(w, C, K) /\ c \in K /\ c \in C
    BY <2>1 DEF ThreadState, Frame, Alive, AtFields
  <2>4. c \in Int /\ Wosize_hd(w[c]) \in Nat /\ FieldsOf(w, c) \subseteq 1 .. HeapWosize - 1
    BY <2>3, TiledFacts
  <2>5. p \in FieldsOf(w, c) /\ p \in Int
    BY <2>1, <2>2, <2>4 DEF AtFields, FieldsOf
  <2>6. p \in Scan(w, K, R) /\ p \notin ScanTo(w, K, R, p) /\ InHeap(p)
    <3>1. p \in Scan(w, K, R)
      BY <2>1, <2>3, <2>5 DEF Scan, AtFields
    <3>2. HeapWosize \in Nat
      BY Bounds
    <3>. QED
      BY <3>1, <3>2, <2>4, <2>5 DEF ScanTo, InHeap
  <2>. QED
    BY <2>1, <2>2, <2>6, NoStray
<1>. QED
  BY <1>1, <1>2, <1>3, <1>4

-----------------------------------------------------------------------------
(* Updating.  L are the blocks that some word refers to, dest[c] is where   *)
(* the block at c will go.                                                  *)

NextOf(w, c) == c + Wosize_hd(w[c]) + 1
Grow(w, L, c) == IF c \in L THEN Wosize_hd(w[c]) + 1 ELSE 0

\* Up to q, the blocks of L will be one after the other, and none will move up.
Plan(w, C, L, dest, q) ==
  /\ q \in C \cup {heap_ptr} /\ dest[StaticWosize] = StaticWosize
  /\ \A c \in C \cup {heap_ptr} : c <= q => dest[c] \in StaticWosize .. c
  /\ \A c \in C : c < q => dest[NextOf(w, c)] = dest[c] + Grow(w, L, c)
  /\ \A c \in C, d \in C \cup {heap_ptr} : c < d /\ d <= q => dest[c] + Grow(w, L, c) <= dest[d]

\* References to the blocks before q, and some to those of X, have their final values;
\* the others are still in threads.
UpdateWords(A, V, w, C, K, R, L, n, t, dest, q, X) ==
  /\ L \subseteq K
  /\ \A l \in Scan(w, K, R) : Is_block_in_dynamic_heap(V[l]) => V[l].at - 1 \in L
  /\ Chains(A, V, K, Scan(w, K, R), n, t)
  /\ \A c \in K : IF c < q THEN n[c] = 0
                  ELSE c \notin X => (c \in L <=> n[c] > 0) /\ A[c] = HeadWord(V, t, c, n[c])
  /\ \A c \in C : IF c < q THEN A[c] = IF c \in L THEN V[c] ELSE with_black(V[c])
                  ELSE c \notin K => A[c] = V[c]
  /\ \A l \in Scan(w, K, R) :
       IF Is_block_in_dynamic_heap(V[l])
         THEN \/ Linked(V, n, t, l)
              \/ /\ V[l].at - 1 < q \/ V[l].at - 1 \in X
                 /\ A[l] = Val_dynamic_block(dest[V[l].at - 1] + 1)
         ELSE A[l] = V[l]
  /\ \A l \in Places(R) : l \notin Scan(w, K, R) /\ l \notin C => A[l] = V[l]
Updating(A, V, w, C, K, R, L, n, t, dest, q, X) ==
  Frame(V, w, C, K, R) /\ UpdateWords(A, V, w, C, K, R, L, n, t, dest, q, X) /\ Plan(w, C, L, dest, q)

\* One more block in the plan.
PlanMore(w, C, L, dest, q, dest2, q2) ==
  /\ q2 = NextOf(w, q)
  /\ dest2 = [x \in Int |-> IF x = q2 THEN dest[q] + Grow(w, L, q) ELSE dest[x]]

\* The place of the next block, once that of the block at q is known.
LEMMA PlanNext ==
  ASSUME Sound, NEW w, NEW C, NEW K, Alive(w, C, K), NEW L, NEW dest, NEW q \in C, Plan(w, C, L, dest, q),
         NEW dest2, NEW q2, PlanMore(w, C, L, dest, q, dest2, q2)
  PROVE  /\ Plan(w, C, L, dest2, q2) /\ q2 \in Int /\ q < q2 /\ dest2[q2] = dest[q] + Grow(w, L, q)
         /\ \A c \in C : c <= q => dest2[c] = dest[c]
         /\ \A c \in C : c < q2 <=> c <= q
<1>1. /\ StaticWosize \in Nat /\ heap_ptr \in Nat /\ StaticWosize <= heap_ptr
  BY Bounds
<1>2. \A c \in C : /\ c \in Int /\ c >= StaticWosize /\ c < heap_ptr /\ Wosize_hd(w[c]) \in Nat
                   /\ c + Wosize_hd(w[c]) + 1 \in C \cup {heap_ptr}
  BY <1>1, TiledFacts
<1>3. \A c, d \in C : d <= c \/ d > c + Wosize_hd(w[c])
  BY TiledFacts
<1>4. PICK z \in Nat : z = Wosize_hd(w[q])
  BY <1>2
<1>5. q2 = q + z + 1 /\ q2 \in Int /\ q < q2 /\ q2 \in C \cup {heap_ptr} /\ q \in Int
  BY <1>2, <1>4 DEF PlanMore, NextOf
<1>6. PICK u \in Nat : u = Grow(w, L, q) /\ u <= z + 1
  BY <1>4 DEF Grow
<1>7. /\ dest[q] \in Int /\ dest[q] >= StaticWosize /\ dest[q] <= q
  BY <1>1, <1>2, <1>5 DEF Plan
<1>8. dest2[q2] = dest[q] + u /\ \A x \in Int : x # q2 => dest2[x] = dest[x]
  BY <1>5, <1>6 DEF PlanMore
<1>9. /\ \A c \in C : c < q2 <=> c <= q
      /\ \A c \in C \cup {heap_ptr} : c \in Int /\ (c <= q2 => c = q2 \/ (c <= q /\ c # q2))
  <2>1. \A c \in C : c < q2 <=> c <= q
    BY <1>2, <1>3, <1>4, <1>5
  <2>2. ASSUME NEW c \in C \cup {heap_ptr}, c <= q2, c # q2 PROVE c <= q
    <3>1. CASE c \in C
      BY <3>1, <2>1, <2>2, <1>2, <1>5
    <3>2. CASE c \notin C
      <4>1. c = heap_ptr
        BY <3>2
      <4>2. q2 \in C
        BY <4>1, <2>2, <1>5
      <4>. QED
        BY <4>1, <4>2, <2>2, <1>1, <1>2
    <3>. QED
      BY <3>1, <3>2
  <2>. QED
    BY <2>1, <2>2, <1>1, <1>2, <1>5
<1>10. \A c \in C : c <= q => dest2[c] = dest[c] /\ c # q2
  BY <1>2, <1>5, <1>8
<1>11. dest2[StaticWosize] = StaticWosize
  <2>1. StaticWosize # q2
    BY <1>1, <1>2, <1>5
  <2>. QED
    BY <2>1, <1>1, <1>8 DEF Plan
<1>12. ASSUME NEW c \in C \cup {heap_ptr}, c <= q2 PROVE dest2[c] \in StaticWosize .. c
  <2>1. CASE c = q2
    BY <2>1, <1>1, <1>4, <1>5, <1>6, <1>7, <1>8
  <2>2. CASE c # q2
    BY <2>2, <1>8, <1>9, <1>12 DEF Plan
  <2>. QED
    BY <2>1, <2>2
<1>13. ASSUME NEW c \in C, c < q2 PROVE dest2[NextOf(w, c)] = dest2[c] + Grow(w, L, c)
  <2>1. c <= q /\ dest2[c] = dest[c]
    BY <1>9, <1>10, <1>13
  <2>2. CASE c = q
    BY <2>1, <2>2, <1>6, <1>8 DEF PlanMore
  <2>3. CASE c # q
    <3>1. c < q /\ dest[NextOf(w, c)] = dest[c] + Grow(w, L, c)
      BY <2>1, <2>3, <1>2, <1>5 DEF Plan
    <3>2. NextOf(w, c) \in Int /\ NextOf(w, c) <= q
      BY <3>1, <1>2, <1>3, <1>5 DEF NextOf
    <3>. QED
      BY <2>1, <3>1, <3>2, <1>5, <1>8
  <2>. QED
    BY <2>2, <2>3
<1>14. ASSUME NEW c \in C, NEW d \in C \cup {heap_ptr}, c < d, d <= q2 PROVE dest2[c] + Grow(w, L, c) <= dest2[d]
  <2>1. c \in Int /\ d \in Int /\ c < q2
    BY <1>9, <1>14, <1>5
  <2>2. c <= q /\ dest2[c] = dest[c]
    BY <2>1, <1>9, <1>10
  <2>3. CASE d # q2
    <3>1. d <= q /\ dest2[d] = dest[d]
      BY <2>1, <2>3, <1>8, <1>9, <1>14
    <3>. QED
      BY <2>2, <3>1, <1>14 DEF Plan
  <2>4. CASE d = q2
    <3>1. CASE c = q
      BY <2>2, <2>4, <3>1, <1>6, <1>7, <1>8
    <3>2. CASE c # q
      <4>1. c < q
        BY <2>1, <2>2, <3>2, <1>5
      <4>2. dest[c] + Grow(w, L, c) <= dest[q] /\ q <= q
        BY <4>1, <1>5 DEF Plan
      <4>3. dest[c] \in Int /\ Grow(w, L, c) \in Nat
        BY <4>1, <2>1, <2>2, <1>1, <1>2 DEF Plan, Grow
      <4>. QED
        BY <2>2, <2>4, <4>2, <4>3, <1>6, <1>7, <1>8
    <3>. QED
      BY <3>1, <3>2
  <2>. QED
    BY <2>3, <2>4
<1>15. Plan(w, C, L, dest2, q2)
  BY <1>5, <1>11, <1>12, <1>13, <1>14 DEF Plan
<1>. QED
  BY <1>5, <1>6, <1>8, <1>9, <1>10, <1>15

\* Once all references are reversed, updating begins.
LEMMA UpdateBegin ==
  ASSUME Sound, NEW V, NEW w, NEW C, NEW K, NEW R, Frame(V, w, C, K, R), NEW A, NEW n, NEW t,
         Threading(A, V, K, R, Scan(w, K, R), n, t),
         NEW L, L = {c \in K : n[c] > 0}, NEW dest, dest = [x \in Int |-> StaticWosize]
  PROVE  Updating(A, V, w, C, K, R, L, n, t, dest, StaticWosize, {})
<1>1. Alive(w, C, K) /\ K \subseteq C
  BY DEF Frame, Alive
<1>2. /\ StaticWosize \in Nat /\ heap_ptr \in Nat /\ StaticWosize <= heap_ptr
      /\ \A c \in C : c \in Int /\ c >= StaticWosize
      /\ StaticWosize \in C \cup {heap_ptr}
  BY <1>1, Bounds, TiledFacts
<1>3. Plan(w, C, L, dest, StaticWosize)
  <2>1. \A c \in C \cup {heap_ptr} : c \in Int /\ c >= StaticWosize /\ dest[c] = StaticWosize
    BY <1>2
  <2>2. StaticWosize \in Int /\ dest[StaticWosize] = StaticWosize
    BY <1>2
  <2>. QED
    BY <2>1, <2>2, <1>2 DEF Plan
<1>4. /\ \A l \in Scan(w, K, R) : l \in Places(R) /\ l \notin C
      /\ \A c \in C : c \in Places(R)
  BY FrameFacts
<1>5. Chains(A, V, K, Scan(w, K, R), n, t)
  BY DEF Threading
<1>6. \A l \in Scan(w, K, R) : Is_block_in_dynamic_heap(V[l]) => V[l].at - 1 \in L /\ Linked(V, n, t, l)
  <2>1. ASSUME NEW l \in Scan(w, K, R), Is_block_in_dynamic_heap(V[l])
        PROVE  V[l].at - 1 \in L /\ Linked(V, n, t, l)
    <3>1. PICK c : c = V[l].at - 1
      OBVIOUS
    <3>2. c \in K /\ Linked(V, n, t, l)
      BY <2>1, <3>1 DEF Threading
    <3>3. \E i \in 1 .. n[c] : t[c][i] = l
      BY <3>1, <3>2 DEF Linked
    <3>4. n[c] \in Nat
      BY <3>2, <1>5 DEF Chains
    <3>5. n[c] > 0
      BY <3>3, <3>4
    <3>. QED
      BY <3>1, <3>2, <3>5
  <2>. QED
    BY <2>1
<1>7. \A c \in K : A[c] = HeadWord(V, t, c, n[c]) /\ ~ (c < StaticWosize)
  BY <1>1, <1>2 DEF Threading
<1>8. \A c \in C : ~ (c < StaticWosize) /\ (c \notin K => A[c] = V[c])
  BY <1>2, <1>4 DEF Threading
<1>9. \A l \in Scan(w, K, R) : ~ Is_block_in_dynamic_heap(V[l]) => A[l] = V[l]
  BY <1>1, <1>4 DEF Threading
<1>10. \A l \in Places(R) : l \notin Scan(w, K, R) /\ l \notin C => A[l] = V[l]
  BY <1>1 DEF Threading
<1>11. UpdateWords(A, V, w, C, K, R, L, n, t, dest, StaticWosize, {})
  BY <1>5, <1>6, <1>7, <1>8, <1>9, <1>10 DEF UpdateWords
<1>. QED
  BY <1>3, <1>11 DEF Updating

\* The word at a is now v.
OneWord(A, A2, R, a, v) == \A x \in Places(R) : A2[x] = IF x = a THEN v ELSE A[x]

\* The block at q has its header back, no word of its thread is left, and updating goes on.
LEMMA UpdateBlock ==
  ASSUME Sound, NEW V, NEW w, NEW C, NEW K, NEW R, NEW A, NEW n, NEW t, NEW L, NEW dest, NEW q \in C, NEW X, X \subseteq {q},
         Updating(A, V, w, C, K, R, L, n, t, dest, q, X), q \in K => n[q] = 0,
         NEW A2, OneWord(A, A2, R, q, IF q \in L THEN V[q] ELSE with_black(V[q])),
         NEW dest2, NEW q2, PlanMore(w, C, L, dest, q, dest2, q2)
  PROVE  Updating(A2, V, w, C, K, R, L, n, t, dest2, q2, {})
<1>1. Frame(V, w, C, K, R) /\ UpdateWords(A, V, w, C, K, R, L, n, t, dest, q, X) /\ Plan(w, C, L, dest, q) /\ Alive(w, C, K)
      /\ K \subseteq C
  BY DEF Updating, Frame, Alive
<1>2. /\ Plan(w, C, L, dest2, q2) /\ q2 \in Int /\ q < q2
      /\ \A c \in C : c <= q => dest2[c] = dest[c]
      /\ \A c \in C : c < q2 <=> c <= q
  BY <1>1, PlanNext
<1>3. /\ \A l \in Scan(w, K, R) : l \in Places(R) /\ l \notin C
      /\ \A c \in C : c \in Places(R) /\ c \in Int
  BY <1>1, FrameFacts
<1>4. \A c \in C : A2[c] = IF c = q THEN IF q \in L THEN V[q] ELSE with_black(V[q]) ELSE A[c]
  BY <1>3 DEF OneWord
<1>5. \A l \in Scan(w, K, R) : A2[l] = A[l]
  BY <1>3 DEF OneWord
<1>6. L \subseteq K /\ \A l \in Scan(w, K, R) : Is_block_in_dynamic_heap(V[l]) => V[l].at - 1 \in L
  BY <1>1 DEF UpdateWords
<1>7. Chains(A2, V, K, Scan(w, K, R), n, t)
  BY <1>1, <1>5 DEF UpdateWords, Chains
<1>8. ASSUME NEW c \in K
      PROVE  IF c < q2 THEN n[c] = 0 ELSE (c \in L <=> n[c] > 0) /\ A2[c] = HeadWord(V, t, c, n[c])
  <2>1. c \in C /\ c \in Int /\ q \in Int /\ (c < q2 <=> c <= q)
    BY <1>1, <1>2, <1>3
  <2>2. CASE c < q
    BY <2>1, <2>2, <1>1 DEF UpdateWords
  <2>3. CASE c = q
    BY <2>1, <2>3
  <2>4. CASE c > q
    BY <2>1, <2>4, <1>1, <1>4 DEF UpdateWords
  <2>. QED
    BY <2>1, <2>2, <2>3, <2>4
<1>9. ASSUME NEW c \in C
      PROVE  IF c < q2 THEN A2[c] = IF c \in L THEN V[c] ELSE with_black(V[c]) ELSE c \notin K => A2[c] = V[c]
  <2>1. c \in Int /\ q \in Int /\ (c < q2 <=> c <= q)
    BY <1>2, <1>3
  <2>2. CASE c < q
    BY <2>1, <2>2, <1>1, <1>4 DEF UpdateWords
  <2>3. CASE c = q
    BY <2>1, <2>3, <1>4
  <2>4. CASE c > q
    BY <2>1, <2>4, <1>1, <1>4 DEF UpdateWords
  <2>. QED
    BY <2>1, <2>2, <2>3, <2>4
<1>10. ASSUME NEW l \in Scan(w, K, R)
       PROVE  IF Is_block_in_dynamic_heap(V[l])
                THEN \/ Linked(V, n, t, l)
                     \/ V[l].at - 1 < q2 /\ A2[l] = Val_dynamic_block(dest2[V[l].at - 1] + 1)
                ELSE A2[l] = V[l]
  <2>1. CASE ~ Is_block_in_dynamic_heap(V[l])
    BY <2>1, <1>1, <1>5 DEF UpdateWords
  <2>2. CASE Is_block_in_dynamic_heap(V[l])
    <3>1. PICK c : c = V[l].at - 1
      OBVIOUS
    <3>2. c \in L /\ c \in C /\ c \in Int /\ q \in Int
      BY <2>2, <3>1, <1>1, <1>3, <1>6
    <3>3. Linked(V, n, t, l) \/ ((c < q \/ c \in X) /\ A[l] = Val_dynamic_block(dest[c] + 1))
      BY <2>2, <3>1, <1>1 DEF UpdateWords
    <3>4. (c < q \/ c \in X) => c < q2 /\ dest2[c] = dest[c]
      BY <3>2, <1>2
    <3>. QED
      BY <2>2, <3>1, <3>3, <3>4, <1>5
  <2>. QED
    BY <2>1, <2>2
<1>11. \A l \in Places(R) : l \notin Scan(w, K, R) /\ l \notin C => A2[l] = V[l]
  BY <1>1 DEF UpdateWords, OneWord
<1>12. UpdateWords(A2, V, w, C, K, R, L, n, t, dest2, q2, {})
  BY <1>6, <1>7, <1>8, <1>9, <1>10, <1>11 DEF UpdateWords
<1>. QED
  BY <1>1, <1>2, <1>12 DEF Updating

\* A word of the thread of the block at q gets its final value.
LEMMA LinkWord ==
  ASSUME Sound, NEW V, NEW w, NEW C, NEW K, NEW R, NEW A, NEW n, NEW t, NEW L, NEW dest, NEW q \in K,
         Updating(A, V, w, C, K, R, L, n, t, dest, q, {q}), n[q] > 0,
         NEW l, l = t[q][n[q]], NEW A2, OneWord(A, A2, R, l, Val_dynamic_block(dest[q] + 1)),
         NEW n2, n2 = [c \in K |-> IF c = q THEN n[q] - 1 ELSE n[c]]
  PROVE  Updating(A2, V, w, C, K, R, L, n2, t, dest, q, {q})
<1>1. Frame(V, w, C, K, R) /\ UpdateWords(A, V, w, C, K, R, L, n, t, dest, q, {q}) /\ Plan(w, C, L, dest, q) /\ K \subseteq C
  BY DEF Updating, Frame, Alive
<1>2. /\ \A x \in Scan(w, K, R) : x \in Places(R) /\ x \notin C
      /\ \A c \in C : c \in Places(R) /\ c \in Int
  BY <1>1, FrameFacts
<1>3. Chains(A, V, K, Scan(w, K, R), n, t)
  BY <1>1 DEF UpdateWords
<1>4. \A c \in K : n[c] \in Nat
  BY <1>3 DEF Chains
<1>5. n[q] \in 1 .. n[q] /\ l \in Scan(w, K, R) /\ V[l] = Val_dynamic_block(q + 1)
  <2>1. n[q] \in 1 .. n[q]
    BY <1>4
  <2>. QED
    BY <2>1, <1>3 DEF Chains
<1>6. \A c \in K : n2[c] \in Nat /\ (\A i \in 1 .. n2[c] : i \in 1 .. n[c]) /\ (c # q => n2[c] = n[c])
  BY <1>4
<1>7. V[l].at - 1 = q /\ Is_block_in_dynamic_heap(V[l])
  BY <1>1, <1>2, <1>5, LinkColours DEF Val_dynamic_block, Is_block_in_dynamic_heap
<1>8. ASSUME NEW c \in K, NEW i \in 1 .. n2[c] PROVE t[c][i] # l /\ t[c][i] \in Scan(w, K, R)
  <2>1. i \in 1 .. n[c] /\ V[t[c][i]] = Val_dynamic_block(c + 1) /\ t[c][i] \in Scan(w, K, R)
    BY <1>3, <1>6 DEF Chains
  <2>2. CASE c = q
    <3>1. i # n[q]
      BY <2>2, <1>4
    <3>2. \A j, k \in 1 .. n[q] : t[q][j] = t[q][k] => j = k
      BY <1>3 DEF Chains
    <3>. QED
      BY <2>1, <2>2, <3>1, <3>2, <1>5
  <2>3. CASE c # q
    <3>1. Val_dynamic_block(c + 1) # Val_dynamic_block(q + 1)
      <4>1. c \in Int /\ q \in Int /\ c + 1 # q + 1
        BY <2>3, <1>1, <1>2
      <4>. QED
        BY <4>1 DEF Val_dynamic_block
    <3>. QED
      BY <2>1, <3>1, <1>5
  <2>. QED
    BY <2>2, <2>3
<1>9. Chains(A2, V, K, Scan(w, K, R), n2, t)
  <2>1. ASSUME NEW c \in K
        PROVE  /\ n2[c] \in Nat
               /\ \A i \in 1 .. n2[c] : /\ t[c][i] \in Scan(w, K, R) /\ V[t[c][i]] = Val_dynamic_block(c + 1)
                                        /\ A2[t[c][i]] = with_red(HeadWord(V, t, c, i - 1))
               /\ \A i, j \in 1 .. n2[c] : t[c][i] = t[c][j] => i = j
    <3>1. \A i \in 1 .. n2[c] : A2[t[c][i]] = A[t[c][i]]
      BY <1>2, <1>8 DEF OneWord
    <3>. QED
      BY <3>1, <1>3, <1>6 DEF Chains
  <2>. QED
    BY <2>1 DEF Chains
<1>10. \A c \in C : A2[c] = A[c]
  BY <1>2, <1>5 DEF OneWord
<1>11. \A c \in K : IF c < q THEN n2[c] = 0
                    ELSE c \notin {q} => (c \in L <=> n2[c] > 0) /\ A2[c] = HeadWord(V, t, c, n2[c])
  <2>1. ASSUME NEW c \in K
        PROVE  IF c < q THEN n2[c] = 0
               ELSE c \notin {q} => (c \in L <=> n2[c] > 0) /\ A2[c] = HeadWord(V, t, c, n2[c])
    <3>1. c = q => ~ (c < q)
      BY <1>1, <1>2
    <3>2. c # q => n2[c] = n[c] /\ A2[c] = A[c]
      BY <1>1, <1>6, <1>10
    <3>. QED
      BY <3>1, <3>2, <1>1 DEF UpdateWords
  <2>. QED
    BY <2>1
<1>12. \A c \in C : IF c < q THEN A2[c] = IF c \in L THEN V[c] ELSE with_black(V[c])
                    ELSE c \notin K => A2[c] = V[c]
  BY <1>1, <1>10 DEF UpdateWords
<1>13. ASSUME NEW x \in Scan(w, K, R)
       PROVE  IF Is_block_in_dynamic_heap(V[x])
                THEN \/ Linked(V, n2, t, x)
                     \/ /\ V[x].at - 1 < q \/ V[x].at - 1 \in {q}
                        /\ A2[x] = Val_dynamic_block(dest[V[x].at - 1] + 1)
                ELSE A2[x] = V[x]
  <2>1. CASE x = l
    BY <2>1, <1>2, <1>5, <1>7 DEF OneWord
  <2>2. CASE x # l
    <3>1. A2[x] = A[x]
      BY <2>2, <1>2 DEF OneWord
    <3>2. ASSUME Is_block_in_dynamic_heap(V[x]), Linked(V, n, t, x) PROVE Linked(V, n2, t, x)
      <4>1. PICK c : c = V[x].at - 1
        OBVIOUS
      <4>2. PICK i \in 1 .. n[c] : t[c][i] = x
        BY <3>2, <4>1 DEF Linked
      <4>3. c \in K
        BY <3>2, <4>1, <1>1 DEF UpdateWords
      <4>4. i \in 1 .. n2[c]
        <5>1. CASE c = q
          <6>1. i # n[q]
            BY <2>2, <4>2, <5>1
          <6>2. n[q] \in Nat /\ n2[q] = n[q] - 1
            BY <1>4
          <6>. QED
            BY <4>2, <5>1, <6>1, <6>2
        <5>2. CASE c # q
          BY <4>2, <4>3, <5>2, <1>6
        <5>. QED
          BY <5>1, <5>2
      <4>. QED
        BY <4>1, <4>2, <4>4 DEF Linked
    <3>. QED
      BY <3>1, <3>2, <1>1 DEF UpdateWords
  <2>. QED
    BY <2>1, <2>2
<1>14. \A x \in Places(R) : x \notin Scan(w, K, R) /\ x \notin C => A2[x] = V[x]
  BY <1>1, <1>5 DEF UpdateWords, OneWord
<1>15. L \subseteq K /\ \A x \in Scan(w, K, R) : Is_block_in_dynamic_heap(V[x]) => V[x].at - 1 \in L
  BY <1>1 DEF UpdateWords
<1>16. UpdateWords(A2, V, w, C, K, R, L, n2, t, dest, q, {q})
  BY <1>9, <1>11, <1>12, <1>13, <1>14, <1>15 DEF UpdateWords
<1>. QED
  BY <1>1, <1>16 DEF Updating

\* Updating reads and writes the words that are there.
UpdateState(V, w, C, K, R, A, n, t, L, dest, q, X) ==
  Words(R, A) /\ Updating(A, V, w, C, K, R, L, n, t, dest, q, X)

UpdateInv ==
  /\ In("update") /\ root = 0
  /\ \E V, w, C, K, R, A, n, t, L, dest :
       UpdateState(V, w, C, K, R, A, n, t, L, dest, p, {}) /\ alloc_pos = dest[p]
AtLinks(V, w, C, K, R, A, n, t, L, dest) ==
  /\ UpdateState(V, w, C, K, R, A, n, t, L, dest, p, {p})
  /\ p \in L /\ start = p /\ alloc_pos = dest[p] /\ h = HeadWord(V, t, p, n[p])
LinksInv ==
  In("links") /\ root = 0 /\ \E V, w, C, K, R, A, n, t, L, dest : AtLinks(V, w, C, K, R, A, n, t, L, dest)
\* The block at start is a closure, and has its header back.
AtClosure(V, w, C, K, R, A, n, t, L, dest) ==
  /\ UpdateState(V, w, C, K, R, A, n, t, L, dest, NextOf(w, start), {})
  /\ start \in L /\ Tag_hd(w[start]) = Closure_tag /\ p \in start + 1 .. NextOf(w, start)
  /\ dest[NextOf(w, start)] = alloc_pos + Wosize_hd(w[start]) + 1
ClosureInv ==
  In("closure") /\ root = 0 /\ \E V, w, C, K, R, A, n, t, L, dest : AtClosure(V, w, C, K, R, A, n, t, L, dest)

\* The state of updating is one of the words, of the roots and of heap_ptr.
LEMMA UpdatingNext ==
  ASSUME UNCHANGED heap_ptr, RootSet' = RootSet,
         NEW V, NEW w, NEW C, NEW K, NEW R, NEW A, NEW n, NEW t, NEW L, NEW dest, NEW q, NEW X,
         Updating(A, V, w, C, K, R, L, n, t, dest, q, X)
  PROVE  Updating(A, V, w, C, K, R, L, n, t, dest, q, X)'
<1>1. Frame(V, w, C, K, R)'
  BY FrameNext DEF Updating
<1>2. UpdateWords(A, V, w, C, K, R, L, n, t, dest, q, X)'
  BY DEF Updating, UpdateWords, Places, HeapWosize, StaticWosize
<1>3. Plan(w, C, L, dest, q)'
  BY DEF Updating, Plan, StaticWosize
<1>. QED
  BY <1>1, <1>2, <1>3 DEF Updating

\* What the words of a heap being updated are.
LEMMA UpdateFacts ==
  ASSUME Sound, NEW V, NEW w, NEW C, NEW K, NEW R, NEW A, NEW n, NEW t, NEW L, NEW dest, NEW q, NEW X,
         UpdateState(V, w, C, K, R, A, n, t, L, dest, q, X)
  PROVE  /\ Frame(V, w, C, K, R) /\ Alive(w, C, K) /\ K \subseteq C /\ L \subseteq K /\ R = RootSet
         /\ ChainsIn(A, V, w, C, K, R, Scan(w, K, R), n, t) /\ q \in C \cup {heap_ptr} /\ q \in Int
         /\ \A c \in C : c <= q => dest[c] \in StaticWosize .. c
         /\ \A c \in C : /\ c \in Int /\ c >= StaticWosize /\ c < heap_ptr /\ c \in Places(R) /\ c \in 0 .. HeapWosize - 1
                         /\ InHeap(c) /\ V[c] = w[c] /\ WhiteHeader(w[c]) /\ Wosize_hd(w[c]) \in Nat /\ mem[c] = A[c]
                         /\ NextOf(w, c) \in Int /\ c < NextOf(w, c)
         /\ dest[q] \in Int /\ dest[q] >= StaticWosize /\ dest[q] <= q
<1>1. /\ Frame(V, w, C, K, R) /\ Alive(w, C, K) /\ K \subseteq C /\ L \subseteq K /\ Plan(w, C, L, dest, q) /\ Words(R, A)
      /\ R = RootSet /\ q \in C \cup {heap_ptr}
  BY DEF UpdateState, Updating, UpdateWords, Frame, Alive, Plan
<1>2. ChainsIn(A, V, w, C, K, R, Scan(w, K, R), n, t)
  BY <1>1 DEF UpdateState, Updating, UpdateWords, ChainsIn
<1>3. StaticWosize \in Nat /\ heap_ptr \in Nat /\ HeapWosize \in Nat
  BY Bounds
<1>4. \A c \in C : /\ c \in StaticWosize .. heap_ptr - 1 /\ c \in 0 .. HeapWosize - 1 /\ c \in Int /\ InHeap(c)
                   /\ WhiteHeader(w[c]) /\ Wosize_hd(w[c]) \in Nat
  BY <1>1, TiledFacts
<1>5. \A c \in C : c \in Places(R) /\ V[c] = w[c]
  BY <1>1, FrameFacts
<1>6. \A c \in C : mem[c] = A[c]
  BY <1>1, <1>4, <1>5 DEF Words, At
<1>7. \A c \in C : /\ c >= StaticWosize /\ c < heap_ptr /\ NextOf(w, c) \in Int /\ c < NextOf(w, c)
  BY <1>3, <1>4 DEF NextOf
<1>8. q \in Int /\ (\A c \in C : c <= q => dest[c] \in StaticWosize .. c) /\ dest[q] \in StaticWosize .. q
  <2>1. q \in Int /\ q <= q
    BY <1>1, <1>3, <1>4
  <2>. QED
    BY <2>1, <1>1 DEF Plan
<1>. QED
  BY <1>1, <1>2, <1>3, <1>4, <1>5, <1>6, <1>7, <1>8

\* A step of updating that writes nothing.
LEMMA UpdateQuiet ==
  ASSUME Sound, ctl = "gc", UNCHANGED vmvars,
         h' \in Sizable, root' = 0, p' \in Int, start' \in Int, alloc_pos' \in Int,
         NEW V, NEW w, NEW C, NEW K, NEW R, NEW A, NEW n, NEW t, NEW L, NEW dest, NEW q, NEW X,
         UpdateState(V, w, C, K, R, A, n, t, L, dest, q, X)
  PROVE  Sound' /\ ctl' = "gc" /\ UpdateState(V, w, C, K, R, A, n, t, L, dest, q, X)'
<1>1. /\ Sound' /\ RootSet' = RootSet /\ ctl' = "gc" /\ heap_ptr' = heap_ptr /\ UNCHANGED <<mem, regs>>
  <2>1. root' \in 0 .. Len(Roots) + 1
    BY Bounds
  <2>. QED
    BY <2>1, QuietStep
<1>2. Updating(A, V, w, C, K, R, L, n, t, dest, q, X)'
  BY <1>1, UpdatingNext DEF UpdateState
<1>3. Words(R, A)'
  BY <1>1, WordsNext DEF UpdateState
<1>. QED
  BY <1>1, <1>2, <1>3 DEF UpdateState

\* Writing one word, of the heap or of the registers.
LEMMA UpdateWrite ==
  ASSUME Sound, ctl = "gc", Unmoved, NEW R, R = RootSet, NEW A, Words(R, A), NEW a \in Places(R), NEW v \in Sizable, Put(a, v, mem),
         h' \in Sizable, root' = 0, p' \in Int, start' \in Int, alloc_pos' \in Int,
         NEW A2, A2 = [x \in Places(R) |-> IF x = a THEN v ELSE A[x]]
  PROVE  /\ Sound' /\ ctl' = "gc" /\ RootSet' = RootSet /\ heap_ptr' = heap_ptr
         /\ OneWord(A, A2, R, a, v) /\ Words(R, A2)'
<1>1. /\ mem' \in SizedHeap /\ SizedRegs(acc', env', stack', globals')
      /\ Len(stack') = Len(stack) /\ Len(globals') = Len(globals)
      /\ \A l \in Places(R) : At(l)' = IF l = a THEN v ELSE IF l >= 0 THEN mem[l] ELSE At(l)
  BY Bounds, PutWords
<1>2. /\ heap_ptr' = heap_ptr /\ heap_ptr' \in Nat /\ heap_ptr' >= StaticWosize /\ heap_ptr' <= heap_end
      /\ UNCHANGED <<heap_end, pend>> /\ ctl' \in {"gc", "done"} /\ ctl' = "gc" /\ root' \in 0 .. Len(Roots) + 1
  BY Bounds DEF Unmoved
<1>3. Sound' /\ RootSet' = RootSet
  BY <1>1, <1>2, SteppedSound
<1>4. OneWord(A, A2, R, a, v)
  BY DEF OneWord
<1>5. ASSUME NEW x \in Places(R) PROVE A2[x] = At(x)'
  <2>1. A[x] = At(x) /\ (x >= 0 => At(x) = mem[x])
    BY DEF Words, At
  <2>. QED
    BY <2>1, <1>1
<1>6. Words(R, A2)'
  BY <1>5 DEF Words, Places, HeapWosize, StaticWosize
<1>. QED
  BY <1>2, <1>3, <1>4, <1>6

\* Writing a word of the heap is a store.
LEMMA HeapPut ==
  ASSUME Sound, UNCHANGED regs, NEW a \in 0 .. HeapWosize - 1, NEW v, mem' = [mem EXCEPT ![a] = v]
  PROVE  Put(a, v, mem)
<1>1. a \in Int /\ a >= 0 /\ StackWosize \in Nat
  BY Bounds, SizesAssumption
<1>2. acc' = acc /\ env' = env /\ stack' = stack /\ globals' = globals
  BY DEF regs
<1>3. a # acc_addr /\ a # env_addr
  BY <1>1 DEF acc_addr, env_addr
<1>4. stack = [i \in DOMAIN stack |-> IF a = stack_addr(i) THEN v ELSE stack[i]]
  <2>1. stack \in [1 .. Len(stack) -> Sizable] /\ DOMAIN stack = 1 .. Len(stack) /\ Len(stack) \in Nat
    BY DEF Sound, SizedRegs
  <2>2. \A i \in 1 .. Len(stack) : a # stack_addr(i)
    BY <2>1, <1>1 DEF stack_addr
  <2>. QED
    BY <2>1, <2>2
<1>5. globals = [i \in DOMAIN globals |-> IF a = global_addr(i) THEN v ELSE globals[i]]
  <2>1. globals \in [1 .. Len(globals) -> Sizable] /\ DOMAIN globals = 1 .. Len(globals) /\ Len(globals) \in Nat
    BY DEF Sound, SizedRegs
  <2>2. \A i \in 1 .. Len(globals) : a # global_addr(i)
    BY <2>1, <1>1 DEF global_addr
  <2>. QED
    BY <2>1, <2>2
<1>. QED
  BY <1>1, <1>2, <1>3, <1>4, <1>5 DEF Put

\* After the last field, every reference is in a thread.
LEMMA ReverseDoneStep == ASSUME Sound, ReverseInv, ReverseDone PROVE Sound' /\ UpdateInv'
<1>1. PICK V, w, C, K, R : ThreadState(V, w, C, K, R, ScanTo(w, K, R, p)) /\ p \in C \cup {heap_ptr}
  BY DEF ReverseInv
<1>2. /\ ctl = "gc" /\ root = 0 /\ p >= heap_ptr /\ phase' = "update" /\ p' = StaticWosize /\ alloc_pos' = StaticWosize
      /\ UNCHANGED vmvars /\ UNCHANGED <<root, h, start>>
  BY DEF ReverseInv, ReverseDone, In, FirstBlock
<1>3. PICK q, E : q = p /\ E = ScanTo(w, K, R, q)
  OBVIOUS
<1>4. Frame(V, w, C, K, R) /\ StaticWosize \in Nat /\ heap_ptr \in Nat /\ q \in Int /\ q >= heap_ptr
  BY <1>1, <1>2, <1>3, Bounds DEF ThreadState, Sound
<1>5. E = Scan(w, K, R)
  <2>1. \A l \in Scan(w, K, R) : l \in Int /\ l < heap_ptr
    BY <1>4, FrameFacts
  <2>. QED
    BY <2>1, <1>3, <1>4 DEF ScanTo
<1>6. PICK A, n, t : Words(R, A) /\ Threading(A, V, K, R, E, n, t)
  BY <1>1, <1>3 DEF ThreadState, Threaded
<1>7. PICK L, dest, b : L = {c \in K : n[c] > 0} /\ dest = [x \in Int |-> StaticWosize] /\ b = StaticWosize
  OBVIOUS
<1>8. Updating(A, V, w, C, K, R, L, n, t, dest, StaticWosize, {})
  BY <1>4, <1>5, <1>6, <1>7, UpdateBegin
<1>9. UpdateState(V, w, C, K, R, A, n, t, L, dest, b, {})
  BY <1>6, <1>7, <1>8 DEF UpdateState
<1>10. Sound' /\ ctl' = "gc" /\ UpdateState(V, w, C, K, R, A, n, t, L, dest, b, {})'
  <2>1. h' \in Sizable /\ root' = 0 /\ p' \in Int /\ start' \in Int /\ alloc_pos' \in Int
    BY <1>2, <1>4 DEF Sound
  <2>. QED
    BY <2>1, <1>2, <1>9, UpdateQuiet
<1>11. b = p' /\ alloc_pos' = dest[p']
  BY <1>2, <1>4, <1>7
<1>12. UpdateState(V, w, C, K, R, A, n, t, L, dest, p, {})'
  BY <1>10, <1>11 DEF UpdateState
<1>. QED
  BY <1>2, <1>10, <1>11, <1>12 DEF UpdateInv, In

\* The word where update_pointers looks for the header of the block at q.
LEMMA UpdateHead ==
  ASSUME Sound, NEW V, NEW w, NEW C, NEW K, NEW R, NEW A, NEW n, NEW t, NEW L, NEW dest, NEW q,
         UpdateState(V, w, C, K, R, A, n, t, L, dest, q, {}), q < heap_ptr
  PROVE  /\ q \in C /\ InHeap(q)
         /\ IF Color_hd(mem[q]) = Color_black
              THEN q \in L /\ mem[q] = HeadWord(V, t, q, n[q]) /\ mem[q] \in Sizable
              ELSE mem[q] = V[q] /\ q \notin L /\ (q \in K => n[q] = 0)
<1>1. /\ Frame(V, w, C, K, R) /\ L \subseteq K /\ K \subseteq C /\ q \in C \cup {heap_ptr} /\ q \in Int
      /\ ChainsIn(A, V, w, C, K, R, Scan(w, K, R), n, t)
  BY UpdateFacts
<1>2. q \in C /\ InHeap(q) /\ mem[q] = A[q] /\ V[q] = w[q] /\ WhiteHeader(V[q]) /\ ~ (q < q)
  <2>1. q \in C
    BY <1>1, Bounds
  <2>2. InHeap(q) /\ mem[q] = A[q] /\ V[q] = w[q] /\ WhiteHeader(w[q])
    BY <2>1, UpdateFacts
  <2>. QED
    BY <2>1, <2>2, <1>1
<1>3. UpdateWords(A, V, w, C, K, R, L, n, t, dest, q, {})
  BY DEF UpdateState, Updating
<1>4. CASE q \notin K
  <2>1. mem[q] = V[q] /\ q \notin L
    BY <1>1, <1>2, <1>3, <1>4 DEF UpdateWords
  <2>. QED
    BY <2>1, <1>2, <1>4 DEF WhiteHeader, Color_hd, Color_white, Color_black
<1>5. CASE q \in K
  <2>1. (q \in L <=> n[q] > 0) /\ mem[q] = HeadWord(V, t, q, n[q])
    BY <1>2, <1>3, <1>5 DEF UpdateWords
  <2>2. n[q] \in Nat
    BY <1>1, <1>5 DEF ChainsIn, Chains
  <2>3. PICK i : i = n[q]
    OBVIOUS
  <2>4. i \in 0 .. n[q] /\ mem[q] = HeadWord(V, t, q, i)
    BY <2>1, <2>2, <2>3
  <2>5. /\ mem[q] \in Sizable
        /\ IF i = 0 THEN mem[q] = V[q] ELSE t[q][i] \in Int /\ mem[q] = Back(t[q][i])
    BY <1>1, <1>5, <2>4, HeadWords
  <2>6. CASE i = 0
    <3>1. Color_hd(mem[q]) # Color_black
      BY <2>5, <2>6, <1>2 DEF WhiteHeader, Color_hd, Color_white, Color_black
    <3>. QED
      BY <3>1, <2>1, <2>3, <2>5, <2>6, <1>2
  <2>7. CASE i # 0
    <3>1. Color_hd(mem[q]) = Color_black
      BY <2>5, <2>7, LinkColours DEF Color_hd
    <3>. QED
      BY <3>1, <2>1, <2>2, <2>3, <2>5, <2>7, <1>2
  <2>. QED
    BY <2>6, <2>7
<1>. QED
  BY <1>4, <1>5

\* A block no word refers to.
LEMMA UpdateDeadStep == ASSUME Sound, UpdateInv, UpdateDead PROVE Sound' /\ UpdateInv'
<1>1. PICK V, w, C, K, R, A, n, t, L, dest : UpdateState(V, w, C, K, R, A, n, t, L, dest, p, {}) /\ alloc_pos = dest[p]
  BY DEF UpdateInv
<1>2. PICK q : q = p
  OBVIOUS
<1>3. PICK v : v = with_black(mem[q])
  OBVIOUS
<1>4. /\ ctl = "gc" /\ phase = "update" /\ root = 0 /\ q < heap_ptr /\ Color_hd(mem[q]) # Color_black
      /\ mem' = [mem EXCEPT ![q] = v] /\ p' = q + Wosize_hd(mem[q]) + 1
      /\ UNCHANGED <<regs, phase, root, h, start, alloc_pos>> /\ Unmoved
  BY <1>2, <1>3 DEF UpdateInv, UpdateDead, In
<1>5. UpdateState(V, w, C, K, R, A, n, t, L, dest, q, {}) /\ alloc_pos = dest[q]
  BY <1>1, <1>2
<1>6. q \in C /\ mem[q] = V[q] /\ q \notin L /\ (q \in K => n[q] = 0)
  BY <1>4, <1>5, UpdateHead
<1>7. /\ q \in Int /\ q \in Places(R) /\ q \in 0 .. HeapWosize - 1 /\ V[q] = w[q] /\ WhiteHeader(w[q])
      /\ NextOf(w, q) \in Int /\ R = RootSet /\ Alive(w, C, K)
  BY <1>5, <1>6, UpdateFacts
<1>8. v \in Sizable /\ v = with_black(V[q])
  BY <1>3, <1>6, <1>7, HeaderColours
<1>9. PICK q2, dest2 : PlanMore(w, C, L, dest, q, dest2, q2)
  BY DEF PlanMore
<1>10. q2 = NextOf(w, q) /\ p' = q2
  BY <1>4, <1>6, <1>7, <1>9 DEF PlanMore, NextOf
<1>11. PICK A2 : A2 = [x \in Places(R) |-> IF x = q THEN v ELSE A[x]]
  OBVIOUS
<1>12. /\ Sound' /\ ctl' = "gc" /\ RootSet' = RootSet /\ heap_ptr' = heap_ptr
       /\ OneWord(A, A2, R, q, v) /\ Words(R, A2)'
  <2>1. Put(q, v, mem) /\ Words(R, A)
    BY <1>4, <1>5, <1>7, HeapPut DEF UpdateState
  <2>2. h' \in Sizable /\ root' = 0 /\ p' \in Int /\ start' \in Int /\ alloc_pos' \in Int
    BY <1>4, <1>7, <1>10 DEF Sound
  <2>. QED
    BY <2>1, <2>2, <1>4, <1>7, <1>8, <1>11, UpdateWrite
<1>13. Updating(A2, V, w, C, K, R, L, n, t, dest2, q2, {})
  <2>1. OneWord(A, A2, R, q, IF q \in L THEN V[q] ELSE with_black(V[q]))
    BY <1>6, <1>8, <1>12
  <2>2. Updating(A, V, w, C, K, R, L, n, t, dest, q, {}) /\ {} \subseteq {q}
    BY <1>5 DEF UpdateState
  <2>. QED
    BY <1>6, <1>9, <2>1, <2>2, UpdateBlock
<1>14. UpdateState(V, w, C, K, R, A2, n, t, L, dest2, q2, {})'
  BY <1>12, <1>13, UpdatingNext DEF UpdateState
<1>15. alloc_pos' = dest2[q2]
  <2>1. dest2[q2] = dest[q] + Grow(w, L, q) /\ dest[q] \in Int
    <3>1. Plan(w, C, L, dest, q)
      BY <1>5 DEF UpdateState, Updating
    <3>. QED
      BY <3>1, <1>5, <1>6, <1>7, <1>9, PlanNext, UpdateFacts
  <2>. QED
    BY <2>1, <1>4, <1>5, <1>6 DEF Grow
<1>16. UpdateState(V, w, C, K, R, A2, n, t, L, dest2, p, {})' /\ alloc_pos' = dest2[p']
  BY <1>10, <1>14, <1>15 DEF UpdateState
<1>. QED
  BY <1>4, <1>12, <1>16 DEF UpdateInv, In

\* No immediate looks like the first link of a thread, as a float may.
NoBlackImmediate == \A w \in Immediate : w.low # Color_black

\* update_pointers has found the thread of the block at p.
LEMMA UnwindStep == ASSUME Sound, UpdateInv, Unwind PROVE Sound' /\ LinksInv'
<1>1. PICK V, w, C, K, R, A, n, t, L, dest : UpdateState(V, w, C, K, R, A, n, t, L, dest, p, {}) /\ alloc_pos = dest[p]
  BY DEF UpdateInv
<1>2. PICK q : q = p
  OBVIOUS
<1>3. /\ ctl = "gc" /\ root = 0 /\ q < heap_ptr /\ Color_hd(mem[q]) = Color_black /\ phase' = "links" /\ start' = q
      /\ h' = mem[q] /\ UNCHANGED vmvars /\ UNCHANGED <<root, p, alloc_pos>>
  BY <1>2 DEF UpdateInv, Unwind, In
<1>4. UpdateState(V, w, C, K, R, A, n, t, L, dest, q, {}) /\ alloc_pos = dest[q]
  BY <1>1, <1>2
<1>5. q \in L /\ h' = HeadWord(V, t, q, n[q]) /\ h' \in Sizable
  BY <1>3, <1>4, UpdateHead
<1>6. q \in Int
  BY <1>4, UpdateFacts
<1>7. UpdateState(V, w, C, K, R, A, n, t, L, dest, q, {q})
  <2>1. UpdateWords(A, V, w, C, K, R, L, n, t, dest, q, {q})
    BY <1>4 DEF UpdateState, Updating, UpdateWords
  <2>. QED
    BY <2>1, <1>4 DEF UpdateState, Updating
<1>8. Sound' /\ ctl' = "gc" /\ UpdateState(V, w, C, K, R, A, n, t, L, dest, q, {q})'
  <2>1. root' = 0 /\ p' \in Int /\ start' \in Int /\ alloc_pos' \in Int
    BY <1>3, <1>6 DEF Sound
  <2>. QED
    BY <2>1, <1>3, <1>5, <1>7, UpdateQuiet
<1>9. p' = q /\ alloc_pos' = dest[q]
  BY <1>2, <1>3, <1>4
<1>10. AtLinks(V, w, C, K, R, A, n, t, L, dest)'
  BY <1>3, <1>5, <1>8, <1>9 DEF AtLinks, UpdateState
<1>. QED
  BY <1>3, <1>8, <1>10 DEF LinksInv, In

\* At a link the thread goes on; at a header it ends.
LEMMA LinksWord ==
  ASSUME Sound, NEW V, NEW w, NEW C, NEW K, NEW R, NEW A, NEW n, NEW t, NEW L, NEW dest,
         AtLinks(V, w, C, K, R, A, n, t, L, dest)
  PROVE  /\ p \in K /\ p \in C /\ n[p] \in Nat
         /\ IF Color_hd(h) = Color_black
              THEN /\ n[p] > 0 /\ h.kind = "dyn" /\ h.at = t[p][n[p]] /\ h.at \in Scan(w, K, R) /\ h.at \in Places(R)
                   /\ without_red(At(h.at)) = HeadWord(V, t, p, n[p] - 1) /\ HeadWord(V, t, p, n[p] - 1) \in Sizable
              ELSE n[p] = 0 /\ h = V[p] /\ IsHd(h)
<1>1. PICK q : q = p
  OBVIOUS
<1>2. UpdateState(V, w, C, K, R, A, n, t, L, dest, q, {q}) /\ q \in L /\ h = HeadWord(V, t, q, n[q])
  BY <1>1 DEF AtLinks
<1>3. PICK E : E = Scan(w, K, R)
  OBVIOUS
<1>4. Frame(V, w, C, K, R) /\ K \subseteq C /\ L \subseteq K /\ ChainsIn(A, V, w, C, K, R, E, n, t)
  BY <1>2, <1>3, UpdateFacts
<1>5. q \in K /\ q \in C /\ n[q] \in Nat
  BY <1>2, <1>4 DEF ChainsIn, Chains
<1>6. PICK i : i = n[q]
  OBVIOUS
<1>7. i \in 0 .. n[q] /\ i \in Nat /\ h = HeadWord(V, t, q, i)
  BY <1>2, <1>5, <1>6
<1>8. IF i = 0 THEN h = V[q] /\ WhiteHeader(V[q])
      ELSE t[q][i] \in E /\ t[q][i] \in Int /\ t[q][i] \in Places(R) /\ h = Back(t[q][i])
  BY <1>4, <1>5, <1>7, HeadWords
<1>9. CASE i = 0
  <2>1. Color_hd(h) # Color_black /\ IsHd(h)
    BY <1>8, <1>9 DEF WhiteHeader, Color_hd, Color_white, Color_black
  <2>. QED
    BY <2>1, <1>1, <1>5, <1>6, <1>8, <1>9
<1>10. CASE i # 0
  <2>1. Color_hd(h) = Color_black /\ h.kind = "dyn" /\ h.at = t[q][i]
    BY <1>8, <1>10, LinkColours DEF Color_hd
  <2>2. i \in 1 .. n[q] /\ i > 0
    BY <1>6, <1>7, <1>10
  <2>3. A[t[q][i]] = with_red(HeadWord(V, t, q, i - 1))
    BY <1>4, <1>5, <2>2 DEF ChainsIn, Chains
  <2>4. At(h.at) = A[t[q][i]]
    BY <1>2, <1>8, <1>10, <2>1 DEF UpdateState, Words
  <2>5. PICK j, hd : j = i - 1 /\ hd = HeadWord(V, t, q, j)
    OBVIOUS
  <2>6. j \in 0 .. n[q]
    BY <2>2, <2>5, <1>5
  <2>7. hd \in Sizable /\ without_red(with_red(hd)) = hd
    BY <1>4, <1>5, <2>5, <2>6, HeadWords
  <2>. QED
    BY <2>1, <2>2, <2>3, <2>4, <2>5, <2>7, <1>1, <1>3, <1>5, <1>6, <1>8, <1>10
<1>. QED
  BY <1>9, <1>10

\* A word of the thread gets its final value.
LEMMA LinkStep == ASSUME Sound, LinksInv, Link PROVE Sound' /\ LinksInv'
<1>1. PICK V, w, C, K, R, A, n, t, L, dest : AtLinks(V, w, C, K, R, A, n, t, L, dest)
  BY DEF LinksInv
<1>2. PICK q, l, v : q = p /\ l = h.at /\ v = Val_dynamic_block(dest[q] + 1)
  OBVIOUS
<1>3. UpdateState(V, w, C, K, R, A, n, t, L, dest, q, {q}) /\ q \in L /\ start = q /\ alloc_pos = dest[q]
  BY <1>1, <1>2 DEF AtLinks
<1>4. q \in Int /\ dest[q] \in Int /\ R = RootSet
  BY <1>3, UpdateFacts
<1>5. /\ ctl = "gc" /\ phase = "links" /\ root = 0 /\ Color_hd(h) = Color_black /\ h' = without_red(At(l)) /\ Put(l, v, mem)
      /\ UNCHANGED <<phase, root, p, start, alloc_pos>> /\ Unmoved
  <2>1. alloc_pos + (p - start) + 1 = dest[q] + 1
    BY <1>2, <1>3, <1>4
  <2>. QED
    BY <2>1, <1>2 DEF LinksInv, Link, In
<1>6. /\ q \in K /\ n[q] \in Nat /\ n[q] > 0 /\ l = t[q][n[q]] /\ l \in Places(R)
      /\ h' = HeadWord(V, t, q, n[q] - 1) /\ h' \in Sizable
  BY <1>1, <1>2, <1>5, LinksWord
<1>7. v \in Sizable
  BY <1>2, <1>4, LinkColours
<1>8. PICK A2 : A2 = [x \in Places(R) |-> IF x = l THEN v ELSE A[x]]
  OBVIOUS
<1>9. /\ Sound' /\ ctl' = "gc" /\ RootSet' = RootSet /\ heap_ptr' = heap_ptr
      /\ OneWord(A, A2, R, l, v) /\ Words(R, A2)'
  <2>1. root' = 0 /\ p' \in Int /\ start' \in Int /\ alloc_pos' \in Int
    BY <1>5 DEF Sound
  <2>2. Words(R, A)
    BY <1>3 DEF UpdateState
  <2>. QED
    BY <2>1, <2>2, <1>4, <1>5, <1>6, <1>7, <1>8, UpdateWrite
<1>10. PICK n2 : n2 = [c \in K |-> IF c = q THEN n[q] - 1 ELSE n[c]]
  OBVIOUS
<1>11. Updating(A2, V, w, C, K, R, L, n2, t, dest, q, {q})
  <2>1. Updating(A, V, w, C, K, R, L, n, t, dest, q, {q})
    BY <1>3 DEF UpdateState
  <2>2. OneWord(A, A2, R, l, Val_dynamic_block(dest[q] + 1))
    BY <1>2, <1>9
  <2>. QED
    BY <2>1, <2>2, <1>6, <1>10, LinkWord
<1>12. UpdateState(V, w, C, K, R, A2, n2, t, L, dest, q, {q})'
  BY <1>9, <1>11, UpdatingNext DEF UpdateState
<1>13. p' = q /\ start' = q /\ alloc_pos' = dest[q] /\ h' = HeadWord(V, t, q, n2[q])
  BY <1>2, <1>3, <1>5, <1>6, <1>10
<1>14. AtLinks(V, w, C, K, R, A2, n2, t, L, dest)'
  BY <1>3, <1>12, <1>13 DEF AtLinks, UpdateState
<1>. QED
  BY <1>5, <1>9, <1>14 DEF LinksInv, In

\* The end of the thread: the header comes back.
LEMMA HeaderBackStep == ASSUME Sound, LinksInv, HeaderBack PROVE Sound' /\ (UpdateInv' \/ ClosureInv')
<1>1. PICK V, w, C, K, R, A, n, t, L, dest : AtLinks(V, w, C, K, R, A, n, t, L, dest)
  BY DEF LinksInv
<1>2. PICK q, v : q = p /\ v = h
  OBVIOUS
<1>3. UpdateState(V, w, C, K, R, A, n, t, L, dest, q, {q}) /\ q \in L /\ start = q /\ alloc_pos = dest[q]
  BY <1>1, <1>2 DEF AtLinks
<1>4. q \in K /\ q \in C /\ n[q] = 0 /\ v = V[q]
  BY <1>1, <1>2, LinksWord DEF HeaderBack
<1>5. /\ q \in Int /\ q \in Places(R) /\ q \in 0 .. HeapWosize - 1 /\ V[q] = w[q] /\ WhiteHeader(w[q])
      /\ Wosize_hd(w[q]) \in Nat /\ NextOf(w, q) \in Int /\ R = RootSet /\ Alive(w, C, K) /\ dest[q] \in Int
  BY <1>3, <1>4, UpdateFacts
<1>6. /\ ctl = "gc" /\ root = 0 /\ mem' = [mem EXCEPT ![q] = v] /\ h' = Undef /\ UNCHANGED <<regs, root, start>> /\ Unmoved
      /\ IF Tag_hd(w[q]) = Closure_tag
           THEN phase' = "closure" /\ p' = q + 1 /\ alloc_pos' = dest[q]
           ELSE phase' = "update" /\ p' = NextOf(w, q) /\ alloc_pos' = dest[q] + Wosize_hd(w[q]) + 1
  BY <1>2, <1>3, <1>4, <1>5 DEF LinksInv, HeaderBack, In, NextOf
<1>7. v \in Sizable
  BY <1>4, <1>5 DEF WhiteHeader
<1>8. PICK q2, dest2 : PlanMore(w, C, L, dest, q, dest2, q2)
  BY DEF PlanMore
<1>9. PICK A2 : A2 = [x \in Places(R) |-> IF x = q THEN v ELSE A[x]]
  OBVIOUS
<1>10. /\ Sound' /\ ctl' = "gc" /\ RootSet' = RootSet /\ heap_ptr' = heap_ptr
       /\ OneWord(A, A2, R, q, v) /\ Words(R, A2)'
  <2>1. Put(q, v, mem) /\ Words(R, A)
    BY <1>3, <1>5, <1>6, HeapPut DEF UpdateState
  <2>2. h' \in Sizable /\ root' = 0 /\ p' \in Int /\ start' \in Int /\ alloc_pos' \in Int
    BY <1>5, <1>6, UndefSizable DEF Sound
  <2>. QED
    BY <2>1, <2>2, <1>5, <1>6, <1>7, <1>9, UpdateWrite
<1>11. Updating(A2, V, w, C, K, R, L, n, t, dest2, q2, {})
  <2>1. OneWord(A, A2, R, q, IF q \in L THEN V[q] ELSE with_black(V[q]))
    BY <1>3, <1>4, <1>10
  <2>2. Updating(A, V, w, C, K, R, L, n, t, dest, q, {q}) /\ {q} \subseteq {q}
    BY <1>3 DEF UpdateState
  <2>3. q \in K => n[q] = 0
    BY <1>4
  <2>. QED
    BY <1>4, <1>8, <2>1, <2>2, <2>3, UpdateBlock
<1>12. UpdateState(V, w, C, K, R, A2, n, t, L, dest2, q2, {})'
  BY <1>10, <1>11, UpdatingNext DEF UpdateState
<1>13. q2 = NextOf(w, q) /\ dest2[q2] = dest[q] + Wosize_hd(w[q]) + 1
  <2>1. dest2[q2] = dest[q] + Grow(w, L, q) /\ q2 = NextOf(w, q)
    <3>1. Plan(w, C, L, dest, q)
      BY <1>3 DEF UpdateState, Updating
    <3>. QED
      BY <3>1, <1>4, <1>5, <1>8, PlanNext DEF PlanMore
  <2>. QED
    BY <2>1, <1>3, <1>5 DEF Grow
<1>14. CASE Tag_hd(w[q]) = Closure_tag
  <2>1. phase' = "closure" /\ p' = q + 1 /\ alloc_pos' = dest[q] /\ start' = q
    BY <1>3, <1>6, <1>14
  <2>2. UpdateState(V, w, C, K, R, A2, n, t, L, dest2, NextOf(w, start), {})'
    BY <2>1, <1>12, <1>13 DEF UpdateState
  <2>3. q + 1 \in q + 1 .. NextOf(w, q)
    BY <1>5 DEF NextOf
  <2>4. AtClosure(V, w, C, K, R, A2, n, t, L, dest2)'
    BY <2>1, <2>2, <2>3, <1>3, <1>13, <1>14 DEF AtClosure
  <2>. QED
    BY <2>1, <2>4, <1>6, <1>10 DEF ClosureInv, In
<1>15. CASE Tag_hd(w[q]) # Closure_tag
  <2>1. phase' = "update" /\ p' = q2 /\ alloc_pos' = dest2[q2]
    BY <1>6, <1>13, <1>15
  <2>2. UpdateState(V, w, C, K, R, A2, n, t, L, dest2, p, {})' /\ alloc_pos' = dest2[p']
    BY <2>1, <1>12 DEF UpdateState
  <2>. QED
    BY <2>1, <2>2, <1>6, <1>10 DEF UpdateInv, In
<1>. QED
  BY <1>14, <1>15

\* No field of a closure looks like the first link of a thread: update_pointers finds no
\* infix header.
LEMMA ClosureFieldColour ==
  ASSUME Sound, NoBlackImmediate, NEW V, NEW w, NEW C, NEW K, NEW R, NEW A, NEW n, NEW t, NEW L, NEW dest,
         AtClosure(V, w, C, K, R, A, n, t, L, dest), p <= start + Wosize_hd(mem[start])
  PROVE  InHeap(p) /\ Color_hd(mem[p]) # Color_black
<1>1. PICK c, q, l : c = start /\ q = NextOf(w, c) /\ l = p
  OBVIOUS
<1>2. UpdateState(V, w, C, K, R, A, n, t, L, dest, q, {}) /\ c \in L /\ Tag_hd(w[c]) = Closure_tag /\ l \in c + 1 .. q
  BY <1>1 DEF AtClosure
<1>3. PICK E : E = Scan(w, K, R)
  OBVIOUS
<1>4. Frame(V, w, C, K, R) /\ Alive(w, C, K) /\ K \subseteq C /\ L \subseteq K /\ ChainsIn(A, V, w, C, K, R, E, n, t)
  BY <1>2, <1>3, UpdateFacts
<1>5. c \in K /\ c \in C /\ c \in Int /\ Wosize_hd(w[c]) \in Nat /\ mem[c] = A[c] /\ V[c] = w[c] /\ c < q
  BY <1>1, <1>2, <1>4, UpdateFacts
<1>6. UpdateWords(A, V, w, C, K, R, L, n, t, dest, q, {})
  BY <1>2 DEF UpdateState, Updating
<1>7. mem[c] = w[c]
  BY <1>2, <1>5, <1>6 DEF UpdateWords
<1>8. l \in FieldsOf(w, c) /\ l \in Int /\ Tag_hd(w[c]) < No_scan_tag /\ l = c + (l - c) /\ l - c \in 1 .. Wosize_hd(w[c])
  BY <1>1, <1>2, <1>5, <1>7 DEF FieldsOf, Closure_tag, No_scan_tag
<1>9. l \in E /\ l \in Places(R) /\ l \in 0 .. HeapWosize - 1 /\ l >= 0
  <2>1. l \in E
    BY <1>3, <1>5, <1>8 DEF Scan
  <2>2. FieldsOf(w, c) \subseteq 1 .. HeapWosize - 1 /\ HeapWosize \in Nat
    BY <1>4, <1>5, TiledFacts, Bounds
  <2>. QED
    BY <2>1, <2>2, <1>8 DEF Places
<1>10. mem[l] = A[l] /\ InHeap(l)
  BY <1>2, <1>9 DEF UpdateState, Words, At, InHeap
<1>11. CASE Is_block_in_dynamic_heap(V[l])
  <2>1. CASE Linked(V, n, t, l)
    <3>1. PICK b : b = V[l].at - 1
      OBVIOUS
    <3>2. PICK i \in 1 .. n[b] : t[b][i] = l
      BY <2>1, <3>1 DEF Linked
    <3>3. b \in K
      BY <1>3, <1>4, <1>6, <1>9, <1>11, <3>1 DEF UpdateWords
    <3>4. n[b] \in Nat /\ A[l] = with_red(HeadWord(V, t, b, i - 1))
      BY <1>4, <3>2, <3>3 DEF ChainsIn, Chains
    <3>5. PICK j, hd : j = i - 1 /\ hd = HeadWord(V, t, b, j)
      OBVIOUS
    <3>6. j \in 0 .. n[b]
      BY <3>2, <3>4, <3>5
    <3>7. IF j = 0 THEN hd = V[b] /\ WhiteHeader(V[b]) ELSE t[b][j] \in Int /\ hd = Back(t[b][j])
      BY <1>4, <3>3, <3>5, <3>6, HeadWords
    <3>8. with_red(hd).low \in {Color_red, 3}
      BY <3>7, HeaderColours, LinkColours
    <3>. QED
      BY <1>1, <1>10, <3>4, <3>5, <3>8 DEF Color_hd, Color_red, Color_black
  <2>2. CASE ~ Linked(V, n, t, l)
    <3>1. A[l] = Val_dynamic_block(dest[V[l].at - 1] + 1)
      BY <1>3, <1>6, <1>9, <1>11, <2>2 DEF UpdateWords
    <3>. QED
      BY <1>1, <1>10, <3>1 DEF Val_dynamic_block, Color_hd, Color_black
  <2>. QED
    BY <2>1, <2>2
<1>12. CASE ~ Is_block_in_dynamic_heap(V[l])
  <2>1. A[l] = V[l] /\ V[l] = w[l]
    BY <1>3, <1>4, <1>6, <1>9, <1>12 DEF UpdateWords, Frame
  <2>2. PICK i : i = l - c
    OBVIOUS
  <2>3. i \in 1 .. Wosize_hd(w[c]) /\ c + i = l
    BY <1>8, <2>2
  <2>4. FieldOK(w, c, i, K)
    BY <1>4, <1>5, <1>8, <2>3 DEF Alive, FieldsOK
  <2>5. IsCode(w[l]) \/ Value(w[l], K)
    BY <2>3, <2>4 DEF FieldOK
  <2>6. w[l].low # Color_black
    BY <2>5 DEF IsCode, Value, NoBlackImmediate, Color_black
  <2>. QED
    BY <1>1, <1>10, <2>1, <2>6 DEF Color_hd
<1>. QED
  BY <1>11, <1>12

\* update_pointers looks at a field of a closure, for an infix header that heads a thread.
LEMMA ClosureFieldStep ==
  ASSUME Sound, NoBlackImmediate, ClosureInv, ClosureField
  PROVE  Sound' /\ ClosureInv'
<1>1. PICK V, w, C, K, R, A, n, t, L, dest : AtClosure(V, w, C, K, R, A, n, t, L, dest)
  BY DEF ClosureInv
<1>2. PICK c, q, l : c = start /\ q = NextOf(w, c) /\ l = p
  OBVIOUS
<1>3. /\ UpdateState(V, w, C, K, R, A, n, t, L, dest, q, {}) /\ c \in L /\ Tag_hd(w[c]) = Closure_tag /\ l \in c + 1 .. q
      /\ dest[q] = alloc_pos + Wosize_hd(w[c]) + 1
  BY <1>1, <1>2 DEF AtClosure
<1>4. /\ ctl = "gc" /\ phase = "closure" /\ root = 0 /\ l <= c + Wosize_hd(mem[c]) /\ p' = l + 1
      /\ UNCHANGED <<vmvars, phase, root, h, start, alloc_pos>>
  BY <1>2 DEF ClosureInv, ClosureField, In
<1>5. c \in C /\ c \in Int /\ Wosize_hd(w[c]) \in Nat /\ c < q /\ mem[c] = A[c] /\ V[c] = w[c] /\ q \in Int
  BY <1>2, <1>3, UpdateFacts
<1>6. mem[c] = w[c]
  BY <1>3, <1>5 DEF UpdateState, Updating, UpdateWords
<1>7. l \in Int /\ l + 1 \in c + 1 .. q
  BY <1>2, <1>3, <1>4, <1>5, <1>6 DEF NextOf
<1>8. Sound' /\ ctl' = "gc" /\ UpdateState(V, w, C, K, R, A, n, t, L, dest, q, {})'
  <2>1. h' \in Sizable /\ root' = 0 /\ p' \in Int /\ start' \in Int /\ alloc_pos' \in Int
    BY <1>4, <1>7 DEF Sound
  <2>. QED
    BY <2>1, <1>3, <1>4, UpdateQuiet
<1>9. start' = c /\ q = NextOf(w, start') /\ p' \in c + 1 .. q /\ alloc_pos' = alloc_pos
  BY <1>2, <1>4, <1>7
<1>10. UpdateState(V, w, C, K, R, A, n, t, L, dest, NextOf(w, start), {})'
  BY <1>8, <1>9 DEF UpdateState
<1>11. AtClosure(V, w, C, K, R, A, n, t, L, dest)'
  BY <1>3, <1>9, <1>10 DEF AtClosure
<1>. QED
  BY <1>4, <1>8, <1>11 DEF ClosureInv, In

\* The fields of the closure have been looked at.
LEMMA ClosureDoneStep == ASSUME Sound, ClosureInv, ClosureDone PROVE Sound' /\ UpdateInv'
<1>1. PICK V, w, C, K, R, A, n, t, L, dest : AtClosure(V, w, C, K, R, A, n, t, L, dest)
  BY DEF ClosureInv
<1>2. PICK c, q, l : c = start /\ q = NextOf(w, c) /\ l = p
  OBVIOUS
<1>3. /\ UpdateState(V, w, C, K, R, A, n, t, L, dest, q, {}) /\ c \in L /\ l \in c + 1 .. q
      /\ dest[q] = alloc_pos + Wosize_hd(w[c]) + 1
  BY <1>1, <1>2 DEF AtClosure
<1>4. /\ ctl = "gc" /\ root = 0 /\ l > c + Wosize_hd(mem[c]) /\ phase' = "update"
      /\ alloc_pos' = alloc_pos + Wosize_hd(mem[c]) + 1
      /\ UNCHANGED <<vmvars, root, p, h, start>>
  BY <1>2 DEF ClosureInv, ClosureDone, In
<1>5. c \in C /\ c \in Int /\ Wosize_hd(w[c]) \in Nat /\ c < q /\ mem[c] = A[c] /\ V[c] = w[c] /\ q \in Int /\ dest[q] \in Int
  BY <1>2, <1>3, UpdateFacts
<1>6. mem[c] = w[c]
  BY <1>3, <1>5 DEF UpdateState, Updating, UpdateWords
<1>7. l = q /\ p' = q /\ alloc_pos' = dest[q]
  BY <1>2, <1>3, <1>4, <1>5, <1>6 DEF NextOf
<1>8. Sound' /\ ctl' = "gc" /\ UpdateState(V, w, C, K, R, A, n, t, L, dest, q, {})'
  <2>1. h' \in Sizable /\ root' = 0 /\ p' \in Int /\ start' \in Int /\ alloc_pos' \in Int
    BY <1>4, <1>5, <1>7 DEF Sound
  <2>. QED
    BY <2>1, <1>3, <1>4, UpdateQuiet
<1>9. UpdateState(V, w, C, K, R, A, n, t, L, dest, p, {})' /\ alloc_pos' = dest[p']
  BY <1>7, <1>8 DEF UpdateState
<1>. QED
  BY <1>4, <1>8, <1>9 DEF UpdateInv, In

\* update_pointers finds headers and links where it looks for them.
LEMMA UpdateReads ==
  ASSUME Sound
  PROVE  /\ UpdateInv => ~ UpdateMisread
         /\ LinksInv => ~ UpdateMisread
         /\ ClosureInv => ~ UpdateMisread
         /\ NoBlackImmediate /\ ClosureInv => ~ Unwind
<1>1. ASSUME UpdateInv, UpdateMisread PROVE FALSE
  <2>1. PICK V, w, C, K, R, A, n, t, L, dest : UpdateState(V, w, C, K, R, A, n, t, L, dest, p, {})
    BY <1>1 DEF UpdateInv
  <2>2. p < heap_ptr /\ ~ HdAt(p) /\ Color_hd(mem[p]) # Color_black
    BY <1>1 DEF UpdateInv, UpdateMisread, In
  <2>3. p \in C /\ InHeap(p) /\ mem[p] = V[p]
    BY <2>1, <2>2, UpdateHead
  <2>4. V[p] = w[p] /\ WhiteHeader(w[p])
    BY <2>1, <2>3, UpdateFacts
  <2>. QED
    BY <2>2, <2>3, <2>4 DEF HdAt, WhiteHeader
<1>2. ASSUME LinksInv, UpdateMisread PROVE FALSE
  <2>1. PICK V, w, C, K, R, A, n, t, L, dest : AtLinks(V, w, C, K, R, A, n, t, L, dest)
    BY <1>2 DEF LinksInv
  <2>2. (Color_hd(h) = Color_black /\ h.kind # "dyn") \/ (Color_hd(h) # Color_black /\ ~ IsHd(h))
    BY <1>2 DEF LinksInv, UpdateMisread, In
  <2>. QED
    BY <2>1, <2>2, LinksWord
<1>3. ASSUME ClosureInv, UpdateMisread PROVE FALSE
  BY <1>3 DEF ClosureInv, UpdateMisread, In
<1>4. ASSUME NoBlackImmediate, ClosureInv, Unwind PROVE FALSE
  <2>1. PICK V, w, C, K, R, A, n, t, L, dest : AtClosure(V, w, C, K, R, A, n, t, L, dest)
    BY <1>4 DEF ClosureInv
  <2>2. p <= start + Wosize_hd(mem[start]) /\ Color_hd(mem[p]) = Color_black
    BY <1>4 DEF ClosureInv, Unwind, In
  <2>. QED
    BY <1>4, <2>1, <2>2, ClosureFieldColour
<1>. QED
  BY <1>1, <1>2, <1>3, <1>4

-----------------------------------------------------------------------------
(* Compacting.  The blocks that stay are those at L.                        *)

\* Where the blocks of L will be.
NewPlaces(L, dest) == {dest[c] : c \in L}

\* W are the words of the heap when updating ends: fields have the new addresses, and
\* the headers that are not white are those of blocks that will not be moved.
Updated(W, w, C, L, dest) ==
  /\ w \in SizedHeap /\ Tiled(w, StaticWosize, heap_ptr, C) /\ L \subseteq C
  /\ Plan(w, C, L, dest, heap_ptr)
  /\ \A c \in C : W[c] = IF c \in L THEN w[c] ELSE with_black(w[c])
  /\ \A c \in L : /\ Wosize_hd(w[c]) > 0
                  /\ Tag_hd(w[c]) < No_scan_tag =>
                       \A i \in 1 .. Wosize_hd(w[c]) :
                         IF Tag_hd(w[c]) = Closure_tag /\ i = 1 THEN IsCode(W[c + i])
                         ELSE Value(W[c + i], NewPlaces(L, dest))

\* The blocks before q have been moved.
Moved(m, W, w, L, dest, q) ==
  /\ m \in SizedHeap
  /\ \A a \in 0 .. HeapWosize - 1 : a < StaticWosize \/ a >= q => m[a] = W[a]
  /\ \A c \in L : c < q => \A i \in 0 .. Wosize_hd(w[c]) : m[dest[c] + i] = W[c + i]
  /\ \A a \in StaticWosize .. dest[q] - 1 :
       \E c \in L : c < q /\ a \in dest[c] .. dest[c] + Wosize_hd(w[c])

AtCompact(W, w, C, L, dest) ==
  /\ Updated(W, w, C, L, dest) /\ Moved(mem, W, w, L, dest, p)
  /\ p \in C \cup {heap_ptr} /\ alloc_pos = dest[p]
  /\ Rooted(NewPlaces(L, dest), {}, 0)

CompactInv == In("compact") /\ root = 0 /\ \E W, w, C, L, dest : AtCompact(W, w, C, L, dest)

\* A reference that has its final value is one to a block's new place.
LEMMA NewValue ==
  ASSUME NEW v, NEW K, Value(v, K), NEW L, NEW dest, Is_block_in_dynamic_heap(v) => v.at - 1 \in L,
         \A c \in L : dest[c] \in Int,
         NEW u, u = IF Is_block_in_dynamic_heap(v) THEN Val_dynamic_block(dest[v.at - 1] + 1) ELSE v
  PROVE  Value(u, NewPlaces(L, dest))
<1>1. CASE Is_block_in_dynamic_heap(v)
  <2>1. PICK c, d : c = v.at - 1 /\ c \in L /\ d = dest[c] /\ d \in Int
    BY <1>1
  <2>2. u = Val_dynamic_block(d + 1) /\ d + 1 \in Int
    BY <1>1, <2>1
  <2>3. u \in Word /\ u.kind = "dyn" /\ u.low = 0 /\ u.at = d + 1
    BY <2>2, PointerWord DEF Val_dynamic_block
  <2>4. u.at - 1 = d /\ d \in NewPlaces(L, dest)
    BY <2>1, <2>3 DEF NewPlaces
  <2>. QED
    BY <2>3, <2>4 DEF Value
<1>2. CASE ~ Is_block_in_dynamic_heap(v)
  <2>1. u = v /\ v.kind # "dyn"
    BY <1>2 DEF Value, Is_block_in_dynamic_heap
  <2>. QED
    BY <2>1 DEF Value
<1>. QED
  BY <1>1, <1>2

\* When updating ends, no thread is left.
LEMMA AllUpdated ==
  ASSUME Sound, NEW V, NEW w, NEW C, NEW K, NEW R, NEW A, NEW n, NEW t, NEW L, NEW dest,
         UpdateState(V, w, C, K, R, A, n, t, L, dest, heap_ptr, {})
  PROVE  /\ \A c \in L : dest[c] \in Int
         /\ \A l \in Scan(w, K, R) :
              /\ Is_block_in_dynamic_heap(V[l]) => V[l].at - 1 \in L
              /\ A[l] = IF Is_block_in_dynamic_heap(V[l]) THEN Val_dynamic_block(dest[V[l].at - 1] + 1) ELSE V[l]
         /\ \A c \in C : A[c] = IF c \in L THEN w[c] ELSE with_black(w[c])
         /\ \A l \in Places(R) : l \notin Scan(w, K, R) /\ l \notin C => A[l] = V[l]
<1>1. PICK q : q = heap_ptr
  OBVIOUS
<1>2. UpdateWords(A, V, w, C, K, R, L, n, t, dest, q, {}) /\ Frame(V, w, C, K, R)
  BY <1>1 DEF UpdateState, Updating
<1>3. /\ K \subseteq C /\ L \subseteq K /\ q \in Int
      /\ \A c \in C : c \in Int /\ c < q /\ V[c] = w[c]
      /\ \A c \in C : c <= q => dest[c] \in StaticWosize .. c
  BY <1>1, UpdateFacts
<1>4. \A c \in L : dest[c] \in Int
  <2>1. \A c \in C : c <= q
    BY <1>3
  <2>2. StaticWosize \in Int
    BY Bounds
  <2>. QED
    BY <1>3, <2>1, <2>2
<1>5. \A c \in K : n[c] = 0
  BY <1>2, <1>3 DEF UpdateWords
<1>6. ASSUME NEW l \in Scan(w, K, R)
      PROVE  /\ Is_block_in_dynamic_heap(V[l]) => V[l].at - 1 \in L
             /\ A[l] = IF Is_block_in_dynamic_heap(V[l]) THEN Val_dynamic_block(dest[V[l].at - 1] + 1) ELSE V[l]
  <2>1. Is_block_in_dynamic_heap(V[l]) => V[l].at - 1 \in L
    BY <1>2, <1>6 DEF UpdateWords
  <2>2. CASE Is_block_in_dynamic_heap(V[l])
    <3>1. V[l].at - 1 \in K
      BY <1>3, <2>1, <2>2
    <3>2. n[V[l].at - 1] = 0
      BY <1>5, <3>1
    <3>3. ~ Linked(V, n, t, l)
      BY <3>2 DEF Linked
    <3>4. A[l] = Val_dynamic_block(dest[V[l].at - 1] + 1)
      BY <1>2, <1>6, <2>2, <3>3 DEF UpdateWords
    <3>. QED
      BY <2>1, <2>2, <3>4
  <2>3. CASE ~ Is_block_in_dynamic_heap(V[l])
    BY <1>2, <1>6, <2>3 DEF UpdateWords
  <2>. QED
    BY <2>2, <2>3
<1>7. \A c \in C : A[c] = IF c \in L THEN w[c] ELSE with_black(w[c])
  <2>1. \A c \in C : A[c] = IF c \in L THEN V[c] ELSE with_black(V[c])
    BY <1>2, <1>3 DEF UpdateWords
  <2>. QED
    BY <1>3, <2>1
<1>8. \A l \in Places(R) : l \notin Scan(w, K, R) /\ l \notin C => A[l] = V[l]
  BY <1>2 DEF UpdateWords
<1>. QED
  BY <1>4, <1>6, <1>7, <1>8

\* The heap that updating leaves.
LEMMA HeapUpdated ==
  ASSUME Sound, NEW V, NEW w, NEW C, NEW K, NEW R, NEW A, NEW n, NEW t, NEW L, NEW dest,
         UpdateState(V, w, C, K, R, A, n, t, L, dest, heap_ptr, {})
  PROVE  Updated(mem, w, C, L, dest) /\ Rooted(NewPlaces(L, dest), {}, 0)
<1>1. PICK N : N = NewPlaces(L, dest)
  OBVIOUS
<1>2. /\ \A c \in L : dest[c] \in Int
      /\ \A l \in Scan(w, K, R) :
           /\ Is_block_in_dynamic_heap(V[l]) => V[l].at - 1 \in L
           /\ A[l] = IF Is_block_in_dynamic_heap(V[l]) THEN Val_dynamic_block(dest[V[l].at - 1] + 1) ELSE V[l]
      /\ \A c \in C : A[c] = IF c \in L THEN w[c] ELSE with_black(w[c])
      /\ \A l \in Places(R) : l \notin Scan(w, K, R) /\ l \notin C => A[l] = V[l]
  BY AllUpdated
<1>3. /\ Frame(V, w, C, K, R) /\ Alive(w, C, K) /\ K \subseteq C /\ L \subseteq K /\ R = RootSet
      /\ \A c \in C : c \in Int /\ c >= StaticWosize /\ mem[c] = A[c] /\ Wosize_hd(w[c]) \in Nat
  BY UpdateFacts
<1>4. Words(R, A) /\ Plan(w, C, L, dest, heap_ptr)
  BY DEF UpdateState, Updating
<1>5. \A l \in Scan(w, K, R) : l \in Places(R) /\ (l >= StaticWosize => l \in 0 .. HeapWosize - 1)
  BY <1>3, FrameFacts
<1>6. ASSUME NEW l \in Scan(w, K, R), Value(V[l], K) PROVE Value(A[l], N)
  BY <1>1, <1>2, <1>6, NewValue
<1>7. ASSUME NEW c \in L, Tag_hd(w[c]) < No_scan_tag, NEW i \in 1 .. Wosize_hd(w[c])
      PROVE  IF Tag_hd(w[c]) = Closure_tag /\ i = 1 THEN IsCode(mem[c + i]) ELSE Value(mem[c + i], N)
  <2>1. c \in K /\ c \in C /\ FieldOK(w, c, i, K)
    BY <1>3, <1>7 DEF Alive, FieldsOK
  <2>2. PICK l : l = c + i
    OBVIOUS
  <2>3. l \in FieldsOf(w, c) /\ l \in Int /\ l >= StaticWosize
    <3>1. StaticWosize \in Nat
      BY Bounds
    <3>. QED
      BY <1>3, <2>1, <2>2, <3>1 DEF FieldsOf
  <2>4. l \in Scan(w, K, R)
    BY <1>7, <2>1, <2>3 DEF Scan
  <2>5. l \in 0 .. HeapWosize - 1 /\ l \in Places(R)
    BY <1>5, <2>3, <2>4
  <2>6. mem[l] = A[l] /\ V[l] = w[l]
    BY <1>3, <1>4, <2>5 DEF Words, At, Frame
  <2>7. CASE Tag_hd(w[c]) = Closure_tag /\ i = 1
    <3>1. IsCode(w[l])
      BY <2>1, <2>2, <2>7 DEF FieldOK
    <3>2. ~ Is_block_in_dynamic_heap(V[l])
      BY <2>6, <3>1 DEF IsCode, Is_block_in_dynamic_heap
    <3>3. mem[l] = w[l]
      BY <1>2, <2>4, <2>6, <3>2
    <3>. QED
      BY <2>2, <2>7, <3>1, <3>3
  <2>8. CASE ~ (Tag_hd(w[c]) = Closure_tag /\ i = 1)
    <3>1. Value(V[l], K)
      BY <2>1, <2>2, <2>6, <2>8 DEF FieldOK
    <3>2. Value(A[l], N)
      BY <1>6, <2>4, <3>1
    <3>. QED
      BY <2>2, <2>6, <2>8, <3>2
  <2>. QED
    BY <2>7, <2>8
<1>8. Updated(mem, w, C, L, dest)
  <2>1. w \in SizedHeap /\ Tiled(w, StaticWosize, heap_ptr, C) /\ L \subseteq C /\ \A c \in L : Wosize_hd(w[c]) > 0
    BY <1>3 DEF Alive
  <2>2. \A c \in C : mem[c] = IF c \in L THEN w[c] ELSE with_black(w[c])
    BY <1>2, <1>3
  <2>. QED
    BY <1>1, <1>4, <1>7, <2>1, <2>2 DEF Updated
<1>9. RootsIn(N)
  <2>1. ASSUME NEW loc \in RootSet PROVE Value(At(loc), N)
    <3>1. loc \in Scan(w, K, R) /\ Value(V[loc], K) /\ loc \in Places(R)
      BY <1>3 DEF Scan, Frame, Places
    <3>2. At(loc) = A[loc]
      BY <1>4, <3>1 DEF Words
    <3>. QED
      BY <1>6, <3>1, <3>2
  <2>. QED
    BY <2>1 DEF RootsIn
<1>10. StaticKept
  <2>1. ASSUME NEW a \in (0 .. StaticWosize - 1) \ ToSet(StaticFields) PROVE mem[a] = StaticHeap[a + 1]
    <3>1. StaticWosize \in Nat /\ HeapWosize \in Nat /\ StaticWosize < HeapWosize
      BY Bounds
    <3>2. a \in Int /\ a < StaticWosize /\ a >= 0 /\ a \in 0 .. HeapWosize - 1
      BY <3>1
    <3>3. a \notin R
      <4>1. \A i \in Int : stack_addr(i) = -2 - i /\ global_addr(i) = -2 - StackWosize - i
        BY DEF stack_addr, global_addr
      <4>2. StackWosize \in Nat /\ stack \in Seq(Word) /\ globals \in Seq(Word)
        BY SizesAssumption DEF Sound, VMTypeOK
      <4>3. \A i \in 1 .. Len(stack) : stack_addr(i) < 0
        BY <4>1, <4>2
      <4>4. \A i \in 1 .. Len(globals) : global_addr(i) < 0
        BY <4>1, <4>2
      <4>5. acc_addr < 0 /\ env_addr < 0
        BY DEF acc_addr, env_addr
      <4>. QED
        BY <1>3, <2>1, <3>2, <4>3, <4>4, <4>5 DEF RootSet
    <3>4. \A c \in K : a \notin FieldsOf(w, c)
      BY <1>3, <3>1, <3>2 DEF FieldsOf
    <3>5. a \notin Scan(w, K, R) /\ a \notin C /\ a \in Places(R)
      <4>1. a \notin Scan(w, K, R)
        BY <3>3, <3>4 DEF Scan
      <4>2. a \notin C
        BY <1>3, <3>1, <3>2
      <4>3. a \in Places(R)
        BY <3>2 DEF Places
      <4>. QED
        BY <4>1, <4>2, <4>3
    <3>6. A[a] = V[a] /\ V[a] = w[a] /\ w[a] = StaticHeap[a + 1]
      BY <1>2, <1>3, <2>1, <3>2, <3>5 DEF Frame
    <3>7. mem[a] = A[a]
      BY <1>4, <3>2, <3>5 DEF Words, At
    <3>. QED
      BY <3>6, <3>7
  <2>. QED
    BY <2>1 DEF StaticKept
<1>. QED
  BY <1>1, <1>8, <1>9, <1>10 DEF Rooted

\* Where blocks are before and after they move.
LEMMA UpdatedFacts ==
  ASSUME Sound, NEW W, NEW w, NEW C, NEW L, NEW dest, Updated(W, w, C, L, dest)
  PROVE  /\ \A c \in C : /\ c \in StaticWosize .. heap_ptr - 1 /\ c \in 0 .. HeapWosize - 1 /\ c \in Int /\ InHeap(c)
                         /\ WhiteHeader(w[c]) /\ Wosize_hd(w[c]) \in Nat /\ c + Wosize_hd(w[c]) < heap_ptr
                         /\ Tag_hd(w[c]) # Infix_tag /\ Tag_hd(w[c]) \in Nat
                         /\ NextOf(w, c) \in C \cup {heap_ptr} /\ NextOf(w, c) \in Int /\ c < NextOf(w, c)
                         /\ dest[c] \in StaticWosize .. c /\ dest[c] \in Int
                         /\ dest[NextOf(w, c)] = dest[c] + Grow(w, L, c)
                         /\ \A d \in C : d < NextOf(w, c) <=> d <= c
         /\ \A c \in L : \A d \in C \cup {heap_ptr} : c < d => dest[c] + Wosize_hd(w[c]) < dest[d]
         /\ dest[heap_ptr] \in StaticWosize .. heap_ptr /\ dest[StaticWosize] = StaticWosize
         /\ StaticWosize \in C \cup {heap_ptr} /\ L \subseteq C
         /\ \A c \in C : IsHd(W[c]) /\ Wosize_hd(W[c]) = Wosize_hd(w[c]) /\ (Color_hd(W[c]) = Color_white <=> c \in L)
<1>1. StaticWosize \in Nat /\ heap_ptr \in Nat /\ HeapWosize \in Nat /\ heap_ptr <= HeapWosize
  BY Bounds
<1>2. /\ \A c \in C : /\ c \in StaticWosize .. heap_ptr - 1 /\ WhiteHeader(w[c]) /\ Tag_hd(w[c]) # Infix_tag
                      /\ c + Wosize_hd(w[c]) + 1 \in C \cup {heap_ptr}
                      /\ \A d \in C : d <= c \/ d > c + Wosize_hd(w[c])
      /\ StaticWosize \in C \cup {heap_ptr} /\ L \subseteq C /\ Plan(w, C, L, dest, heap_ptr)
      /\ \A c \in C : W[c] = IF c \in L THEN w[c] ELSE with_black(w[c])
  BY DEF Updated, Tiled
<1>3. ASSUME NEW c \in C
      PROVE  /\ c \in 0 .. HeapWosize - 1 /\ c \in Int /\ InHeap(c) /\ Wosize_hd(w[c]) \in Nat /\ Tag_hd(w[c]) \in Nat
             /\ c < heap_ptr /\ c >= StaticWosize
  <2>1. Wosize_hd(w[c]) \in Nat /\ Tag_hd(w[c]) \in Nat
    BY <1>2, <1>3, HeaderColours DEF Tag_hd
  <2>2. c \in StaticWosize .. heap_ptr - 1
    BY <1>2, <1>3
  <2>. QED
    BY <1>1, <2>1, <2>2 DEF InHeap
<1>4. ASSUME NEW c \in C
      PROVE  /\ NextOf(w, c) \in C \cup {heap_ptr} /\ NextOf(w, c) \in Int /\ c < NextOf(w, c)
             /\ c + Wosize_hd(w[c]) < heap_ptr
             /\ \A d \in C : d < NextOf(w, c) <=> d <= c
  <2>1. PICK x : x = Wosize_hd(w[c])
    OBVIOUS
  <2>2. NextOf(w, c) = c + x + 1 /\ x \in Nat /\ c \in Int
    BY <1>3, <1>4, <2>1 DEF NextOf
  <2>3. c + x + 1 \in C \cup {heap_ptr} /\ \A d \in C : d <= c \/ d > c + x
    BY <1>2, <1>4, <2>1
  <2>4. c + x < heap_ptr
    BY <1>1, <1>3, <2>2, <2>3
  <2>5. \A d \in C : d < c + x + 1 <=> d <= c
    BY <1>3, <2>2, <2>3
  <2>. QED
    BY <2>1, <2>2, <2>3, <2>4, <2>5
<1>5. /\ \A c \in C \cup {heap_ptr} : c <= heap_ptr => dest[c] \in StaticWosize .. c
      /\ \A c \in C : c < heap_ptr => dest[NextOf(w, c)] = dest[c] + Grow(w, L, c)
      /\ \A c \in C, d \in C \cup {heap_ptr} : c < d /\ d <= heap_ptr => dest[c] + Grow(w, L, c) <= dest[d]
      /\ dest[StaticWosize] = StaticWosize
  BY <1>2 DEF Plan
<1>6. \A c \in C : /\ dest[c] \in StaticWosize .. c /\ dest[c] \in Int /\ dest[NextOf(w, c)] = dest[c] + Grow(w, L, c)
  BY <1>1, <1>3, <1>5
<1>7. ASSUME NEW c \in L, NEW d \in C \cup {heap_ptr}, c < d PROVE dest[c] + Wosize_hd(w[c]) < dest[d]
  <2>1. PICK x, y, z : x = Wosize_hd(w[c]) /\ y = dest[c] /\ z = dest[d]
    OBVIOUS
  <2>2. Grow(w, L, c) = x + 1
    BY <1>7, <2>1 DEF Grow
  <2>3. d <= heap_ptr /\ c \in C
    BY <1>1, <1>2, <1>3, <1>7
  <2>4. y + (x + 1) <= z /\ z \in StaticWosize .. d /\ d \in Int
    BY <1>1, <1>3, <1>5, <1>7, <2>1, <2>2, <2>3
  <2>5. x \in Nat /\ y \in Int
    BY <1>3, <1>6, <2>1, <2>3
  <2>. QED
    BY <1>1, <2>1, <2>4, <2>5
<1>8. dest[heap_ptr] \in StaticWosize .. heap_ptr
  BY <1>1, <1>5
<1>9. ASSUME NEW c \in C
      PROVE  IsHd(W[c]) /\ Wosize_hd(W[c]) = Wosize_hd(w[c]) /\ (Color_hd(W[c]) = Color_white <=> c \in L)
  <2>1. WhiteHeader(w[c]) /\ W[c] = IF c \in L THEN w[c] ELSE with_black(w[c])
    BY <1>2, <1>9
  <2>2. /\ IsHd(with_black(w[c])) /\ Wosize_hd(with_black(w[c])) = Wosize_hd(w[c])
        /\ with_black(w[c]).low = Color_black
    BY <2>1, HeaderColours
  <2>. QED
    BY <2>1, <2>2 DEF WhiteHeader, Color_hd, Color_white, Color_black
<1>. QED
  BY <1>2, <1>3, <1>4, <1>5, <1>6, <1>7, <1>8, <1>9

\* A step of gc() that ends in the loop of compact_blocks.
LEMMA CompactNext ==
  ASSUME Sound, ctl = "gc", UNCHANGED regs, Unmoved, phase' = "compact", root' = 0,
         NEW W, NEW w, NEW C, NEW L, NEW dest, NEW q, NEW m,
         Updated(W, w, C, L, dest), Moved(m, W, w, L, dest, q), q \in C \cup {heap_ptr}, q \in Int,
         Rooted(NewPlaces(L, dest), {}, 0),
         mem' = m, p' = q, alloc_pos' = dest[q], h' \in Sizable, start' \in Int,
         \A a \in 0 .. StaticWosize - 1 : m[a] = mem[a]
  PROVE  Sound' /\ CompactInv'
<1>1. dest[q] \in Int
  <2>1. \A c \in C : dest[c] \in Int
    BY UpdatedFacts
  <2>2. dest[heap_ptr] \in StaticWosize .. heap_ptr
    BY UpdatedFacts
  <2>3. StaticWosize \in Nat /\ heap_ptr \in Nat
    BY Bounds
  <2>. QED
    BY <2>1, <2>2, <2>3
<1>2. m \in SizedHeap
  BY DEF Moved
<1>3. Len(Roots) \in Nat
  BY Bounds
<1>4. Sound' /\ ctl' = "gc" /\ \A B, S, n : Rooted(B, S, n) /\ n \in Int /\ n <= Len(Roots) => Rooted(B, S, n)'
  BY <1>1, <1>2, <1>3, HeapStep
<1>5. PICK N : N = NewPlaces(L, dest)
  OBVIOUS
<1>6. Rooted(N, {}, 0)'
  BY <1>3, <1>4, <1>5
<1>7. heap_ptr' = heap_ptr
  BY DEF Unmoved
<1>8. Updated(W, w, C, L, dest)'
  BY <1>7 DEF Updated, SizedHeap, Sizable, HeapWosize, StaticWosize, Tiled, Plan
<1>9. Moved(mem, W, w, L, dest, p)'
  BY DEF Moved, SizedHeap, Sizable, HeapWosize, StaticWosize
<1>10. AtCompact(W, w, C, L, dest)'
  BY <1>5, <1>6, <1>7, <1>8, <1>9 DEF AtCompact
<1>. QED
  BY <1>4, <1>10 DEF CompactInv, In

\* After the last block, every reference has its final value, and compacting begins.
LEMMA UpdateDoneStep == ASSUME Sound, UpdateInv, UpdateDone PROVE Sound' /\ CompactInv'
<1>1. PICK V, w, C, K, R, A, n, t, L, dest : UpdateState(V, w, C, K, R, A, n, t, L, dest, p, {})
  BY DEF UpdateInv
<1>2. /\ ctl = "gc" /\ root = 0 /\ p >= heap_ptr /\ phase' = "compact" /\ p' = StaticWosize /\ alloc_pos' = StaticWosize
      /\ UNCHANGED vmvars /\ UNCHANGED <<root, h, start>>
  BY DEF UpdateInv, UpdateDone, In, FirstBlock
<1>3. StaticWosize \in Nat /\ heap_ptr \in Nat /\ mem \in SizedHeap /\ HeapWosize \in Nat
  BY Bounds
<1>4. PICK q : q = p
  OBVIOUS
<1>5. q = heap_ptr
  <2>1. q \in C \cup {heap_ptr} /\ \A c \in C : c < heap_ptr /\ c \in Int
    BY <1>1, <1>4, UpdateFacts
  <2>. QED
    BY <1>2, <1>3, <1>4, <2>1
<1>6. UpdateState(V, w, C, K, R, A, n, t, L, dest, heap_ptr, {})
  BY <1>1, <1>4, <1>5
<1>7. Updated(mem, w, C, L, dest) /\ Rooted(NewPlaces(L, dest), {}, 0)
  BY <1>6, HeapUpdated
<1>8. PICK m, b : m = mem /\ b = StaticWosize
  OBVIOUS
<1>9. dest[b] = b /\ b \in C \cup {heap_ptr} /\ b \in Nat /\ L \subseteq C /\ \A c \in C : c \in Int /\ c >= b
  BY <1>3, <1>7, <1>8, UpdatedFacts
<1>10. Moved(m, m, w, L, dest, b)
  <2>1. \A c \in L : ~ c < b
    BY <1>9
  <2>2. \A a \in StaticWosize .. dest[b] - 1 : FALSE
    BY <1>8, <1>9
  <2>. QED
    BY <1>3, <1>8, <2>1, <2>2 DEF Moved
<1>11. /\ UNCHANGED regs /\ Unmoved /\ mem' = m /\ p' = b /\ alloc_pos' = dest[b] /\ h' \in Sizable /\ start' \in Int
       /\ root' = 0 /\ \A a \in 0 .. StaticWosize - 1 : m[a] = mem[a]
  <2>1. UNCHANGED <<mem, heap_ptr, heap_end, regs, pend, ctl>>
    BY <1>2 DEF vmvars, regs
  <2>2. h' \in Sizable /\ start' \in Int
    BY <1>2 DEF Sound
  <2>. QED
    BY <2>1, <2>2, <1>2, <1>8, <1>9 DEF Unmoved
<1>12. Updated(m, w, C, L, dest)
  BY <1>7, <1>8
<1>. QED
  BY <1>2, <1>7, <1>9, <1>10, <1>11, <1>12, CompactNext

\* The header compact_blocks has reached.
LEMMA CompactHeader ==
  ASSUME Sound, NEW W, NEW w, NEW C, NEW L, NEW dest, AtCompact(W, w, C, L, dest), NEW q, q = p, q < heap_ptr
  PROVE  /\ q \in C /\ mem[q] = W[q] /\ HdAt(q) /\ Wosize_hd(mem[q]) = Wosize_hd(w[q])
         /\ Color_hd(mem[q]) = Color_white <=> q \in L
<1>1. Updated(W, w, C, L, dest) /\ Moved(mem, W, w, L, dest, q) /\ q \in C \cup {heap_ptr}
  BY DEF AtCompact
<1>2. q \in C
  BY <1>1, Bounds
<1>3. /\ q \in 0 .. HeapWosize - 1 /\ q \in Int /\ InHeap(q) /\ IsHd(W[q]) /\ Wosize_hd(W[q]) = Wosize_hd(w[q])
      /\ Color_hd(W[q]) = Color_white <=> q \in L
  BY <1>1, <1>2, UpdatedFacts
<1>4. mem[q] = W[q]
  BY <1>1, <1>3 DEF Moved
<1>. QED
  BY <1>2, <1>3, <1>4 DEF HdAt

\* What memmove writes.
MemMove(m, m2, from, to, size) ==
  \A a \in 0 .. HeapWosize - 1 : m2[a] = IF a \in to .. to + size - 1 THEN m[from + a - to] ELSE m[a]

\* One more block has been moved.
LEMMA MoveBlock ==
  ASSUME Sound, NEW W, NEW w, NEW C, NEW L, NEW dest, Updated(W, w, C, L, dest),
         NEW m, NEW q \in L, Moved(m, W, w, L, dest, q),
         NEW m2 \in SizedHeap, MemMove(m, m2, q, dest[q], Wosize_hd(w[q]) + 1), NEW q2, q2 = NextOf(w, q)
  PROVE  Moved(m2, W, w, L, dest, q2) /\ \A a \in 0 .. StaticWosize - 1 : m2[a] = m[a]
<1>1. StaticWosize \in Nat /\ HeapWosize \in Nat /\ heap_ptr \in Nat /\ StaticWosize < HeapWosize /\ heap_ptr <= HeapWosize
  BY Bounds
<1>2. PICK x, y : x = Wosize_hd(w[q]) /\ y = dest[q]
  OBVIOUS
<1>3. /\ q \in C /\ q \in Int /\ x \in Nat /\ q + x < heap_ptr /\ y \in StaticWosize .. q /\ y \in Int
      /\ q2 = q + x + 1 /\ dest[q2] = y + x + 1 /\ q >= StaticWosize
      /\ \A c \in L : c < q2 <=> c <= q
      /\ \A c \in L : c < q => dest[c] + Wosize_hd(w[c]) < y
      /\ \A c \in L : /\ dest[c] \in Int /\ dest[c] >= StaticWosize /\ dest[c] + Wosize_hd(w[c]) < HeapWosize
                      /\ Wosize_hd(w[c]) \in Nat /\ c \in Int
  <2>1. q \in C /\ L \subseteq C
    BY UpdatedFacts
  <2>2. /\ q \in StaticWosize .. heap_ptr - 1 /\ q \in Int /\ x \in Nat /\ q + x < heap_ptr
        /\ y \in StaticWosize .. q /\ y \in Int /\ dest[q2] = y + Grow(w, L, q)
        /\ \A d \in C : d < q2 <=> d <= q
    BY <1>2, <2>1, UpdatedFacts
  <2>3. q2 = q + x + 1 /\ Grow(w, L, q) = x + 1
    BY <1>2 DEF NextOf, Grow
  <2>4. \A c \in L : c < q => dest[c] + Wosize_hd(w[c]) < y
    BY <1>2, <2>1, UpdatedFacts
  <2>5. ASSUME NEW c \in L
        PROVE  /\ dest[c] \in Int /\ dest[c] >= StaticWosize /\ dest[c] + Wosize_hd(w[c]) < HeapWosize
               /\ Wosize_hd(w[c]) \in Nat /\ c \in Int
    <3>1. PICK u, v : u = Wosize_hd(w[c]) /\ v = dest[c]
      OBVIOUS
    <3>2. c \in Int /\ u \in Nat /\ v \in StaticWosize .. c /\ c + u < heap_ptr
      BY <2>1, <2>5, <3>1, UpdatedFacts
    <3>3. v \in Int /\ v >= StaticWosize /\ v + u < HeapWosize
      BY <1>1, <3>2
    <3>. QED
      BY <3>1, <3>2, <3>3
  <2>6. dest[q2] = y + x + 1 /\ q >= StaticWosize
    BY <1>1, <2>2, <2>3
  <2>. QED
    BY <2>1, <2>2, <2>3, <2>4, <2>5, <2>6
<1>4. /\ \A a \in 0 .. HeapWosize - 1 : a < StaticWosize \/ a >= q => m[a] = W[a]
      /\ \A c \in L : c < q => \A i \in 0 .. Wosize_hd(w[c]) : m[dest[c] + i] = W[c + i]
      /\ \A a \in StaticWosize .. y - 1 : \E c \in L : c < q /\ a \in dest[c] .. dest[c] + Wosize_hd(w[c])
  BY <1>2 DEF Moved
<1>5. \A a \in 0 .. HeapWosize - 1 : m2[a] = IF a \in y .. y + x THEN m[q + a - y] ELSE m[a]
  <2>1. y + (x + 1) - 1 = y + x
    BY <1>3
  <2>. QED
    BY <1>2, <2>1 DEF MemMove
<1>6. ASSUME NEW a \in 0 .. HeapWosize - 1, a < StaticWosize \/ a >= q2 PROVE m2[a] = m[a] /\ m2[a] = W[a]
  <2>1. a \notin y .. y + x /\ (a < StaticWosize \/ a >= q)
    BY <1>1, <1>3, <1>6
  <2>. QED
    BY <1>4, <1>5, <2>1
<1>7. ASSUME NEW c \in L, c < q2, NEW i \in 0 .. Wosize_hd(w[c]) PROVE m2[dest[c] + i] = W[c + i]
  <2>1. PICK u, v, b : u = Wosize_hd(w[c]) /\ v = dest[c] /\ b = v + i
    OBVIOUS
  <2>2. u \in Nat /\ v \in Int /\ v >= StaticWosize /\ v + u < HeapWosize /\ c \in Int /\ i \in 0 .. u
    BY <1>3, <1>7, <2>1
  <2>3. b \in 0 .. HeapWosize - 1
    BY <1>1, <2>1, <2>2
  <2>4. CASE c = q
    <3>1. u = x /\ v = y
      BY <1>2, <2>1, <2>4
    <3>2. b \in y .. y + x /\ q + b - y = q + i
      BY <1>3, <2>1, <2>2, <3>1
    <3>3. q + i \in 0 .. HeapWosize - 1 /\ q + i >= q
      BY <1>1, <1>3, <2>2, <3>1
    <3>4. m2[b] = m[q + i] /\ m[q + i] = W[q + i]
      BY <1>4, <1>5, <2>3, <3>2, <3>3
    <3>. QED
      BY <2>1, <2>4, <3>4
  <2>5. CASE c # q
    <3>1. c < q
      BY <1>3, <1>7, <2>2, <2>5
    <3>2. v + u < y
      BY <1>3, <2>1, <3>1
    <3>3. b \notin y .. y + x
      BY <1>3, <2>1, <2>2, <3>2
    <3>4. m2[b] = m[b]
      BY <1>5, <2>3, <3>3
    <3>. QED
      BY <1>4, <1>7, <2>1, <3>1, <3>4
  <2>. QED
    BY <2>4, <2>5
<1>8. ASSUME NEW a \in StaticWosize .. dest[q2] - 1
      PROVE  \E c \in L : c < q2 /\ a \in dest[c] .. dest[c] + Wosize_hd(w[c])
  <2>1. CASE a < y
    <3>1. a \in StaticWosize .. y - 1
      BY <1>1, <1>3, <1>8, <2>1
    <3>2. PICK c \in L : c < q /\ a \in dest[c] .. dest[c] + Wosize_hd(w[c])
      BY <1>4, <3>1
    <3>3. c < q2
      BY <1>3, <3>2
    <3>. QED
      BY <3>2, <3>3
  <2>2. CASE ~ a < y
    <3>1. a \in y .. y + x /\ q < q2
      BY <1>1, <1>3, <1>8, <2>2
    <3>. QED
      BY <1>2, <3>1
  <2>. QED
    BY <2>1, <2>2
<1>9. \A a \in 0 .. StaticWosize - 1 : a \in 0 .. HeapWosize - 1 /\ a < StaticWosize
  BY <1>1
<1>. QED
  BY <1>6, <1>7, <1>8, <1>9 DEF Moved

\* compact_blocks moves a block, or skips a dead one.
LEMMA CompactBlockStep == ASSUME Sound, CompactInv, CompactBlock PROVE Sound' /\ CompactInv'
<1>1. PICK W, w, C, L, dest : AtCompact(W, w, C, L, dest)
  BY DEF CompactInv
<1>2. PICK q, m : q = p /\ m = mem
  OBVIOUS
<1>3. PICK size : size = Wosize_hd(m[q]) + 1
  OBVIOUS
<1>4. /\ ctl = "gc" /\ root = 0 /\ q < heap_ptr /\ p' = q + size /\ UNCHANGED <<regs, phase, root, h, start>> /\ Unmoved
      /\ IF Color_hd(m[q]) = Color_white
           THEN /\ mem' = [a \in DOMAIN m |-> IF a \in alloc_pos .. alloc_pos + size - 1 THEN m[q + a - alloc_pos] ELSE m[a]]
                /\ alloc_pos' = alloc_pos + size
           ELSE UNCHANGED <<mem, alloc_pos>>
  BY <1>2, <1>3 DEF CompactBlock, CompactInv, In
<1>5. q \in C /\ Wosize_hd(m[q]) = Wosize_hd(w[q]) /\ (Color_hd(m[q]) = Color_white <=> q \in L)
  BY <1>1, <1>2, <1>4, CompactHeader
<1>6. PICK x, y : x = Wosize_hd(w[q]) /\ y = dest[q]
  OBVIOUS
<1>7. /\ Updated(W, w, C, L, dest) /\ Moved(m, W, w, L, dest, q) /\ alloc_pos = y
      /\ Rooted(NewPlaces(L, dest), {}, 0)
  BY <1>1, <1>2, <1>6 DEF AtCompact
<1>8. PICK q2 : q2 = NextOf(w, q)
  OBVIOUS
<1>9. /\ q \in Int /\ x \in Nat /\ y \in Int /\ q2 \in C \cup {heap_ptr} /\ q2 \in Int /\ q < q2
      /\ dest[q2] = y + Grow(w, L, q) /\ y >= StaticWosize /\ q + x < heap_ptr
      /\ \A d \in C : d < q2 <=> d <= q
  <2>1. /\ q \in Int /\ x \in Nat /\ y \in Int /\ q2 \in C \cup {heap_ptr} /\ q2 \in Int /\ q < q2
        /\ dest[q2] = y + Grow(w, L, q) /\ y \in StaticWosize .. q /\ q + x < heap_ptr
        /\ \A d \in C : d < q2 <=> d <= q
    BY <1>5, <1>6, <1>7, <1>8, UpdatedFacts
  <2>2. StaticWosize \in Nat
    BY Bounds
  <2>. QED
    BY <2>1, <2>2
<1>10. size = x + 1 /\ q2 = q + size /\ p' = q2
  BY <1>3, <1>4, <1>5, <1>6, <1>8, <1>9 DEF NextOf
<1>11. h' \in Sizable /\ start' \in Int /\ root' = 0 /\ phase' = "compact"
  BY <1>4 DEF Sound, CompactInv, In
<1>12. /\ StaticWosize \in Nat /\ HeapWosize \in Nat /\ heap_ptr \in Nat /\ StaticWosize < HeapWosize /\ heap_ptr <= HeapWosize
       /\ m \in SizedHeap /\ DOMAIN m = 0 .. HeapWosize - 1
  BY <1>2, Bounds
<1>13. CASE q \in L
  <2>1. dest[q2] = y + size /\ alloc_pos' = dest[q2]
    <3>1. Grow(w, L, q) = size
      BY <1>6, <1>10, <1>13 DEF Grow
    <3>2. alloc_pos' = alloc_pos + size
      BY <1>4, <1>5, <1>13
    <3>. QED
      BY <1>7, <1>9, <3>1, <3>2
  <2>2. PICK m2 : m2 = [a \in 0 .. HeapWosize - 1 |-> IF a \in y .. y + size - 1 THEN m[q + a - y] ELSE m[a]]
    OBVIOUS
  <2>3. mem' = m2
    BY <1>4, <1>5, <1>7, <1>12, <1>13, <2>2
  <2>4. MemMove(m, m2, q, dest[q], Wosize_hd(w[q]) + 1)
    BY <1>6, <1>10, <2>2 DEF MemMove
  <2>5. m2 \in SizedHeap
    <3>1. \A a \in 0 .. HeapWosize - 1 : m[a] \in Sizable
      BY <1>12 DEF SizedHeap
    <3>2. ASSUME NEW a \in 0 .. HeapWosize - 1 PROVE m2[a] \in Sizable
      <4>1. CASE a \in y .. y + size - 1
        <5>1. q + a - y \in 0 .. HeapWosize - 1
          <6>1. y <= q
            <7>1. y \in StaticWosize .. q
              BY <1>5, <1>6, <1>7, UpdatedFacts
            <7>. QED
              BY <1>9, <1>12, <7>1
          <6>2. q + a - y >= 0 /\ q + a - y <= q + x
            BY <1>9, <1>10, <1>12, <4>1, <6>1
          <6>. QED
            BY <1>9, <1>12, <4>1, <6>2
        <5>. QED
          BY <2>2, <3>1, <3>2, <4>1, <5>1
      <4>2. CASE a \notin y .. y + size - 1
        BY <2>2, <3>1, <3>2, <4>2
      <4>. QED
        BY <4>1, <4>2
    <3>. QED
      BY <2>2, <3>2 DEF SizedHeap
  <2>6. Moved(m2, W, w, L, dest, q2) /\ \A a \in 0 .. StaticWosize - 1 : m2[a] = m[a]
    BY <1>7, <1>8, <1>13, <2>4, <2>5, MoveBlock
  <2>7. \A a \in 0 .. StaticWosize - 1 : m2[a] = mem[a]
    BY <1>2, <2>6
  <2>. QED
    BY <1>4, <1>7, <1>9, <1>10, <1>11, <2>1, <2>3, <2>6, <2>7, CompactNext
<1>14. CASE q \notin L
  <2>1. mem' = m /\ alloc_pos' = dest[q2] /\ dest[q2] = y
    BY <1>2, <1>4, <1>5, <1>7, <1>9, <1>14 DEF Grow
  <2>2. Moved(m, W, w, L, dest, q2)
    <3>1. L \subseteq C
      BY <1>7 DEF Updated
    <3>2. \A c \in L : c < q2 <=> c < q
      <4>1. \A c \in L : c # q /\ c \in Int
        <5>1. \A c \in C : c \in Int
          BY <1>7, UpdatedFacts
        <5>. QED
          BY <1>14, <3>1, <5>1
      <4>. QED
        BY <1>9, <3>1, <4>1
    <3>3. \A a \in 0 .. HeapWosize - 1 : a >= q2 => a >= q
      BY <1>9, <1>12
    <3>4. dest[q2] = dest[q]
      BY <1>6, <2>1
    <3>. QED
      BY <1>7, <3>2, <3>3, <3>4 DEF Moved
  <2>3. \A a \in 0 .. StaticWosize - 1 : m[a] = mem[a]
    BY <1>2
  <2>. QED
    BY <1>4, <1>7, <1>9, <1>10, <1>11, <2>1, <2>2, <2>3, CompactNext
<1>. QED
  BY <1>13, <1>14

\* compact_blocks finds headers where it looks for them.
LEMMA CompactReads == ASSUME Sound, CompactInv PROVE ~ CompactMisread
<1>1. PICK W, w, C, L, dest : AtCompact(W, w, C, L, dest)
  BY DEF CompactInv
<1>2. PICK q : q = p
  OBVIOUS
<1>3. q < heap_ptr => HdAt(q)
  BY <1>1, <1>2, CompactHeader
<1>. QED
  BY <1>2, <1>3 DEF CompactMisread

\* Nothing is left to move: the heap below the last block's end.
LEMMA HeapMoved ==
  ASSUME Sound, NEW W, NEW w, NEW C, NEW L, NEW dest, Updated(W, w, C, L, dest),
         NEW m, Moved(m, W, w, L, dest, heap_ptr), NEW N, N = NewPlaces(L, dest), NEW hi, hi = dest[heap_ptr]
  PROVE  BlocksOK(m, StaticWosize, hi, N) /\ FieldsOK(m, N) /\ Filled(m, StaticWosize, hi, N)
<1>1. StaticWosize \in Nat /\ HeapWosize \in Nat /\ heap_ptr \in Nat /\ StaticWosize < HeapWosize /\ heap_ptr <= HeapWosize
  BY Bounds
<1>2. L \subseteq C /\ hi \in StaticWosize .. heap_ptr
  BY UpdatedFacts
<1>3. ASSUME NEW c \in L
      PROVE  /\ c \in Int /\ c < heap_ptr /\ dest[c] \in Int /\ dest[c] >= StaticWosize
             /\ WhiteHeader(w[c]) /\ Wosize_hd(w[c]) \in Nat /\ Wosize_hd(w[c]) > 0 /\ Tag_hd(w[c]) # Infix_tag
             /\ dest[c] + Wosize_hd(w[c]) < hi
             /\ \A d \in L : c < d => dest[c] + Wosize_hd(w[c]) < dest[d]
  <2>1. /\ c \in StaticWosize .. heap_ptr - 1 /\ WhiteHeader(w[c]) /\ Wosize_hd(w[c]) \in Nat /\ Tag_hd(w[c]) # Infix_tag
        /\ dest[c] \in StaticWosize .. c /\ dest[c] \in Int
        /\ \A d \in C \cup {heap_ptr} : c < d => dest[c] + Wosize_hd(w[c]) < dest[d]
    BY <1>2, <1>3, UpdatedFacts
  <2>2. c < heap_ptr /\ c \in Int
    BY <1>1, <2>1
  <2>3. Wosize_hd(w[c]) > 0
    BY <1>3 DEF Updated
  <2>4. dest[c] >= StaticWosize
    BY <1>1, <2>1
  <2>. QED
    BY <1>2, <2>1, <2>2, <2>3, <2>4
<1>4. ASSUME NEW c \in L
      PROVE  /\ m[dest[c]] = w[c] /\ \A i \in 1 .. Wosize_hd(w[c]) : m[dest[c] + i] = W[c + i]
  <2>1. \A i \in 0 .. Wosize_hd(w[c]) : m[dest[c] + i] = W[c + i]
    BY <1>3, <1>4 DEF Moved
  <2>2. m[dest[c] + 0] = W[c + 0]
    BY <1>3, <1>4, <2>1
  <2>3. W[c] = w[c]
    BY <1>2, <1>4 DEF Updated
  <2>4. dest[c] + 0 = dest[c] /\ c + 0 = c
    BY <1>3, <1>4
  <2>5. \A i \in 1 .. Wosize_hd(w[c]) : i \in 0 .. Wosize_hd(w[c])
    BY <1>3, <1>4
  <2>. QED
    BY <2>1, <2>2, <2>3, <2>4, <2>5
<1>5. ASSUME NEW b \in N PROVE \E c \in L : b = dest[c]
  BY <1>5 DEF NewPlaces
<1>6. BlocksOK(m, StaticWosize, hi, N)
  <2>1. ASSUME NEW b \in N
        PROVE  /\ b \in StaticWosize .. hi - 1 /\ BlockHeader(m[b]) /\ b + Wosize_hd(m[b]) < hi
               /\ \A d \in N : d <= b \/ d > b + Wosize_hd(m[b])
    <3>1. PICK c \in L : b = dest[c]
      BY <1>5, <2>1
    <3>2. PICK x : x = Wosize_hd(w[c])
      OBVIOUS
    <3>3. m[b] = w[c] /\ b \in Int /\ b >= StaticWosize /\ x \in Nat /\ b + x < hi /\ Wosize_hd(m[b]) = x
      BY <1>3, <1>4, <3>1, <3>2
    <3>4. BlockHeader(m[b])
      BY <1>3, <3>1, <3>3 DEF WhiteHeader, BlockHeader, Sizable
    <3>5. ASSUME NEW d \in N PROVE d <= b \/ d > b + x
      <4>1. PICK e \in L : d = dest[e]
        BY <1>5, <3>5
      <4>2. d \in Int /\ e \in Int /\ c \in Int
        BY <1>3, <3>1, <4>1
      <4>3. CASE c < e
        <5>1. b + x < d
          BY <1>3, <3>1, <3>2, <4>1, <4>3
        <5>. QED
          BY <3>3, <4>2, <5>1
      <4>4. CASE e < c
        <5>1. PICK y : y = Wosize_hd(w[e])
          OBVIOUS
        <5>2. d + y < b /\ y \in Nat
          BY <1>3, <3>1, <4>1, <4>4, <5>1
        <5>. QED
          BY <3>3, <4>2, <5>2
      <4>5. CASE c = e
        BY <3>1, <3>3, <4>1, <4>5
      <4>. QED
        BY <4>2, <4>3, <4>4, <4>5
    <3>6. b \in StaticWosize .. hi - 1
      BY <1>1, <1>2, <3>3
    <3>. QED
      BY <3>3, <3>4, <3>5, <3>6
  <2>. QED
    BY <2>1 DEF BlocksOK
<1>7. FieldsOK(m, N)
  <2>1. ASSUME NEW b \in N, Tag_hd(m[b]) < No_scan_tag, NEW i \in 1 .. Wosize_hd(m[b]) PROVE FieldOK(m, b, i, N)
    <3>1. PICK c \in L : b = dest[c]
      BY <1>5, <2>1
    <3>2. m[b] = w[c] /\ m[b + i] = W[c + i]
      BY <1>4, <2>1, <3>1
    <3>3. IF Tag_hd(w[c]) = Closure_tag /\ i = 1 THEN IsCode(W[c + i]) ELSE Value(W[c + i], N)
      BY <2>1, <3>1, <3>2 DEF Updated
    <3>. QED
      BY <3>2, <3>3 DEF FieldOK
  <2>. QED
    BY <2>1 DEF FieldsOK
<1>8. Filled(m, StaticWosize, hi, N)
  <2>1. ASSUME NEW a \in StaticWosize .. hi - 1 PROVE \E b \in N : a \in b .. b + Wosize_hd(m[b])
    <3>1. PICK c \in L : a \in dest[c] .. dest[c] + Wosize_hd(w[c])
      BY <2>1 DEF Moved
    <3>2. m[dest[c]] = w[c] /\ dest[c] \in N
      BY <1>4 DEF NewPlaces
    <3>. QED
      BY <3>1, <3>2
  <2>. QED
    BY <2>1 DEF Filled
<1>. QED
  BY <1>6, <1>7, <1>8

\* Between two collections.
Idle == phase = "idle" /\ root = 0 /\ \E B : MachineOK(StaticWosize, B)

\* gc() returns.
LEMMA CompactDoneStep == ASSUME Sound, CompactInv, CompactDone PROVE Sound' /\ Idle' /\ ctl' = "done"
<1>1. PICK W, w, C, L, dest : AtCompact(W, w, C, L, dest)
  BY DEF CompactInv
<1>2. /\ root = 0 /\ p >= heap_ptr /\ heap_ptr' = alloc_pos /\ ctl' = "done" /\ phase' = "idle" /\ p' = 0 /\ start' = 0
      /\ alloc_pos' = 0 /\ h' = Undef /\ UNCHANGED <<mem, heap_end, regs, pend, root>>
  BY DEF CompactDone, CompactInv
<1>3. /\ StaticWosize \in Nat /\ HeapWosize \in Nat /\ heap_ptr \in Nat /\ heap_ptr <= HeapWosize /\ heap_end = HeapWosize
      /\ Len(Roots) \in Nat /\ mem \in SizedHeap
  BY Bounds
<1>4. PICK q, N, hi : q = p /\ N = NewPlaces(L, dest) /\ hi = dest[heap_ptr]
  OBVIOUS
<1>5. Updated(W, w, C, L, dest) /\ Rooted(N, {}, 0) /\ q \in C \cup {heap_ptr} /\ alloc_pos = dest[q] /\ Moved(mem, W, w, L, dest, q)
  BY <1>1, <1>4 DEF AtCompact
<1>6. q = heap_ptr
  <2>1. \A c \in C : c \in StaticWosize .. heap_ptr - 1
    BY <1>5, UpdatedFacts
  <2>. QED
    BY <1>2, <1>3, <1>4, <1>5, <2>1
<1>7. alloc_pos = hi /\ hi \in StaticWosize .. heap_ptr
  BY <1>4, <1>5, <1>6, UpdatedFacts
<1>8. BlocksOK(mem, StaticWosize, hi, N) /\ FieldsOK(mem, N) /\ Filled(mem, StaticWosize, hi, N)
  BY <1>4, <1>5, <1>6, HeapMoved
<1>9. RegsOK(acc, env, stack, globals, N) /\ StaticOK(mem, N)
  <2>1. RootsIn(N) /\ StaticKept
    BY <1>5 DEF Rooted
  <2>2. RegsOK(acc, env, stack, globals, N) /\ \A a \in ToSet(StaticFields) : Value(mem[a], N)
    BY <2>1, RootsValues DEF RootsIn, Sound
  <2>. QED
    BY <2>1, <2>2 DEF StaticOK, StaticKept
<1>10. Sound'
  <2>1. /\ mem' \in SizedHeap /\ SizedRegs(acc', env', stack', globals') /\ h' \in Sizable
        /\ Len(stack') = Len(stack) /\ Len(globals') = Len(globals)
    BY <1>2, <1>3, UndefSizable DEF Sound, regs
  <2>2. heap_ptr' \in Nat /\ heap_ptr' >= StaticWosize /\ heap_ptr' <= heap_end
    BY <1>2, <1>3, <1>7
  <2>3. root' \in 0 .. Len(Roots) + 1 /\ p' \in Int /\ start' \in Int /\ alloc_pos' \in Int
    BY <1>2, <1>3
  <2>4. UNCHANGED <<heap_end, pend>> /\ ctl' \in {"gc", "done"}
    BY <1>2
  <2>. QED
    BY <2>1, <2>2, <2>3, <2>4, SteppedSound
<1>11. MachineOK(StaticWosize, N)'
  <2>1. HeapOK(mem, StaticWosize, hi, N)
    BY <1>8, <1>9 DEF HeapOK
  <2>2. heap_ptr' = hi /\ mem' = mem /\ acc' = acc /\ env' = env /\ stack' = stack /\ globals' = globals
    BY <1>2, <1>7 DEF regs
  <2>3. StaticWosize >= StaticWosize
    BY <1>3
  <2>. QED
    BY <1>9, <2>1, <2>2, <2>3 DEF MachineOK, StaticWosize
<1>. QED
  BY <1>2, <1>10, <1>11 DEF Idle

-----------------------------------------------------------------------------
(* The program.                                                             *)

\* The words a program handles are sized: its headers are those of empty blocks.
LEMMA ValuesSized ==
  ASSUME TidyProgram, NEW B, NEW a, NEW e, NEW s, NEW g, RegsOK(a, e, s, g, B)
  PROVE  SizedRegs(a, e, s, g)
<1>1. MaxWosize > 0
  BY MaxWosizeAssumption
<1>2. ASSUME NEW w, Value(w, B) PROVE w \in Sizable
  <2>1. IsHd(w) => Wosize_hd(w) = 0
    BY <1>2, HeaderValue DEF Make_header, Wosize_hd
  <2>. QED
    BY <1>1, <1>2, <2>1 DEF Value, Sizable
<1>3. Values(B) \subseteq Sizable
  BY <1>2 DEF Values
<1>4. s \in Seq(Sizable) /\ g \in Seq(Sizable)
  BY <1>3, WiderSequence DEF RegsOK
<1>. QED
  BY <1>2, <1>4 DEF RegsOK, SizedRegs

\* What an instruction leaves in memory, and inside OCamlAlloc, is sized.
Sizes == mem' \in SizedHeap /\ pend'.size < MaxWosize

\* An exception that leaves sized words in the heap.
LEMMA RaiseSizes == ASSUME NEW st, Raise(st), mem' \in SizedHeap PROVE Sizes
  BY MaxWosizeAssumption DEF Raise, NoPend, Sizes

\* Instructions that write no header.
LEMMA PlainSizes ==
  ASSUME Sound,
         \/ ACC \/ PUSH \/ POP \/ ASSIGN \/ CONST \/ GETGLOBAL \/ SETGLOBAL
         \/ GETFIELD \/ SETFIELD \/ ENVACC \/ OFFSETCLOSURE \/ APPTERM1 \/ GcRun \/ GcRunReturns
  PROVE  Sizes
<1>1. mem \in SizedHeap /\ pend.size < MaxWosize /\ MaxWosize > 0 /\ NoPend.size = 0
  BY MaxWosizeAssumption DEF Sound, NoPend
<1>2. CASE SETFIELD
  <2>1. stack # << >> /\ stack \in Seq(Sizable)
    BY <1>2 DEF SETFIELD, Sound, SizedRegs
  <2>2. Head(stack) \in Sizable
    BY <2>1
  <2>3. PICK i : mem' = [mem EXCEPT ![i] = Head(stack)]
    BY <1>2 DEF SETFIELD
  <2>4. mem' \in SizedHeap
    BY <1>1, <2>2, <2>3 DEF SizedHeap
  <2>. QED
    BY <1>1, <1>2, <2>4 DEF SETFIELD, Sizes, Running
<1>3. CASE GcRun
  <2>1. mem' = mem /\ pend'.size = 0 /\ ctl' = "gc"
    BY <1>3 DEF GcRun, NoPend, heap
  <2>. QED
    BY <1>1, <2>1 DEF Sizes
<1>4. CASE GcRunReturns
  <2>1. mem' = mem /\ pend' = NoPend /\ ctl' = "run"
    BY <1>4 DEF GcRunReturns, heap
  <2>. QED
    BY <1>1, <2>1 DEF Sizes
<1>5. CASE ACC \/ POP \/ ASSIGN \/ CONST \/ GETGLOBAL \/ SETGLOBAL \/ GETFIELD \/ ENVACC \/ OFFSETCLOSURE \/ APPTERM1
  <2>1. mem' = mem /\ pend' = pend /\ ctl' = "run"
    BY <1>5 DEF ACC, POP, ASSIGN, CONST, GETGLOBAL, SETGLOBAL, GETFIELD, ENVACC, OFFSETCLOSURE, APPTERM1,
                SetAcc, heap, Running
  <2>. QED
    BY <1>1, <2>1 DEF Sizes
<1>6. CASE PUSH
  <2>1. mem' = mem /\ (Raise(stack) \/ pend' = pend)
    BY <1>6 DEF PUSH, heap
  <2>. QED
    BY <1>1, <2>1, RaiseSizes DEF Sizes
<1>. QED
  BY <1>2, <1>3, <1>4, <1>5, <1>6

\* The sizes of the blocks that instructions make.
LEMMA BeginSizes ==
  ASSUME Sound, TidyProgram, MAKEBLOCK \/ CLOSURE \/ CLOSUREREC \/ CreateBytes \/ AllocDummy
  PROVE  Sizes
<1>1. ASSUME NEW op, NEW size, NEW tag, NEW n, NEW args, NEW st, Begin(op, size, tag, n, args, st), size < MaxWosize
      PROVE  Sizes
  <2>1. CASE Len(st) > StackWosize
    <3>1. mem' = mem /\ Raise(stack)
      BY <1>1, <2>1 DEF Begin, heap
    <3>. QED
      BY <3>1, RaiseSizes DEF Sound
  <2>2. CASE ~ Len(st) > StackWosize
    <3>1. pend'.size = size /\ mem' = mem /\ ctl' \in {"gc", "alloc"}
      BY <1>1, <2>2 DEF Begin, heap
    <3>. QED
      BY <1>1, <3>1 DEF Sizes, Sound
  <2>. QED
    BY <2>1, <2>2
<1>2. /\ 1 < MaxWosize /\ \A n \in MakeSizes : n < MaxWosize
      /\ \A v \in EnvSizes : v + 1 < MaxWosize /\ \A f \in RecFuns : 2 * f - 1 + v < MaxWosize
  BY MaxWosizeAssumption
<1>3. CASE MAKEBLOCK
  BY <1>1, <1>2, <1>3 DEF MAKEBLOCK
<1>4. CASE CLOSURE
  <2>1. PICK n \in EnvSizes : \E st : Begin("CLOSURE", n + 1, Closure_tag, n, << >>, st)
    BY <1>4 DEF CLOSURE
  <2>. QED
    BY <1>1, <1>2, <2>1
<1>5. CASE CLOSUREREC
  <2>1. PICK f \in RecFuns, v \in EnvSizes : \E st : Begin("CLOSUREREC", 2 * f - 1 + v, Closure_tag, f, << >>, st)
    BY <1>5 DEF CLOSUREREC
  <2>. QED
    BY <1>1, <1>2, <2>1
<1>6. CASE CreateBytes
  BY <1>1, <1>2, <1>6 DEF CreateBytes
<1>7. CASE AllocDummy
  BY <1>1, <1>2, <1>7 DEF AllocDummy
<1>. QED
  BY <1>3, <1>4, <1>5, <1>6, <1>7

\* A block of sized words.
LEMMA WriteSizes ==
  ASSUME Sound, NEW fs, fs \in Seq(Sizable), Write(fs), mem' \in Memories
  PROVE  mem' \in SizedHeap
<1>1. mem \in SizedHeap /\ pend.size < MaxWosize /\ MaxWosize > 0
  BY MaxWosizeAssumption DEF Sound
<1>2. PICK hd : hd = Make_header(pend.size, pend.tag, FreshId)
  OBVIOUS
<1>3. Wosize_hd(hd) < MaxWosize
  BY <1>1, <1>2 DEF Make_header, Wosize_hd
<1>4. ASSUME NEW a \in 0 .. HeapWosize - 1 PROVE mem'[a] \in Sizable
  <2>1. mem'[a] = IF a = heap_ptr THEN hd ELSE IF a - heap_ptr \in DOMAIN fs THEN fs[a - heap_ptr] ELSE mem[a]
    BY <1>1, <1>2, <1>4 DEF Write, SizedHeap
  <2>2. mem'[a] \in Word
    BY <1>4 DEF Memories
  <2>3. CASE a = heap_ptr
    BY <1>3, <2>1, <2>2, <2>3 DEF Sizable
  <2>4. CASE a # heap_ptr /\ a - heap_ptr \in DOMAIN fs
    <3>1. \A i \in DOMAIN fs : fs[i] \in Sizable
      OBVIOUS
    <3>. QED
      BY <2>1, <2>4, <3>1
  <2>5. CASE a # heap_ptr /\ a - heap_ptr \notin DOMAIN fs
    BY <1>1, <1>4, <2>1, <2>5 DEF SizedHeap
  <2>. QED
    BY <2>3, <2>4, <2>5
<1>. QED
  BY <1>4 DEF SizedHeap, Memories

\* The instruction ends, or raises, with it.
LEMMA BuildSizes ==
  ASSUME Sound, NEW fs, fs \in Seq(Sizable), NEW st, Build(fs, st) \/ (Write(fs) /\ Raise(st)),
         mem' \in Memories
  PROVE  Sizes
<1>1. mem' \in SizedHeap
  BY WriteSizes DEF Build
<1>2. pend' = NoPend
  BY DEF Build, Raise
<1>. QED
  BY <1>1, <1>2, MaxWosizeAssumption DEF Sizes, NoPend

\* The words that the instructions of a tidy program put in a new block.
LEMMA AllocateSizes ==
  ASSUME Sound, TidyProgram, OCamlAlloc, mem' \in Memories
  PROVE  Sizes
<1>1. CASE Raise(stack) /\ UNCHANGED heap
  BY <1>1, RaiseSizes DEF heap, Sound
<1>2. CASE Allocate
  <2>1. ASSUME NEW fs, fs \in Seq(Sizable), NEW st, Build(fs, st) \/ (Write(fs) /\ Raise(st)) PROVE Sizes
    BY <2>1, BuildSizes
  <2>2. PendTidy /\ PendOK /\ stack \in Seq(Sizable) /\ acc \in Sizable
    BY DEF Sound, VMTypeOK, SizedRegs
  <2>3. Code(0) \in Sizable /\ Make_header(0, 0, 0) \in Sizable /\ RawWords \subseteq Sizable
    <3>1. Code(0) \in Word /\ Make_header(0, 0, 0) \in Word /\ RawWords \subseteq Word
      BY ImmediateWord, HeaderWord, WordsAssumption
    <3>2. ~ IsHd(Code(0)) /\ Wosize_hd(Make_header(0, 0, 0)) = 0
      BY DEF Code, Val_codeptr, IsHd, Make_header, Wosize_hd
    <3>. QED
      BY <3>1, <3>2, MaxWosizeAssumption DEF Sizable
  <2>4. ASSUME NEW w \in Sizable, NEW n \in 0 .. Len(stack) PROVE <<w>> \o Take(stack, n) \in Seq(Sizable)
    <3>1. Take(stack, n) \in Seq(Sizable)
      BY <2>2, <2>4, SplitValues
    <3>. QED
      BY <2>4, <3>1, PushSeq
  <2>5. CASE pend.op = "MAKEBLOCK" /\ BuildBlock
    <3>1. pend.n - 1 \in 0 .. Len(stack)
      BY <2>2, <2>5 DEF PendOK
    <3>. QED
      BY <2>1, <2>2, <2>4, <2>5, <3>1 DEF BuildBlock
  <2>6. CASE pend.op = "CLOSURE" /\ BuildClosure
    <3>1. pend.n \in 0 .. Len(stack)
      BY <2>2, <2>6 DEF PendOK
    <3>. QED
      BY <2>1, <2>3, <2>4, <2>6, <3>1 DEF BuildClosure
  <2>7. CASE pend.op = "CLOSUREREC" /\ BuildClosureRec
    <3>1. pend.n = 1 /\ pend.size - 1 \in 0 .. Len(stack)
      <4>1. pend.n = 1 /\ pend.size - (2 * pend.n - 1) \in 0 .. Len(stack)
        BY <2>2, <2>7 DEF PendOK, PendTidy
      <4>. QED
        BY <4>1
    <3>2. PICK code, new :
            /\ code = [k \in 1 .. 2 * pend.n - 1 |->
                         IF k % 2 = 1 THEN Code(k \div 2) ELSE Make_header(k, Infix_tag, 0)]
            /\ new = [i \in 1 .. pend.n |-> Val_dynamic_block(heap_ptr + 1 + 2 * (pend.n - i))]
      OBVIOUS
    <3>3. PICK fs : fs = code \o Take(stack, pend.size - (2 * pend.n - 1))
      OBVIOUS
    <3>4. \E st : Build(fs, st) \/ (Write(fs) /\ Raise(st))
      BY <2>7, <3>2, <3>3 DEF BuildClosureRec
    <3>5. code = <<Code(0)>>
      BY <3>1, <3>2
    <3>6. pend.size - (2 * pend.n - 1) = pend.size - 1
      BY <2>2, <3>1 DEF PendOK
    <3>7. fs \in Seq(Sizable)
      BY <2>3, <2>4, <3>1, <3>3, <3>5, <3>6
    <3>. QED
      BY <2>1, <3>4, <3>7
  <2>8. CASE pend.op = "caml_create_bytes" /\ BuildBytes
    <3>1. PICK w \in RawWords : Build(<<w>>, stack)
      BY <2>8 DEF BuildBytes
    <3>2. <<w>> \in Seq(Sizable)
      BY <2>3, <3>1
    <3>. QED
      BY <2>1, <3>1, <3>2
  <2>9. CASE pend.op = "caml_alloc_dummy" /\ BuildDummy
    <3>1. PICK fs : fs = [i \in 1 .. pend.n |-> Make_header(0, 0, 0)]
      OBVIOUS
    <3>2. fs \in [1 .. pend.n -> Sizable] /\ pend.n \in Nat
      BY <2>2, <2>3, <3>1 DEF PendOK
    <3>3. fs \in Seq(Sizable)
      BY <3>2, FunctionSeq
    <3>4. Build(fs, stack)
      BY <2>9, <3>1 DEF BuildDummy
    <3>. QED
      BY <2>1, <3>3, <3>4
  <2>. QED
    BY <1>2, <2>2, <2>5, <2>6, <2>7, <2>8, <2>9 DEF Allocate, PendTidy
<1>. QED
  BY <1>1, <1>2 DEF OCamlAlloc

\* caml_update_dummy copies a header and fields.
LEMMA UpdateDummySizes ==
  ASSUME Sound, UpdateDummy, mem' \in Memories
  PROVE  Sizes
<1>1. PICK w, hd : w = Head(stack) /\ hd = Hd_val(mem, w)
  OBVIOUS
<1>2. /\ stack # << >> /\ IsData(acc) /\ IsData(w) /\ ctl' = "run" /\ pend' = pend
      /\ mem' = [a \in DOMAIN mem |->
                   IF a = acc.at - 1 THEN [hd EXCEPT !.id = mem[a].id]
                   ELSE IF a \in acc.at .. acc.at + Wosize_hd(hd) - 1 THEN Field(mem, w, a - acc.at)
                   ELSE mem[a]]
  BY <1>1 DEF UpdateDummy, Running
<1>3. mem \in SizedHeap /\ VMTypeOK /\ w \in Word /\ acc \in Word /\ HeapWosize \in Nat /\ pend.size < MaxWosize
  BY <1>1, <1>2, Bounds DEF Sound, VMTypeOK
<1>4. /\ w.at \in Nat \ {0} /\ Wosize_hd(hd) \in Nat /\ w.at + Wosize_hd(hd) <= HeapWosize /\ hd \in Word /\ IsHd(hd)
  BY <1>1, <1>2, <1>3, DataFields
<1>5. acc.at \in Nat \ {0}
  BY <1>2, <1>3, DataFields
<1>6. hd \in Sizable
  <2>1. w.at - 1 \in 0 .. HeapWosize - 1
    BY <1>3, <1>4
  <2>. QED
    BY <1>1, <1>3, <2>1 DEF Hd_val, SizedHeap
<1>7. ASSUME NEW a \in 0 .. HeapWosize - 1 PROVE mem'[a] \in Sizable
  <2>1. mem'[a] = IF a = acc.at - 1 THEN [hd EXCEPT !.id = mem[a].id]
                  ELSE IF a \in acc.at .. acc.at + Wosize_hd(hd) - 1 THEN Field(mem, w, a - acc.at)
                  ELSE mem[a]
    BY <1>2, <1>3, <1>7 DEF SizedHeap
  <2>2. mem'[a] \in Word
    BY <1>7 DEF Memories
  <2>3. CASE a = acc.at - 1
    <3>1. mem'[a] = [hd EXCEPT !.id = mem[a].id]
      BY <2>1, <2>3
    <3>2. hd \in [kind : {"hd"}, tag : Nat, size : Nat, low : 0 .. 3, id : Int]
      BY <1>4, IdOfHeader
    <3>3. Wosize_hd(mem'[a]) = Wosize_hd(hd)
      BY <3>1, <3>2 DEF Wosize_hd
    <3>. QED
      BY <1>4, <1>6, <2>2, <3>3 DEF Sizable
  <2>4. CASE a # acc.at - 1 /\ a \in acc.at .. acc.at + Wosize_hd(hd) - 1
    <3>1. mem'[a] = mem[w.at + (a - acc.at)]
      BY <2>1, <2>4 DEF Field
    <3>2. w.at + (a - acc.at) \in 0 .. HeapWosize - 1
      BY <1>3, <1>4, <1>5, <2>4
    <3>. QED
      BY <1>3, <3>1, <3>2 DEF SizedHeap
  <2>5. CASE a # acc.at - 1 /\ a \notin acc.at .. acc.at + Wosize_hd(hd) - 1
    BY <1>3, <1>7, <2>1, <2>5 DEF SizedHeap
  <2>. QED
    BY <2>3, <2>4, <2>5
<1>8. mem' \in SizedHeap
  BY <1>7 DEF SizedHeap, Memories
<1>. QED
  BY <1>2, <1>3, <1>8 DEF Sizes

\* The roots are a sequence, however long the stack.
RootsFor(m, n) ==
  <<acc_addr, env_addr>> \o [i \in 1 .. m |-> stack_addr(i)]
    \o [i \in 1 .. n |-> global_addr(i)] \o StaticFields

\* The roots are finitely many.
LEMMA RootsForLength == ASSUME NEW m \in Nat, NEW n \in Nat PROVE Len(RootsFor(m, n)) \in Nat
<1>1. StaticFields \in Seq(Int)
  <2>1. StaticFields \in Seq(0 + 1 .. StaticWosize - 1)
    BY StaticFacts DEF StaticPart
  <2>2. 0 + 1 .. StaticWosize - 1 \subseteq Int
    OBVIOUS
  <2>. QED
    BY <2>1, <2>2, WiderSequence
<1>2. PICK s, g, r : /\ s = [i \in 1 .. m |-> stack_addr(i)] /\ g = [i \in 1 .. n |-> global_addr(i)]
                     /\ r = <<acc_addr, env_addr>>
  OBVIOUS
<1>3. s \in [1 .. m -> Int] /\ g \in [1 .. n -> Int]
  BY <1>2, SizesAssumption DEF stack_addr, global_addr
<1>4. s \in Seq(Int) /\ g \in Seq(Int) /\ r \in Seq(Int)
  BY <1>2, <1>3, FunctionSeq DEF acc_addr, env_addr
<1>5. r \o s \in Seq(Int)
  BY <1>4, ConcatSeq
<1>6. r \o s \o g \in Seq(Int)
  BY <1>4, <1>5, ConcatSeq
<1>7. r \o s \o g \o StaticFields \in Seq(Int)
  BY <1>1, <1>6, ConcatSeq
<1>. QED
  BY <1>2, <1>7 DEF RootsFor

\* An instruction of a tidy program.
LEMMA InstructionSizes ==
  ASSUME Sound, TidyProgram, Instruction, mem' \in Memories
  PROVE  Sizes
<1>1. ~ ObjDup /\ ~ MakeVect /\ ~ ArraySub /\ ~ ArrayAppend
  BY DEF TidyProgram, ObjDup, MakeVect, ArraySub, ArrayAppend, Running
<1>. QED
  BY <1>1, PlainSizes, BeginSizes, AllocateSizes, UpdateDummySizes DEF Instruction

\* The program's steps, up to a call of gc().
LEMMA InstructionStep ==
  ASSUME TidyProgram, Sound, Idle, Instruction, UNCHANGED gcvars
  PROVE  Sound' /\ Idle' /\ ctl' # "wild"
<1>1. VMTypeOK' /\ heap_end' = heap_end /\ heap_ptr' >= heap_ptr /\ ctl' # "wild"
  BY InstructionType, InstructionEnds DEF Sound, HeapKept
<1>2. phase = "idle" /\ root = 0 /\ UNCHANGED <<phase, root, p, h, start, alloc_pos>>
  BY DEF Idle, gcvars
<1>3. PICK lo : lo = StaticWosize
  OBVIOUS
<1>4. PICK B : MachineOK(lo, B)
  BY <1>3 DEF Idle
<1>5. lo \in Nat /\ lo <= heap_ptr /\ heap_ptr \in Nat /\ heap_ptr' \in Nat
  BY <1>1, <1>3, Bounds DEF VMTypeOK
<1>6. mem' \in Memories
  BY <1>1 DEF VMTypeOK, Memories, HeapWosize, StaticWosize
<1>7. root' \in 0 .. Len(Roots)' + 1
  <2>1. Len(stack') \in Nat /\ Len(globals') \in Nat
    BY <1>1 DEF VMTypeOK
  <2>2. Roots' = RootsFor(Len(stack'), Len(globals'))
    BY DEF Roots, RootsFor
  <2>3. Len(Roots)' \in Nat
    BY <2>1, <2>2, RootsForLength
  <2>. QED
    BY <1>2, <2>3
<1>8. ASSUME mem' \in SizedHeap, SizedRegs(acc', env', stack', globals'), PendTidy', pend'.size < MaxWosize
      PROVE  Sound'
  <2>1. h' \in Sizable /\ p' \in Int /\ start' \in Int /\ alloc_pos' \in Int
    BY <1>2 DEF Sound
  <2>2. heap_end' = HeapWosize /\ heap_ptr' >= StaticWosize
    BY <1>1, <1>3, <1>5 DEF Sound
  <2>. QED
    BY <1>1, <1>7, <1>8, <2>1, <2>2 DEF Sound, SizedHeap, Sizable, SizedRegs, HeapWosize, StaticWosize
<1>9. ASSUME NEW C, MachineOK(lo, C)' PROVE Idle'
  BY <1>2, <1>3, <1>9 DEF Idle, MachineOK, StaticWosize
<1>10. Tidied(lo) /\ Sizes
  BY <1>4, <1>5, <1>6, InstructionTidy, InstructionSizes DEF Sound
<1>11. PICK C : PendTidy' /\ MachineOK(lo, C)'
  BY <1>10 DEF Tidied
<1>12. RegsOK(acc', env', stack', globals', C)
  BY <1>11 DEF MachineOK
<1>13. SizedRegs(acc', env', stack', globals')
  BY <1>12, ValuesSized
<1>. QED
  BY <1>1, <1>8, <1>9, <1>10, <1>11, <1>13 DEF Sizes

-----------------------------------------------------------------------------
(* The invariant.                                                           *)

\* Inside gc(), the invariant of the loop it is in.
Collecting ==
  \/ MarkInv \/ BlockInv \/ WipeInv \/ DeadInv
  \/ RootsInv \/ ReverseInv \/ ThreadInv \/ FieldsInv
  \/ UpdateInv \/ LinksInv \/ ClosureInv \/ CompactInv

GcInv == Sound /\ ctl # "wild" /\ (Idle \/ Collecting)

\* The machine at power-on.
LEMMA InitGcInv == ASSUME TidyProgram, Init PROVE GcInv
<1>1. StaticWosize \in Nat /\ HeapWosize \in Nat /\ StaticWosize < HeapWosize
  BY HeapWosizeNat, SizesAssumption, MaxWosizeAssumption DEF HeapWosize
<1>2. MaxWosize > 0 /\ pend = NoPend /\ pend.size = 0 /\ pend.op = "none" /\ ctl = "run"
  BY MaxWosizeAssumption DEF Init, NoPend
<1>3. ASSUME NEW w, w \in ToSet(StaticHeap) \cup ToSet(InitialGlobals), w \in Word PROVE w \in Sizable
  BY <1>3, MaxWosizeAssumption DEF Sizable
<1>4. mem \in SizedHeap
  <2>1. ASSUME NEW a \in 0 .. StaticWosize - 1 PROVE StaticHeap[a + 1] \in Sizable
    <3>1. a + 1 \in 1 .. Len(StaticHeap)
      BY <1>1 DEF StaticWosize
    <3>2. StaticHeap[a + 1] \in Word /\ StaticHeap[a + 1] \in ToSet(StaticHeap)
      BY <3>1, WordsAssumption, SeqElements
    <3>. QED
      BY <1>3, <3>2
  <2>2. ASSUME NEW a \in 0 .. HeapWosize - 1 PROVE (IF a < StaticWosize THEN StaticHeap[a + 1] ELSE Undef) \in Sizable
    <3>1. a < StaticWosize => a \in 0 .. StaticWosize - 1
      BY <1>1
    <3>. QED
      BY <2>1, <3>1, UndefSizable
  <2>. QED
    BY <2>2 DEF Init, SizedHeap
<1>5. Val_unit \in Sizable
  BY ImmediateWord DEF Sizable, Val_unit, Val_int, IsHd
<1>6. globals \in Seq(Sizable) /\ globals = InitialGlobals /\ stack = << >>
  <2>1. InitialGlobals \in Seq(Word)
    BY WordsAssumption
  <2>2. Len(InitialGlobals) \in Nat /\ \A i \in 1 .. Len(InitialGlobals) : InitialGlobals[i] \in Sizable
    BY <1>3, <2>1, SeqElements
  <2>3. InitialGlobals \in [1 .. Len(InitialGlobals) -> Sizable]
    BY <2>1, <2>2
  <2>. QED
    BY <2>2, <2>3, FunctionSeq DEF Init
<1>7. VMTypeOK
  <2>1. mem \in [0 .. HeapWosize - 1 -> Word] /\ globals \in Seq(Word)
    BY <1>4, <1>6, SizedWords, WordsAssumption DEF Memories
  <2>2. heap_ptr \in Nat /\ heap_end \in 0 .. HeapWosize /\ heap_ptr <= heap_end
    BY <1>1 DEF Init
  <2>3. acc \in Word /\ env \in Word /\ stack \in Seq(Word) /\ Len(stack) <= StackWosize
    BY <1>6, ImmediateWord, SizesAssumption DEF Init
  <2>4. PendOK
    BY <1>2 DEF PendOK, NoPend
  <2>. QED
    BY <1>2, <1>6, <2>1, <2>2, <2>3, <2>4 DEF VMTypeOK
<1>8. Sound
  <2>1. SizedRegs(acc, env, stack, globals) /\ h \in Sizable
    BY <1>5, <1>6, UndefSizable DEF Init, SizedRegs
  <2>2. root \in 0 .. Len(Roots) + 1
    <3>1. Len(Roots) \in Nat
      BY <1>7, RootsOnce
    <3>. QED
      BY <3>1 DEF Init
  <2>3. heap_end = HeapWosize /\ heap_ptr >= StaticWosize /\ p \in Int /\ start \in Int /\ alloc_pos \in Int
    BY <1>1 DEF Init
  <2>. QED
    BY <1>2, <1>4, <1>7, <2>1, <2>2, <2>3 DEF Sound, PendTidy
<1>9. MachineOK(StaticWosize, {})
  <2>1. BlocksOK(mem, StaticWosize, heap_ptr, {}) /\ FieldsOK(mem, {})
    BY DEF BlocksOK, FieldsOK
  <2>2. Filled(mem, StaticWosize, heap_ptr, {})
    BY <1>1 DEF Init, Filled
  <2>3. StaticOK(mem, {})
    <3>1. \A a \in 0 .. StaticWosize - 1 : a \in 0 .. HeapWosize - 1 /\ a < StaticWosize
      BY <1>1
    <3>2. \A a \in 0 .. StaticWosize - 1 : mem[a] = StaticHeap[a + 1]
      BY <3>1 DEF Init
    <3>. QED
      BY <3>2 DEF StaticOK, TidyProgram
  <2>4. RegsOK(acc, env, stack, globals, {})
    <3>1. Value(acc, {}) /\ Value(env, {})
      BY ImmediateValue DEF Init
    <3>2. globals \in Seq(Word) /\ \A i \in 1 .. Len(globals) : globals[i] \in Values({})
      BY <1>6, WordsAssumption, ValueMember, SeqElements DEF TidyProgram
    <3>3. Len(globals) \in Nat /\ globals \in [1 .. Len(globals) -> Values({})]
      BY <3>2
    <3>4. globals \in Seq(Values({})) /\ stack \in Seq(Values({}))
      BY <1>6, <3>3, FunctionSeq
    <3>. QED
      BY <3>1, <3>4 DEF RegsOK
  <2>5. StaticWosize >= StaticWosize
    BY <1>1
  <2>. QED
    BY <2>1, <2>2, <2>3, <2>4, <2>5 DEF MachineOK, HeapOK
<1>10. Idle
  BY <1>9 DEF Idle, Init
<1>. QED
  BY <1>2, <1>8, <1>10 DEF GcInv

\* Which steps gc() takes in which loop.
LEMMA CollectPhases ==
  ASSUME Collect
  PROVE  \/ In("idle") /\ GcStart
         \/ In("mark") /\ (MarkSkip \/ MarkLeaf \/ MarkRoot \/ MarkMisread \/ MarkDone)
         \/ In("block") /\ \/ MarkedRoot \/ LeaveBlock \/ PrevField \/ EnterInfix \/ EnterBlock
                           \/ BlackenLeaf \/ MarkMisread
         \/ In("wipe") /\ (WipeDead \/ WipeAlive \/ WipeMisread \/ WipeDone)
         \/ In("dead") /\ (Merge \/ EndDead \/ WipeMisread)
         \/ In("roots") /\ (ReverseRoot \/ RootsDone \/ ReverseMisread)
         \/ In("reverse") /\ (OpenThread \/ ReverseDone)
         \/ In("thread") /\ (FollowThread \/ ScanBlock \/ ReverseMisread)
         \/ In("fields") /\ (ReverseField \/ FieldsDone \/ ReverseMisread)
         \/ In("update") /\ (UpdateDead \/ Unwind \/ UpdateMisread \/ UpdateDone)
         \/ In("links") /\ (Link \/ HeaderBack \/ UpdateMisread)
         \/ In("infix")
         \/ In("closure") /\ (Unwind \/ ClosureField \/ ClosureDone)
         \/ In("compact") /\ (CompactBlock \/ CompactMisread \/ CompactDone)
<1>1. CASE Mark
  BY <1>1 DEF Mark, MarkSkip, MarkLeaf, MarkRoot, MarkedRoot, LeaveBlock, PrevField, EnterInfix, EnterBlock,
              BlackenLeaf, MarkMisread, Marking, InBlock, IsField, IsPointer
<1>2. CASE Wipe
  BY <1>2 DEF Wipe, WipeDead, Merge, EndDead, WipeAlive, WipeMisread, WipeDone
<1>3. CASE ReversePointers
  BY <1>3 DEF ReversePointers, ReverseRoot, RootsDone, OpenThread, FollowThread, ScanBlock, ReverseField,
              FieldsDone, ReverseMisread, ReverseDone
<1>4. CASE Update
  BY <1>4 DEF Update, UpdateDead, Unwind, Link, HeaderBack, InfixBack, ClosureField, ClosureDone,
              UpdateMisread, UpdateDone
<1>5. CASE Compact
  BY <1>5 DEF Compact, CompactBlock, CompactMisread, CompactDone
<1>6. CASE GcStart \/ MarkDone
  BY <1>6 DEF GcStart, MarkDone
<1>. QED
  BY <1>1, <1>2, <1>3, <1>4, <1>5, <1>6 DEF Collect

\* gc() goes from loop to loop.
Goes == Sound' /\ (Collecting' \/ (Idle' /\ ctl' = "done"))

\* Every step of marking keeps to its invariant.
LEMMA MarkGoes == ASSUME Sound, Collect, MarkInv \/ BlockInv PROVE Goes
<1>1. CASE MarkInv
  <2>1. MarkSkip \/ MarkLeaf \/ MarkRoot \/ MarkMisread \/ MarkDone
    BY <1>1, CollectPhases DEF MarkInv, In
  <2>. QED
    BY <1>1, <2>1, MarkSkipStep, MarkLeafStep, MarkRootStep, MarkDoneStep, MarkReads DEF Goes, Collecting
<1>2. CASE BlockInv
  <2>1. MarkedRoot \/ LeaveBlock \/ PrevField \/ EnterInfix \/ EnterBlock \/ BlackenLeaf \/ MarkMisread
    BY <1>2, CollectPhases DEF BlockInv, In
  <2>. QED
    BY <1>2, <2>1, MarkedRootStep, LeaveBlockStep, PrevFieldStep, EnterBlockStep, BlackenLeafStep, MarkReads
       DEF Goes, Collecting
<1>. QED
  BY <1>1, <1>2

\* Every step of wipe_dead_blocks does.
LEMMA WipeGoes == ASSUME Sound, Collect, WipeInv \/ DeadInv PROVE Goes
<1>1. CASE WipeInv
  <2>1. WipeDead \/ WipeAlive \/ WipeMisread \/ WipeDone
    BY <1>1, CollectPhases DEF WipeInv, In
  <2>. QED
    BY <1>1, <2>1, WipeDeadStep, WipeAliveStep, WipeDoneStep, WipeReads DEF Goes, Collecting
<1>2. CASE DeadInv
  <2>1. Merge \/ EndDead \/ WipeMisread
    BY <1>2, CollectPhases DEF DeadInv, In
  <2>. QED
    BY <1>2, <2>1, MergeStep, EndDeadStep, WipeReads DEF Goes, Collecting
<1>. QED
  BY <1>1, <1>2

\* Every step of reversing does.
LEMMA ReverseGoes == ASSUME Sound, Collect, RootsInv \/ ReverseInv \/ ThreadInv \/ FieldsInv PROVE Goes
<1>1. CASE RootsInv
  <2>1. ReverseRoot \/ RootsDone \/ ReverseMisread
    BY <1>1, CollectPhases DEF RootsInv, In
  <2>. QED
    BY <1>1, <2>1, ReverseRootStep, RootsDoneStep, ReverseReads DEF Goes, Collecting
<1>2. CASE ReverseInv
  <2>1. OpenThread \/ ReverseDone
    BY <1>2, CollectPhases DEF ReverseInv, In
  <2>. QED
    BY <1>2, <2>1, OpenThreadStep, ReverseDoneStep DEF Goes, Collecting
<1>3. CASE ThreadInv
  <2>1. FollowThread \/ ScanBlock \/ ReverseMisread
    BY <1>3, CollectPhases DEF ThreadInv, In
  <2>. QED
    BY <1>3, <2>1, FollowThreadStep, ScanBlockStep, ReverseReads DEF Goes, Collecting
<1>4. CASE FieldsInv
  <2>1. ReverseField \/ FieldsDone \/ ReverseMisread
    BY <1>4, CollectPhases DEF FieldsInv, In
  <2>. QED
    BY <1>4, <2>1, ReverseFieldStep, FieldsDoneStep, ReverseReads DEF Goes, Collecting
<1>. QED
  BY <1>1, <1>2, <1>3, <1>4

\* Every step of updating and of compacting does.
LEMMA UpdateGoes ==
  ASSUME NoBlackImmediate, Sound, Collect, UpdateInv \/ LinksInv \/ ClosureInv \/ CompactInv PROVE Goes
<1>1. CASE UpdateInv
  <2>1. UpdateDead \/ Unwind \/ UpdateMisread \/ UpdateDone
    BY <1>1, CollectPhases DEF UpdateInv, In
  <2>. QED
    BY <1>1, <2>1, UpdateDeadStep, UnwindStep, UpdateDoneStep, UpdateReads DEF Goes, Collecting
<1>2. CASE LinksInv
  <2>1. Link \/ HeaderBack \/ UpdateMisread
    BY <1>2, CollectPhases DEF LinksInv, In
  <2>. QED
    BY <1>2, <2>1, LinkStep, HeaderBackStep, UpdateReads DEF Goes, Collecting
<1>3. CASE ClosureInv
  <2>1. Unwind \/ ClosureField \/ ClosureDone
    BY <1>3, CollectPhases DEF ClosureInv, In
  <2>. QED
    BY <1>3, <2>1, ClosureFieldStep, ClosureDoneStep, UpdateReads DEF Goes, Collecting
<1>4. CASE CompactInv
  <2>1. CompactBlock \/ CompactMisread \/ CompactDone
    BY <1>4, CollectPhases DEF CompactInv, In
  <2>. QED
    BY <1>4, <2>1, CompactBlockStep, CompactDoneStep, CompactReads DEF Goes, Collecting
<1>. QED
  BY <1>1, <1>2, <1>3, <1>4

\* A call of gc() begins.
LEMMA IdleGoes == ASSUME Sound, Collect, Idle PROVE Goes
<1>1. GcStart
  BY CollectPhases DEF Idle, In
<1>2. PICK B : MachineOK(StaticWosize, B)
  BY DEF Idle
<1>. QED
  BY <1>1, <1>2, GcStartStep DEF Goes, Collecting

\* The invariants of the phases are about a collection under way.
LEMMA CollectingControl ==
  /\ Collecting => ctl = "gc"
  /\ Collecting' => ctl' = "gc"
<1>1. Collecting => ctl = "gc"
  BY DEF Collecting, MarkInv, BlockInv, WipeInv, DeadInv, RootsInv, ReverseInv, ThreadInv, FieldsInv,
         UpdateInv, LinksInv, ClosureInv, CompactInv, In
<1>2. Collecting' => ctl' = "gc"
  BY DEF Collecting, MarkInv, BlockInv, WipeInv, DeadInv, RootsInv, ReverseInv, ThreadInv, FieldsInv,
         UpdateInv, LinksInv, ClosureInv, CompactInv, In
<1>. QED
  BY <1>1, <1>2

\* Every step of the program and of the collector keeps the invariant.
LEMMA StepGcInv ==
  ASSUME TidyProgram, NoBlackImmediate, GcInv, Next
  PROVE  GcInv'
<1>1. Sound /\ ctl # "wild" /\ (Idle \/ Collecting)
  BY DEF GcInv
<1>2. CASE Instruction /\ UNCHANGED gcvars
  <2>1. Idle
    BY <1>1, <1>2, InstructionControl, CollectingControl
  <2>. QED
    BY <1>1, <1>2, <2>1, InstructionStep DEF GcInv
<1>3. CASE Collect
  <2>1. Goes
    BY <1>1, <1>3, IdleGoes, MarkGoes, WipeGoes, ReverseGoes, UpdateGoes DEF Collecting
  <2>. QED
    BY <2>1, CollectingControl DEF Goes, GcInv
<1>. QED
  BY <1>2, <1>3 DEF Next, GcStep

\* Nothing happens.
LEMMA Stutter == ASSUME UNCHANGED vars, GcInv PROVE GcInv'
<1>1. /\ UNCHANGED <<mem, heap_ptr, heap_end, acc, env, stack, globals, pend, ctl>>
      /\ UNCHANGED <<phase, root, p, h, start, alloc_pos>>
  BY DEF vars, vmvars, gcvars
<1>2. UNCHANGED regs /\ RootSet' = RootSet /\ Roots' = Roots
  BY <1>1 DEF regs, RootSet, Roots
<1>3. Sound'
  BY <1>1, <1>2 DEF GcInv, Sound, VMTypeOK, PendOK, PendTidy, SizedHeap, Sizable, SizedRegs, Readable, HeapWosize, StaticWosize
<1>4. \A a : At(a)' = At(a)
  BY <1>1 DEF At
<1>5. \A B, S, n : Rooted(B, S, n) => Rooted(B, S, n)'
  BY <1>1, <1>2, <1>4 DEF Rooted, RootsIn, StaticKept, StaticWosize
<1>6. ASSUME Idle PROVE Idle'
  <2>1. PICK B : MachineOK(StaticWosize, B)
    BY <1>6 DEF Idle
  <2>2. MachineOK(StaticWosize, B)'
    BY <1>1, <2>1 DEF MachineOK, StaticWosize
  <2>. QED
    BY <1>1, <1>6, <2>2 DEF Idle
<1>8. ASSUME MarkInv PROVE MarkInv'
  <2>1. PICK g, B, S, bs, fs : AtRoot(g, B, S, bs, fs)
    BY <1>8 DEF MarkInv
  <2>2. PICK m, n : m = mem /\ n = root - 1
    OBVIOUS
  <2>3. MarkState(m, g, B, S, 0, bs, fs, 0) /\ mem' = m /\ UNCHANGED heap_ptr
    BY <1>1, <2>1, <2>2 DEF AtRoot
  <2>4. MarkState(mem, g, B, S, 0, bs, fs, 0)'
    BY <2>3, MarkNext
  <2>5. Rooted(B, S, n)
    BY <2>1, <2>2 DEF AtRoot
  <2>6. Rooted(B, S, n)' /\ n = root' - 1 /\ root' \in 1 .. Len(Roots') + 1
    BY <1>1, <1>2, <1>5, <2>1, <2>2, <2>5 DEF AtRoot
  <2>7. Rooted(B, S, root - 1)'
    BY <2>6
  <2>8. AtRoot(g, B, S, bs, fs)'
    BY <2>4, <2>6, <2>7 DEF AtRoot
  <2>9. In("mark")'
    BY <1>1, <1>8 DEF MarkInv, In
  <2>10. \E g1, B1, S1, bs1, fs1 : AtRoot(g1, B1, S1, bs1, fs1)'
    BY <2>8, Zenon
  <2>. QED
    BY <2>9, <2>10, Zenon DEF MarkInv
<1>9. ASSUME BlockInv PROVE BlockInv'
  <2>1. PICK g, B, S, k, bs, fs : AtBlock(g, B, S, k, bs, fs)
    BY <1>9 DEF BlockInv
  <2>2. PICK m, n, q : m = mem /\ n = root /\ q = p
    OBVIOUS
  <2>3. MarkState(m, g, B, S, k, bs, fs, q) /\ mem' = m /\ UNCHANGED heap_ptr
    BY <1>1, <2>1, <2>2 DEF AtBlock
  <2>4. MarkState(mem, g, B, S, k, bs, fs, q)'
    BY <2>3, MarkNext
  <2>5. Rooted(B, S, n)
    BY <2>1, <2>2 DEF AtBlock
  <2>6. Rooted(B, S, n)' /\ n = root' /\ q = p'
    BY <1>1, <1>5, <2>2, <2>5
  <2>7. Rooted(B, S, root)' /\ MarkState(mem, g, B, S, k, bs, fs, p)'
    BY <2>4, <2>6
  <2>8. Root' = Root
    BY <1>1, <1>2, <1>4 DEF Root
  <2>9. /\ root' \in 1 .. Len(Roots') /\ k > 0
        /\ Is_block_in_dynamic_heap(Root)' /\ Root'.at - 1 = bs[1] /\ h' = g[bs[1]]
        /\ p' \in bs[k] .. bs[k] + Wosize_hd(g[bs[k]])
    BY <1>1, <1>2, <2>1, <2>8 DEF AtBlock, Is_block_in_dynamic_heap, StaticWosize
  <2>10. AtBlock(g, B, S, k, bs, fs)'
    BY <2>7, <2>9 DEF AtBlock
  <2>11. In("block")'
    BY <1>1, <1>9 DEF BlockInv, In
  <2>. QED
    BY <2>10, <2>11, Zenon DEF BlockInv
<1>10. ASSUME WipeInv PROVE WipeInv'
  BY <1>1, <1>2, <1>4, <1>10 DEF WipeInv, AtWipe, WipeState, Alive, In, RootsIn, StaticKept, SizedHeap, Sizable, HeapWosize, StaticWosize
<1>11. ASSUME DeadInv PROVE DeadInv'
  BY <1>1, <1>2, <1>4, <1>11 DEF DeadInv, AtDead, WipeState, Alive, In, RootsIn, StaticKept, SizedHeap, Sizable, HeapWosize, StaticWosize
<1>12. ASSUME NEW V, NEW w, NEW C, NEW K, NEW R, NEW E, ThreadState(V, w, C, K, R, E)
       PROVE  ThreadState(V, w, C, K, R, E)'
  BY <1>1, <1>2, <1>12, ThreadsKept
<1>13. ASSUME RootsInv PROVE RootsInv'
  <2>1. PICK V, w, C, K, R : ThreadState(V, w, C, K, R, RootsTo(root - 1))
    BY <1>13 DEF RootsInv
  <2>2. PICK E : E = RootsTo(root - 1)
    OBVIOUS
  <2>3. ThreadState(V, w, C, K, R, E)' /\ E = RootsTo(root - 1)'
    BY <1>1, <1>2, <1>12, <2>1, <2>2 DEF RootsTo
  <2>. QED
    BY <1>1, <1>2, <1>13, <2>3 DEF RootsInv, In, ThreadState
<1>14. ASSUME ReverseInv PROVE ReverseInv'
  BY <1>1, <1>12, <1>14 DEF ReverseInv, In
<1>15. ASSUME FieldsInv PROVE FieldsInv'
  BY <1>1, <1>12, <1>15 DEF FieldsInv, AtFields, In
<1>16. ASSUME NEW V, NEW w, NEW C, NEW K, NEW R, Frame(V, w, C, K, R) PROVE Frame(V, w, C, K, R)'
  BY <1>1, <1>2, <1>16, FrameNext
<1>17. ASSUME NEW R, NEW A, Words(R, A) PROVE Words(R, A)'
  BY <1>1, <1>2, <1>17, WordsNext
<1>18. ASSUME ThreadInv PROVE ThreadInv'
  BY <1>1, <1>16, <1>17, <1>18 DEF ThreadInv, AtThread, In
<1>19. ASSUME NEW V, NEW w, NEW C, NEW K, NEW R, NEW A, NEW n, NEW t, NEW L, NEW dest, NEW q, NEW X,
              UpdateState(V, w, C, K, R, A, n, t, L, dest, q, X)
       PROVE  UpdateState(V, w, C, K, R, A, n, t, L, dest, q, X)'
  BY <1>1, <1>2, <1>17, <1>19, UpdatingNext DEF UpdateState
<1>20. ASSUME UpdateInv PROVE UpdateInv'
  BY <1>1, <1>19, <1>20 DEF UpdateInv, In
<1>21. ASSUME LinksInv PROVE LinksInv'
  BY <1>1, <1>19, <1>21 DEF LinksInv, AtLinks, In
<1>22. ASSUME ClosureInv PROVE ClosureInv'
  <2>1. PICK V, w, C, K, R, A, n, t, L, dest : AtClosure(V, w, C, K, R, A, n, t, L, dest)
    BY <1>22 DEF ClosureInv
  <2>2. PICK q : q = NextOf(w, start)
    OBVIOUS
  <2>3. UpdateState(V, w, C, K, R, A, n, t, L, dest, q, {})
    BY <2>1, <2>2 DEF AtClosure
  <2>4. UpdateState(V, w, C, K, R, A, n, t, L, dest, q, {})'
    BY <1>19, <2>3
  <2>5. q = NextOf(w, start')
    BY <1>1, <2>2
  <2>6. /\ start' \in L /\ Tag_hd(w[start']) = Closure_tag /\ p' \in start' + 1 .. q
        /\ dest[q] = alloc_pos' + Wosize_hd(w[start']) + 1
    BY <1>1, <2>1, <2>2 DEF AtClosure
  <2>7. AtClosure(V, w, C, K, R, A, n, t, L, dest)'
    BY <2>4, <2>5, <2>6 DEF AtClosure
  <2>8. In("closure")' /\ root' = 0
    BY <1>1, <1>22 DEF ClosureInv, In
  <2>. QED
    BY <2>7, <2>8, Zenon DEF ClosureInv
<1>23. ASSUME CompactInv PROVE CompactInv'
  <2>1. PICK W, w, C, L, dest : AtCompact(W, w, C, L, dest)
    BY <1>23 DEF CompactInv
  <2>2. PICK m, q, N : m = mem /\ q = p /\ N = NewPlaces(L, dest)
    OBVIOUS
  <2>3. Updated(W, w, C, L, dest)'
    BY <1>1, <2>1 DEF AtCompact, Updated, Tiled, Plan, SizedHeap, Sizable, HeapWosize, StaticWosize
  <2>4. Moved(m, W, w, L, dest, q)'
    BY <1>1, <2>1, <2>2 DEF AtCompact, Moved, SizedHeap, Sizable, HeapWosize, StaticWosize
  <2>5. Rooted(N, {}, 0)'
    BY <1>5, <2>1, <2>2 DEF AtCompact
  <2>6. /\ m = mem' /\ q = p' /\ N = NewPlaces(L, dest)
        /\ p' \in C \cup {heap_ptr'} /\ alloc_pos' = dest[p']
    BY <1>1, <2>1, <2>2 DEF AtCompact
  <2>7. Moved(mem, W, w, L, dest, p)' /\ Rooted(NewPlaces(L, dest), {}, 0)'
    BY <2>4, <2>5, <2>6
  <2>8. AtCompact(W, w, C, L, dest)'
    BY <2>3, <2>6, <2>7 DEF AtCompact
  <2>9. In("compact")' /\ root' = 0
    BY <1>1, <1>23 DEF CompactInv, In
  <2>. QED
    BY <2>8, <2>9, Zenon DEF CompactInv
<1>24. (Idle \/ Collecting)'
  <2>1. Idle \/ Collecting
    BY DEF GcInv
  <2>. QED
    BY <2>1, <1>6, <1>8, <1>9, <1>10, <1>11, <1>13, <1>14, <1>15, <1>18, <1>20, <1>21, <1>22, <1>23 DEF Collecting
<1>. QED
  BY <1>1, <1>3, <1>24 DEF GcInv

\* The invariant holds in every state.
LEMMA GcInvAlways == TidyProgram /\ NoBlackImmediate /\ Spec => []GcInv
<1>1. TidyProgram /\ Init => GcInv
  BY InitGcInv
<1>2. TidyProgram /\ NoBlackImmediate /\ GcInv /\ [Next]_vars => GcInv'
  BY StepGcInv, Stutter
<1>3. SUFFICES ASSUME TidyProgram, NoBlackImmediate PROVE Spec => []GcInv
  OBVIOUS
<1>4. Init => GcInv
  BY <1>1, <1>3
<1>5. GcInv /\ [Next]_vars => GcInv'
  BY <1>2, <1>3
<1>. QED
  BY <1>4, <1>5, PTL DEF Spec

\* Words stay words, and no header grows past what its size field can say, through
\* every write of the program and of the collector: marking that borrows fields and
\* headers, the merging of dead blocks, threads and moved blocks.
THEOREM MarkCompactTypes == TidyProgram /\ NoBlackImmediate /\ Spec => []TypeOK
<1>1. GcInv => TypeOK
  BY SoundType DEF GcInv
<1>. QED
  BY <1>1, GcInvAlways, PTL

\* gc() never goes astray while a tidy program runs: mark_block always finds its way
\* back to the root it came from, the loops over the heap go from header to header,
\* every thread leads to the header of the block its words referred to, and every
\* block ends where its references say it will be.
THEOREM MarkCompactSafe == TidyProgram /\ NoBlackImmediate /\ Spec => []MemorySafe
<1>1. GcInv => MemorySafe
  BY DEF GcInv, MemorySafe
<1>. QED
  BY <1>1, GcInvAlways, PTL
=============================================================================
