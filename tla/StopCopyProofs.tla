---------------------------- MODULE StopCopyProofs ----------------------------
(***************************************************************************)
(* Stop & Copy, for every program and every size of the heap and of the    *)
(* stack.                                                                  *)
(*                                                                         *)
(* 1. TypeOK is inductive: instructions keep the part of the machine       *)
(*    (MutatorProofs), and the steps of gc() are treated one by one.       *)
(*                                                                         *)
(* 2. For a tidy program (TidyProgram of MutatorProofs), HeapInv is        *)
(*    inductive on top of TypeOK: outside a collection the machine is well *)
(*    formed (MachineOK), and during one Copying relates the two halves.   *)
(*    MemorySafe and CheneyInvariant follow.                               *)
(***************************************************************************)
EXTENDS StopCopy, MutatorProofs

-----------------------------------------------------------------------------
(* Addresses.                                                               *)

\* Each half of the dynamic heap lies in ocaml_ram_heap.
LEMMA Halves ==
  /\ HalfWosize \in Nat
  /\ \A k \in {0, 1} : /\ tab_heap_start(k) \in Nat /\ tab_heap_end(k) \in Nat
                       /\ tab_heap_start(k) <= tab_heap_end(k)
                       /\ tab_heap_end(k) <= HeapWosize
<1>1. HalfWosize \in Nat /\ 2 * HalfWosize <= DynamicWosize
  BY SizesAssumption DEF HalfWosize
<1>2. StaticWosize \in Nat
  BY HeapWosizeNat
<1>3. QED BY <1>1, <1>2, SizesAssumption DEF tab_heap_start, tab_heap_end, HeapWosize

\* The addresses of roots are those of words, and there are at least acc and env.
LEMMA RootsLocations ==
  ASSUME VMTypeOK
  PROVE  /\ Len(Roots) \in Nat \ {0}
         /\ \A i \in 1 .. Len(Roots) : Roots[i] \in Locations(1)
<1> DEFINE S == Locations(1)
           s == [i \in 1 .. Len(stack) |-> stack_addr(Len(stack) + 1 - i)]
           g == [i \in 1 .. Len(globals) |-> global_addr(i)]
<1>1. Len(stack) \in Nat /\ Len(globals) \in Nat
  BY DEF VMTypeOK
<1>2. s \in Seq(S)
  <2>1. \A i \in 1 .. Len(stack) : Len(stack) + 1 - i \in 1 .. Len(stack)
    BY <1>1
  <2>2. s \in [1 .. Len(stack) -> S]
    BY <2>1 DEF Locations
  <2> HIDE DEF S, s
  <2>3. QED BY <1>1, <2>2, FunctionSeq
<1>3. g \in Seq(S)
  <2>1. g \in [1 .. Len(globals) -> S]
    BY DEF Locations
  <2> HIDE DEF S, g
  <2>2. QED BY <1>1, <2>1, FunctionSeq
<1>4. StaticFields \in Seq(S)
  <2>1. 0 + 1 .. StaticWosize - 1 \subseteq S
    BY HeapWosizeNat, SizesAssumption DEF Locations, HeapWosize
  <2>2. StaticFields \in Seq(0 + 1 .. StaticWosize - 1)
    BY StaticFacts DEF StaticPart
  <2> HIDE DEF S
  <2>3. QED BY <2>1, <2>2, WiderSequence
<1>5. <<acc_addr, env_addr>> \in Seq(S)
  BY DEF Locations
<1> HIDE DEF S, s, g
<1>6. s \o g \in Seq(S)
  BY <1>2, <1>3, ConcatSeq
<1>7. s \o g \o StaticFields \in Seq(S)
  BY <1>4, <1>6, ConcatSeq
<1>8. Roots \in Seq(S) /\ Len(Roots) = Len(s \o g \o StaticFields) + 2
  <2>1. Roots = (s \o g \o StaticFields) \o <<acc_addr, env_addr>>
    BY DEF Roots, s, g
  <2>2. Len(<<acc_addr, env_addr>>) = 2
    OBVIOUS
  <2>3. QED BY <1>5, <1>7, <2>1, <2>2, ConcatSeq
<1>9. Len(s \o g \o StaticFields) \in Nat
  BY <1>7
<1>10. QED BY <1>8, <1>9 DEF S

\* A step of gc() moves no word and makes no room: the addresses stay.
LEMMA SameLocations ==
  ASSUME Len(stack') = Len(stack), Len(globals') = Len(globals)
  PROVE  /\ Roots' = Roots
         /\ \A d : Locations(d)' = Locations(d)
         /\ \A d : local_addr(d)' = local_addr(d)
<1>1. \A i : stack_addr(i)' = stack_addr(i) /\ global_addr(i)' = global_addr(i)
  BY DEF stack_addr, global_addr
<1>2. \A d : local_addr(d)' = local_addr(d)
  BY DEF local_addr, global_addr
<1>3. Roots' = Roots
  BY DEF Roots, stack_addr, global_addr, StaticFields, StaticBlocks, StaticNext, StaticWosize, acc_addr, env_addr
<1>4. \A d : Locations(d)' = Locations(d)
  BY DEF Locations, local_addr, stack_addr, global_addr, HeapWosize, StaticWosize, acc_addr, env_addr
<1>5. QED BY <1>2, <1>3, <1>4

\* An activation holds an address of its own, and locals of their types.
LEMMA FrameType ==
  ASSUME TypeOK, NEW d \in 1 .. Depth
  PROVE  /\ frames[d] \in Activation
         /\ frames[d].ptr \in Locations(d) /\ frames[d].ptr \in Int
         /\ frames[d].todo \in Int /\ frames[d].start \in Word /\ frames[d].ofs \in Nat
<1>1. frames[d] \in Activation /\ frames[d].ptr \in Locations(d)
  BY DEF TypeOK, Depth
<1>2. QED BY <1>1 DEF Activation

\* *ptr is a word, of memory or a caller's local `start`.
LEMMA LoadWord ==
  ASSUME TypeOK, frames # << >>, NEW loc \in Locations(Depth)
  PROVE  Load(loc) \in Word
<1>1. /\ Len(stack) \in Nat /\ Len(globals) \in Nat /\ Depth \in Nat
      /\ Len(stack) <= StackWosize /\ StackWosize \in Nat
  BY SizesAssumption DEF TypeOK, VMTypeOK, Depth
<1>2. CASE \E k \in 1 .. Depth - 1 : loc = local_addr(k)
  <2>1. PICK k \in 1 .. Depth - 1 : loc = local_addr(k)
    BY <1>2
  <2>2. local_addr(0) - loc = k /\ loc < local_addr(0)
    BY <1>1, <2>1 DEF local_addr, global_addr
  <2>3. frames[k].start \in Word
    <3>1. k \in 1 .. Depth
      BY <1>1, <2>1
    <3>2. QED BY <3>1, FrameType
  <2>4. QED BY <2>2, <2>3 DEF Load
<1>3. CASE ~ \E k \in 1 .. Depth - 1 : loc = local_addr(k)
  <2>1. ~ (loc < local_addr(0))
    BY <1>1, <1>3 DEF Locations, local_addr, global_addr, stack_addr, acc_addr, env_addr
  <2>2. At(loc) \in Word
    <3>1. CASE loc \in 0 .. HeapWosize - 1
      <4>1. At(loc) = mem[loc]
        BY <3>1, HeapWosizeNat DEF At
      <4>2. QED BY <3>1, <4>1 DEF TypeOK, VMTypeOK
    <3>2. CASE loc = acc_addr \/ loc = env_addr
      BY <3>2 DEF At, acc_addr, env_addr, TypeOK, VMTypeOK
    <3>3. CASE \E i \in 1 .. Len(stack) : loc = stack_addr(i)
      <4>1. PICK i \in 1 .. Len(stack) : loc = stack_addr(i)
        BY <3>3
      <4>2. stack_addr(0) - loc = i /\ stack[i] \in Word
        BY <1>1, <4>1 DEF stack_addr, TypeOK, VMTypeOK
      <4>3. loc \in Int /\ loc >= stack_addr(StackWosize) /\ loc < -2
        BY <1>1, <4>1 DEF stack_addr
      <4>4. QED BY <4>2, <4>3 DEF At, acc_addr, env_addr
    <3>4. CASE \E i \in 1 .. Len(globals) : loc = global_addr(i)
      <4>1. PICK i \in 1 .. Len(globals) : loc = global_addr(i)
        BY <3>4
      <4>2. global_addr(0) - loc = i /\ globals[i] \in Word
        BY <1>1, <4>1 DEF global_addr, TypeOK, VMTypeOK
      <4>3. loc \in Int /\ ~ (loc >= stack_addr(StackWosize)) /\ loc < -2
        BY <1>1, <4>1 DEF stack_addr, global_addr
      <4>4. QED BY <4>2, <4>3 DEF At, acc_addr, env_addr
    <3>5. QED BY <1>3, <3>1, <3>2, <3>3, <3>4 DEF Locations
  <2>3. QED BY <2>1, <2>2 DEF Load
<1>4. QED BY <1>2, <1>3

\* The activations fs are as those of a state of TypeOK.
FramesOK(fs) ==
  fs \in Seq(Activation) /\ \A d \in 1 .. Len(fs) : fs[d].ptr \in Locations(d)

\* An address is an integer, and one that is not negative is of the heap.
LEMMA LocationInt ==
  ASSUME VMTypeOK, NEW d \in Int, NEW loc \in Locations(d)
  PROVE  loc \in Int /\ (loc >= 0 => loc \in 0 .. HeapWosize - 1)
<1>1. Len(stack) \in Nat /\ Len(globals) \in Nat /\ StackWosize \in Nat
  BY SizesAssumption DEF VMTypeOK
<1>2. QED
  BY <1>1 DEF Locations, local_addr, global_addr, stack_addr, acc_addr, env_addr

\* *ptr = w keeps memory and the activations well formed.
LEMMA StoreType ==
  ASSUME TypeOK, NEW fs, FramesOK(fs), Len(fs) = Depth, frames # << >>,
         NEW loc \in Locations(Depth), NEW w \in Word, NEW m \in Memories,
         Store(loc, w, m, fs)
  PROVE  WordsKept /\ FramesOK(frames') /\ Len(frames') = Depth
<1>1. VMTypeOK /\ Depth \in Nat /\ Depth > 0
  BY DEF TypeOK, Depth
<1>2. WordsKept
  BY <1>1, LocationInt, PutType DEF Store
<1>3. CASE ~ (loc < local_addr(0))
  BY <1>2, <1>3 DEF Store
<1>4. CASE loc < local_addr(0)
  <2> DEFINE k == local_addr(0) - loc
  <2>1. frames' = [fs EXCEPT ![k].start = w]
    BY <1>4 DEF Store
  <2>2. DOMAIN fs = 1 .. Len(fs) /\ \A d \in 1 .. Len(fs) : fs[d] \in Activation
    BY DEF FramesOK
  <2> HIDE DEF k
  <2>3. \A d \in 1 .. Len(fs) : frames'[d] \in Activation /\ frames'[d].ptr = fs[d].ptr
    BY <2>1, <2>2 DEF Activation
  <2>4. frames' \in [1 .. Len(fs) -> Activation]
    BY <2>1, <2>2, <2>3
  <2>5. Len(fs) \in Nat
    BY <1>1
  <2>6. frames' \in Seq(Activation) /\ Len(frames') = Len(fs)
    BY <2>4, <2>5, FunctionSeq
  <2>7. QED BY <1>2, <2>3, <2>6 DEF FramesOK
<1>5. QED BY <1>3, <1>4

\* Going to a label, or on to another word, keeps the activations well formed.
LEMMA GotoType ==
  ASSUME TypeOK, frames # << >>, NEW l \in {"start", "next", "return"}
  PROVE  FramesOK(Goto(l)) /\ Len(Goto(l)) = Depth
<1>1. frames \in Seq(Activation) /\ Depth \in 1 .. Len(frames) /\ Len(frames) = Depth
  BY DEF TypeOK, Depth
<1>2. \A d \in 1 .. Depth : Goto(l)[d] \in Activation /\ Goto(l)[d].ptr = frames[d].ptr
  <2> TAKE d \in 1 .. Depth
  <2>1. Goto(l)[d] = IF d = Depth THEN [frames[d] EXCEPT !.at = l] ELSE frames[d]
    BY <1>1 DEF Goto
  <2>2. frames[d] \in Activation
    BY <1>1
  <2>3. QED BY <2>1, <2>2 DEF Activation
<1>3. Goto(l) \in [1 .. Depth -> Activation]
  BY <1>1, <1>2 DEF Goto
<1>4. Goto(l) \in Seq(Activation) /\ Len(Goto(l)) = Depth
  BY <1>1, <1>3, FunctionSeq
<1>5. QED BY <1>2, <1>4 DEF FramesOK, TypeOK

\* Entering the next word to scan keeps the activations well formed.
LEMMA ScanType ==
  ASSUME TypeOK, frames # << >>, NEW a \in 0 .. HeapWosize - 1, NEW n \in Int, Scan(a, n)
  PROVE  /\ FramesOK(frames') /\ Len(frames') = Depth /\ frames' # << >>
         /\ heap_todo' \in Int /\ heap_todo' >= -1
<1>1. frames \in Seq(Activation) /\ Depth \in 1 .. Len(frames) /\ Len(frames) = Depth
  BY DEF TypeOK, Depth
<1>2. frames' = [frames EXCEPT ![Depth] = [Top EXCEPT !.at = "start", !.ptr = a, !.todo = n]]
      /\ heap_todo' = a
  BY DEF Scan
<1>3. \A d \in 1 .. Depth : frames'[d] \in Activation /\ frames'[d].ptr \in {a, frames[d].ptr}
  <2> TAKE d \in 1 .. Depth
  <2> DEFINE new == [Top EXCEPT !.at = "start", !.ptr = a, !.todo = n]
  <2>1. new \in Activation /\ new.ptr = a
    <3>1. Top \in Activation /\ a \in Int
      BY <1>1, HeapWosizeNat DEF Top
    <3>2. QED BY <3>1 DEF Activation
  <2> HIDE DEF new
  <2>2. frames' = [frames EXCEPT ![Depth] = new]
    BY <1>2 DEF new
  <2>3. QED BY <1>1, <2>1, <2>2
<1>4. frames' \in [1 .. Depth -> Activation]
  BY <1>1, <1>2, <1>3
<1>5. frames' \in Seq(Activation) /\ Len(frames') = Depth
  BY <1>1, <1>4, FunctionSeq
<1>6. \A d \in 1 .. Depth : frames'[d].ptr \in Locations(d)
  <2>1. \A d : a \in Locations(d)
    BY DEF Locations
  <2>2. QED BY <1>3, <2>1 DEF TypeOK
<1>7. QED BY <1>1, <1>2, <1>5, <1>6, HeapWosizeNat DEF FramesOK

-----------------------------------------------------------------------------
(* The steps of gc().                                                       *)

\* A step that stores nothing keeps every word.
LEMMA UnchangedWords ==
  ASSUME VMTypeOK, UNCHANGED <<mem, regs>>
  PROVE  WordsKept
  BY DEF VMTypeOK, regs, WordsKept, Memories

\* A step inside gc() that keeps words, activations and the allocation pointer
\* in range keeps TypeOK.
LEMMA SteppedType ==
  ASSUME TypeOK, WordsKept, FramesOK(frames'),
         heap_ptr' \in Nat, heap_ptr <= heap_ptr', heap_ptr' <= heap_end,
         UNCHANGED <<heap_end, pend, current_heap>>, heap_todo' \in Int, heap_todo' >= -1,
         root' = 0 \/ root' \in 1 .. Len(Roots), root' = 0 <=> frames' = << >>,
         ctl' \in {"gc", "done", "wild"}, ctl' = "done" => root' = 0
  PROVE  TypeOK'
<1>1. Roots' = Roots /\ \A d : Locations(d)' = Locations(d)
  BY SameLocations DEF WordsKept
<1>2. PendOK'
  <2>1. PendOK /\ Len(stack') = Len(stack) /\ stack \in Seq(Word) /\ stack' \in Seq(Word)
    BY DEF TypeOK, VMTypeOK, WordsKept
  <2>2. stack # << >> => stack' # << >>
    BY <2>1
  <2>3. QED BY <2>1, <2>2 DEF PendOK, Readable, HeapWosize, StaticWosize
<1>3. VMTypeOK'
  BY <1>2 DEF TypeOK, VMTypeOK, WordsKept, Memories, HeapWosize, StaticWosize
<1>4. heap_end' = tab_heap_end(current_heap)' /\ heap_ptr' >= tab_heap_start(current_heap)'
  <2>1. /\ tab_heap_start(current_heap)' = tab_heap_start(current_heap)
        /\ tab_heap_end(current_heap)' = tab_heap_end(current_heap)
    BY DEF tab_heap_start, tab_heap_end
  <2>2. tab_heap_start(current_heap) \in Nat /\ current_heap \in {0, 1}
    BY Halves DEF TypeOK
  <2>3. /\ heap_end = tab_heap_end(current_heap) /\ heap_ptr >= tab_heap_start(current_heap)
        /\ heap_ptr \in Nat
    BY DEF TypeOK, VMTypeOK
  <2>4. QED BY <2>1, <2>2, <2>3
<1>5. frames' \in Seq(Activation') /\ \A d \in 1 .. Depth' : frames'[d].ptr \in Locations(d)'
  BY <1>1 DEF FramesOK, Depth, Activation
<1>6. QED BY <1>1, <1>3, <1>4, <1>5 DEF TypeOK

\* In gc(), between its start and its end.
LEMMA Active ==
  ASSUME TypeOK, ctl = "gc", root > 0
  PROVE  /\ VMTypeOK /\ root \in 1 .. Len(Roots) /\ frames # << >>
         /\ Depth \in Nat \ {0} /\ FramesOK(frames)
         /\ Top \in Activation /\ Top.ptr \in Locations(Depth)
         /\ Load(Top.ptr) \in Word
         /\ heap_ptr \in Nat /\ heap_end \in Nat /\ heap_ptr <= heap_end
<1>1. VMTypeOK /\ root \in 1 .. Len(Roots) /\ frames # << >> /\ FramesOK(frames)
  BY DEF TypeOK, FramesOK, Depth
<1>2. Depth \in Nat \ {0} /\ Depth \in 1 .. Depth
  BY <1>1 DEF FramesOK, Depth
<1>3. Top \in Activation /\ Top.ptr \in Locations(Depth)
  BY <1>2, FrameType DEF Top
<1>4. Load(Top.ptr) \in Word
  BY <1>1, <1>3, LoadWord
<1>5. heap_ptr \in Nat /\ heap_end \in Nat /\ heap_ptr <= heap_end
  BY <1>1, HeapWosizeNat DEF VMTypeOK
<1>6. QED BY <1>1, <1>2, <1>3, <1>4, <1>5

\* The block that *ptr points to, when it is one.
LEMMA PointedBlock ==
  ASSUME TypeOK, Examined, Sane
  PROVE  LET hd == Hd_val(mem, Pointed) IN
         /\ Pointed \in [kind : {"dyn", "static"}, at : Int, low : 0 .. 3]
         /\ Pointed.at \in 1 .. HeapWosize - 1
         /\ hd \in [kind : {"hd"}, tag : Nat, size : Nat, low : 0 .. 3, id : Int]
         /\ Field(mem, Pointed, 0) \in Word
<1>1. Pointed \in Word /\ Is_block(Pointed)
  BY Active DEF Examined, Examining, Pointed, Is_block, Is_block_in_dynamic_heap
<1>2. Pointed.at \in Int
  BY <1>1, BlockAddress
<1>3. Pointed.at \in 1 .. HeapWosize - 1 /\ Pointed.at - 1 \in 0 .. HeapWosize - 1
  BY <1>2, HeapWosizeNat DEF Sane, InHeap
<1>4. mem \in [0 .. HeapWosize - 1 -> Word]
  BY DEF TypeOK, VMTypeOK
<1>5. Hd_val(mem, Pointed) \in Word /\ IsHd(Hd_val(mem, Pointed))
  BY <1>3, <1>4 DEF Sane, Hd_val
<1>6. Field(mem, Pointed, 0) \in Word
  BY <1>2, <1>3, <1>4 DEF Field
<1>7. QED BY <1>1, <1>3, <1>5, <1>6, BlockAddress, IdOfHeader

\* Undefined behaviour is recorded in ctl, and the model stops there.
LEMMA WildType == ASSUME TypeOK, ctl = "gc", root > 0, Wild PROVE TypeOK'
<1>1. WordsKept
  BY Active, UnchangedWords DEF Wild, heap
<1>2. QED BY <1>1, Active, SteppedType DEF Wild, heap, gcvars, TypeOK

\* `start:` on a word that is no pointer keeps TypeOK.
LEMMA SkipValueType == ASSUME TypeOK, SkipValue PROVE TypeOK'
<1>1. ctl = "gc" /\ root > 0
  BY DEF SkipValue, Examining
<1>2. WordsKept
  BY <1>1, Active, UnchangedWords DEF SkipValue, heap
<1>3. FramesOK(frames') /\ frames' # << >>
  BY <1>1, Active, GotoType DEF SkipValue
<1>4. QED BY <1>1, <1>2, <1>3, Active, SteppedType DEF SkipValue, heap, TypeOK

\* `start:` on a pointer to a copied block keeps TypeOK.
LEMMA ForwardType == ASSUME TypeOK, Forward PROVE TypeOK'
<1>1. ctl = "gc" /\ root > 0
  BY DEF Forward, Examined, Examining
<1>2. FramesOK(Goto("next")) /\ Len(Goto("next")) = Depth
  BY <1>1, Active, GotoType
<1>3. mem \in Memories
  BY DEF TypeOK, VMTypeOK, Memories
<1>4. WordsKept /\ FramesOK(frames') /\ Len(frames') = Depth
  BY <1>1, <1>2, <1>3, Active, PointedBlock, StoreType DEF Forward
<1>5. frames' # << >>
  BY <1>1, <1>4, Active
<1>6. QED BY <1>1, <1>4, <1>5, Active, SteppedType DEF Forward, TypeOK

\* Copying a block makes words of words.
LEMMA CopiedType ==
  ASSUME TypeOK, Copy
  PROVE  CopiedTo(Hd_val(mem, Pointed), Val_dynamic_block(heap_ptr + 1)) \in Memories
<1>1. ctl = "gc" /\ root > 0 /\ Examined /\ Sane
  BY DEF Copy, Examined, Examining
<1> DEFINE hd  == Hd_val(mem, Pointed)
           new == Val_dynamic_block(heap_ptr + 1)
<1>2. /\ hd \in [kind : {"hd"}, tag : Nat, size : Nat, low : 0 .. 3, id : Int]
      /\ Pointed.at \in 1 .. HeapWosize - 1 /\ Pointed.at \in Int
  BY <1>1, PointedBlock, HeapWosizeNat
<1>3. new \in Word
  BY <1>1, Active DEF Val_dynamic_block, Word
<1>4. Pointed.at + Wosize_hd(hd) <= HeapWosize /\ Tag_hd(hd) # Infix_tag
  BY <1>1 DEF Copy, Sane
<1>5. Set_black_hd(hd) \in Word
  BY <1>2 DEF Set_black_hd, Is_black_hd, Color_black, Word
<1>6. hd \in Word
  BY <1>2 DEF Word
<1>7. mem \in Memories
  BY DEF TypeOK, VMTypeOK, Memories
<1>8. CopiedTo(hd, new) \in Memories
  <2>1. \A a \in heap_ptr + 1 .. heap_ptr + Wosize_hd(hd) :
          Field(mem, Pointed, a - heap_ptr - 1) \in Word
    <3> TAKE a \in heap_ptr + 1 .. heap_ptr + Wosize_hd(hd)
    <3>1. heap_ptr \in Nat /\ Wosize_hd(hd) \in Nat /\ HeapWosize \in Nat
      BY <1>1, <1>2, Active, HeapWosizeNat DEF Wosize_hd
    <3>2. Pointed.at + (a - heap_ptr - 1) \in 0 .. HeapWosize - 1
      BY <1>2, <1>4, <3>1
    <3>3. QED BY <1>7, <3>2 DEF Field, Memories
  <2> HIDE DEF hd, new
  <2>2. DOMAIN mem = 0 .. HeapWosize - 1 /\ \A a \in DOMAIN mem : mem[a] \in Word
    BY <1>7 DEF Memories
  <2>3. \A a \in DOMAIN mem : CopiedTo(hd, new)[a] \in Word
    BY <1>3, <1>5, <1>6, <2>1, <2>2 DEF CopiedTo
  <2>4. DOMAIN CopiedTo(hd, new) = DOMAIN mem
    BY DEF CopiedTo
  <2>5. CopiedTo(hd, new) = [a \in DOMAIN mem |-> CopiedTo(hd, new)[a]]
    BY DEF CopiedTo
  <2>6. QED BY <2>2, <2>3, <2>5 DEF Memories
<1>9. QED BY <1>8

\* `start:` on a pointer to a block not yet copied keeps TypeOK: the copy fits.
LEMMA CopyType == ASSUME TypeOK, Copy PROVE TypeOK'
<1>1. ctl = "gc" /\ root > 0 /\ Examined /\ Sane
  BY DEF Copy, Examined, Examining
<1> DEFINE hd  == Hd_val(mem, Pointed)
           new == Val_dynamic_block(heap_ptr + 1)
<1>2. hd \in [kind : {"hd"}, tag : Nat, size : Nat, low : 0 .. 3, id : Int]
  BY <1>1, PointedBlock
<1>3. new \in Word
  BY <1>1, Active DEF Val_dynamic_block, Word
<1>4. CopiedTo(hd, new) \in Memories
  BY CopiedType
<1>5. FramesOK(Goto("next")) /\ Len(Goto("next")) = Depth
  BY <1>1, Active, GotoType
<1>6. WordsKept /\ FramesOK(frames') /\ Len(frames') = Depth
  <2>1. Store(Top.ptr, new, CopiedTo(hd, new), Goto("next"))
    BY DEF Copy
  <2>2. frames # << >> /\ Top.ptr \in Locations(Depth)
    BY <1>1, Active
  <2> HIDE DEF hd, new
  <2>3. QED BY <1>3, <1>4, <1>5, <2>1, <2>2, StoreType
<1>7. heap_ptr' \in Nat /\ heap_ptr <= heap_ptr' /\ heap_ptr' <= heap_end
  <2>1. heap_ptr' = heap_ptr + 1 + Wosize_hd(hd) /\ heap_ptr + Wosize_hd(hd) < heap_end
    BY DEF Copy
  <2>2. heap_ptr \in Nat /\ heap_end \in Nat /\ Wosize_hd(hd) \in Nat
    BY <1>1, <1>2, Active DEF Wosize_hd
  <2>3. QED BY <2>1, <2>2
<1>8. frames' # << >>
  BY <1>1, <1>6, Active
<1>9. UNCHANGED <<heap_end, pend, ctl, current_heap, heap_todo, root>>
  BY DEF Copy
<1> HIDE DEF hd, new
<1>10. QED BY <1>1, <1>6, <1>7, <1>8, <1>9, Active, SteppedType DEF TypeOK

\* An address or a code pointer to which words are added is still a word.
LEMMA PlusType ==
  ASSUME NEW w \in Word, Shiftable(w), NEW k \in Int
  PROVE  Plus(w, k) \in Word
<1>1. CASE w.kind = "dyn"
  <2>1. w \in [kind : {"dyn", "static"}, at : Int, low : 0 .. 3]
    BY <1>1 DEF Word
  <2>2. QED BY <1>1, <2>1 DEF Plus, Word
<1>2. CASE w.kind = "code"
  <2>1. w \in [kind : {"int", "code", "float"}, n : Int, low : 0 .. 3]
    BY <1>2 DEF Word
  <2>2. QED BY <1>2, <2>1 DEF Plus, Word
<1>3. QED BY <1>1, <1>2 DEF Shiftable

\* A call of gc_one_val on a root, or on a caller's local.
LEMMA CallType ==
  ASSUME NEW loc \in Int
  PROVE  Call(loc) \in Activation /\ Call(loc).ptr = loc /\ Call(loc).at = "start"
<1>1. Undef \in Word
  BY DEF Undef, Word
<1>2. QED BY <1>1 DEF Call, Activation

\* A call on a root is the only activation.
LEMMA FirstCallType ==
  ASSUME VMTypeOK, NEW loc \in Locations(1), NEW fs, fs = <<Call(loc)>>
  PROVE  FramesOK(fs) /\ fs # << >>
<1>1. Call(loc) \in Activation /\ Call(loc).ptr = loc
  BY LocationInt, CallType
<1>2. fs \in Seq(Activation) /\ Len(fs) = 1 /\ fs[1] = Call(loc)
  BY <1>1
<1>3. QED BY <1>1, <1>2 DEF FramesOK

\* Appending an element.
LEMMA AppendSeq ==
  ASSUME NEW S, NEW s \in Seq(S), NEW e \in S
  PROVE  /\ Append(s, e) \in Seq(S) /\ Len(Append(s, e)) = Len(s) + 1
         /\ \A d \in 1 .. Len(s) : Append(s, e)[d] = s[d]
         /\ Append(s, e)[Len(s) + 1] = e
  OBVIOUS

\* The call gc_one_val makes to itself on its local `start`.
LEMMA InnerCallType ==
  ASSUME TypeOK, frames # << >>, NEW s \in Word, NEW k \in Nat,
         frames' = Append([frames EXCEPT ![Depth].at = "return", ![Depth].start = s,
                                         ![Depth].ofs = k],
                          Call(local_addr(Depth)))
  PROVE  FramesOK(frames') /\ frames' # << >>
<1> DEFINE fs == [frames EXCEPT ![Depth].at = "return", ![Depth].start = s, ![Depth].ofs = k]
<1>1. frames \in Seq(Activation) /\ Depth \in 1 .. Len(frames) /\ Len(frames) = Depth
  BY DEF TypeOK, Depth
<1>2. \A d \in 1 .. Depth : fs[d] \in Activation /\ fs[d].ptr = frames[d].ptr
  <2> TAKE d \in 1 .. Depth
  <2>1. frames[d] \in Activation
    BY <1>1
  <2>2. CASE d # Depth
    BY <1>1, <2>1, <2>2
  <2>3. CASE d = Depth
    <3>1. fs[d] = [frames[d] EXCEPT !.at = "return", !.start = s, !.ofs = k]
      BY <1>1, <2>3
    <3> HIDE DEF fs
    <3>2. QED BY <2>1, <3>1 DEF Activation
  <2>4. QED BY <2>2, <2>3
<1>3. fs \in Seq(Activation) /\ Len(fs) = Depth
  <2>1. fs \in [1 .. Depth -> Activation]
    BY <1>1, <1>2
  <2> HIDE DEF fs
  <2>2. QED BY <1>1, <2>1, FunctionSeq
<1>4. VMTypeOK /\ Len(globals) \in Nat /\ StackWosize \in Nat
  BY SizesAssumption DEF TypeOK, VMTypeOK
<1>5. local_addr(Depth) \in Int
  BY <1>1, <1>4 DEF local_addr, global_addr
<1>6. local_addr(Depth) \in Locations(Depth + 1)
  BY <1>1 DEF Locations
<1>7. Call(local_addr(Depth)) \in Activation /\ Call(local_addr(Depth)).ptr = local_addr(Depth)
  BY <1>5, CallType
<1> HIDE DEF fs
<1>8. frames' = Append(fs, Call(local_addr(Depth)))
  BY DEF fs
<1>9. /\ frames' \in Seq(Activation) /\ Len(frames') = Depth + 1
      /\ \A d \in 1 .. Depth : frames'[d] = fs[d]
      /\ frames'[Depth + 1] = Call(local_addr(Depth))
  <2> DEFINE c == Call(local_addr(Depth))
  <2>1. fs \in Seq(Activation) /\ Len(fs) = Depth /\ c \in Activation
    BY <1>3, <1>7
  <2> HIDE DEF c
  <2>2. /\ Append(fs, c) \in Seq(Activation) /\ Len(Append(fs, c)) = Depth + 1
        /\ \A d \in 1 .. Depth : Append(fs, c)[d] = fs[d]
        /\ Append(fs, c)[Depth + 1] = c
    BY <2>1, AppendSeq
  <2>3. frames' = Append(fs, c)
    BY <1>8 DEF c
  <2>4. c = Call(local_addr(Depth))
    BY DEF c
  <2>5. QED BY <2>2, <2>3, <2>4
<1>10. \A d \in 1 .. Depth : frames'[d].ptr \in Locations(d)
  BY <1>2, <1>9 DEF TypeOK
<1>11. \A d \in 1 .. Depth + 1 : frames'[d].ptr \in Locations(d)
  <2>1. \A d \in 1 .. Depth + 1 : d \in 1 .. Depth \/ d = Depth + 1
    BY <1>1
  <2>2. QED BY <1>6, <1>7, <1>9, <1>10, <2>1
<1>12. QED BY <1>1, <1>9, <1>11 DEF FramesOK

\* `start:` on an infix pointer keeps TypeOK, whether the closure it points
\* into has been copied or must be by a call.
LEMMA InfixType == ASSUME TypeOK, Infix PROVE TypeOK'
<1>1. ctl = "gc" /\ root > 0 /\ Examined /\ Sane
  BY DEF Infix, Examined, Examining
<1> DEFINE hd == Hd_val(mem, Pointed)
           s  == [Pointed EXCEPT !.at = @ - Wosize_hd(hd)]
<1>2. /\ hd \in [kind : {"hd"}, tag : Nat, size : Nat, low : 0 .. 3, id : Int]
      /\ Pointed \in [kind : {"dyn", "static"}, at : Int, low : 0 .. 3]
      /\ Pointed.at \in 1 .. HeapWosize - 1
  BY <1>1, PointedBlock
<1>3. Wosize_hd(hd) \in Nat /\ HeapWosize \in Nat
  BY <1>2, HeapWosizeNat DEF Wosize_hd
<1>4. s \in Word /\ s.at = Pointed.at - Wosize_hd(hd)
  <2>1. Wosize_hd(hd) \in Int
    BY <1>3
  <2>2. s = [Pointed EXCEPT !.at = Pointed.at - Wosize_hd(hd)]
    BY <1>2
  <2> HIDE DEF hd
  <2>3. QED BY <1>2, <2>1, <2>2 DEF Word
<1>5. s.at \in 0 .. HeapWosize - 1
  <2>1. Tag_hd(hd) = Infix_tag
    BY DEF Infix
  <2>2. InHeap(Pointed.at - Wosize_hd(hd) - 1)
    BY <1>1, <2>1 DEF Sane
  <2> HIDE DEF hd, s
  <2>3. QED BY <1>2, <1>3, <1>4, <2>2 DEF InHeap
<1>6. mem \in Memories
  BY DEF TypeOK, VMTypeOK, Memories
<1>7. Field(mem, s, 0) \in Word
  <2>1. s.at + 0 = s.at
    BY <1>5, <1>3
  <2> HIDE DEF s
  <2>2. QED BY <1>5, <1>6, <2>1 DEF Field, Memories
<1>8. /\ Is_black_hd(Hd_val(mem, s)) => Shiftable(Field(mem, s, 0))
      /\ IF Is_black_hd(Hd_val(mem, s))
           THEN Store(Top.ptr, Plus(Field(mem, s, 0), Wosize_hd(hd)), mem, Goto("next"))
                /\ UNCHANGED <<heap_ptr, heap_end>>
           ELSE /\ frames' = Append([frames EXCEPT ![Depth].at = "return",
                                                   ![Depth].start = s,
                                                   ![Depth].ofs = Wosize_hd(hd)],
                                    Call(local_addr(Depth)))
                /\ UNCHANGED <<heap, regs>>
      /\ UNCHANGED <<pend, ctl, current_heap, heap_todo, root>>
  BY DEF Infix
<1>9. frames # << >> /\ Top.ptr \in Locations(Depth)
  BY <1>1, Active
<1> HIDE DEF hd, s
<1>10. WordsKept /\ FramesOK(frames') /\ frames' # << >> /\ UNCHANGED <<heap_ptr, heap_end>>
  <2>1. CASE Is_black_hd(Hd_val(mem, s))
    <3>1. Plus(Field(mem, s, 0), Wosize_hd(hd)) \in Word
      BY <1>3, <1>7, <1>8, <2>1, PlusType
    <3>2. FramesOK(Goto("next")) /\ Len(Goto("next")) = Depth
      BY <1>1, Active, GotoType
    <3>3. WordsKept /\ FramesOK(frames') /\ Len(frames') = Depth
      BY <1>6, <1>8, <1>9, <2>1, <3>1, <3>2, StoreType
    <3>4. QED BY <1>1, <1>8, <2>1, <3>3, Active
  <2>2. CASE ~ Is_black_hd(Hd_val(mem, s))
    <3>1. FramesOK(frames') /\ frames' # << >>
      BY <1>3, <1>4, <1>8, <1>9, <2>2, InnerCallType
    <3>2. WordsKept
      BY <1>1, <1>8, <2>2, Active, UnchangedWords DEF heap
    <3>3. QED BY <1>8, <2>2, <3>1, <3>2 DEF heap
  <2>3. QED BY <2>1, <2>2
<1>11. QED BY <1>1, <1>8, <1>10, Active, SteppedType DEF TypeOK

\* The return from that call keeps TypeOK.
LEMMA InfixReturnType == ASSUME TypeOK, InfixReturn PROVE TypeOK'
<1>1. ctl = "gc" /\ root > 0
  BY DEF InfixReturn
<1>2. CASE Wild
  BY <1>1, <1>2, WildType
<1>3. CASE ~ Wild
  <2>1. /\ Is_block_in_dynamic_heap(Top.start) /\ InHeap(Top.start.at)
        /\ Shiftable(Field(mem, Top.start, 0))
        /\ Store(Top.ptr, Plus(Field(mem, Top.start, 0), Top.ofs), mem, Goto("next"))
        /\ UNCHANGED <<heap_ptr, heap_end, pend, ctl, current_heap, heap_todo, root>>
    BY <1>3 DEF InfixReturn
  <2>2. Top.ofs \in Nat
    BY <1>1, Active DEF Activation
  <2>3. mem \in Memories
    BY DEF TypeOK, VMTypeOK, Memories
  <2>4. Field(mem, Top.start, 0) \in Word
    <3>1. Top.start.at \in 0 .. HeapWosize - 1 /\ Top.start.at + 0 = Top.start.at
      BY <2>1, HeapWosizeNat DEF InHeap
    <3>2. QED BY <2>3, <3>1 DEF Field, Memories
  <2>5. Plus(Field(mem, Top.start, 0), Top.ofs) \in Word
    BY <2>1, <2>2, <2>4, PlusType
  <2>6. FramesOK(Goto("next")) /\ Len(Goto("next")) = Depth
    BY <1>1, Active, GotoType
  <2>7. WordsKept /\ FramesOK(frames') /\ Len(frames') = Depth
    BY <1>1, <2>1, <2>3, <2>5, <2>6, Active, StoreType
  <2>8. frames' # << >>
    BY <1>1, <2>7, Active
  <2>9. QED BY <1>1, <2>1, <2>7, <2>8, Active, SteppedType DEF TypeOK
<1>4. QED BY <1>2, <1>3

\* A misread block is undefined behaviour.
LEMMA MisreadType == ASSUME TypeOK, Misread PROVE TypeOK'
  BY WildType DEF Misread, Examined, Examining

-----------------------------------------------------------------------------
(* `next:`.                                                                 *)

\* A step that only goes on to the word at a keeps TypeOK.
LEMMA OnlyScanType ==
  ASSUME TypeOK, AtNext, NEW a \in 0 .. HeapWosize - 1, NEW n \in Int, Scan(a, n),
         UNCHANGED <<heap, regs, pend, ctl, current_heap, root>>
  PROVE  TypeOK'
<1>1. ctl = "gc" /\ root > 0 /\ frames # << >>
  BY Active DEF AtNext
<1>2. WordsKept
  BY <1>1, Active, UnchangedWords DEF heap
<1>3. FramesOK(frames') /\ frames' # << >> /\ heap_todo' \in Int /\ heap_todo' >= -1
  BY <1>1, ScanType
<1>4. QED BY <1>1, <1>2, <1>3, Active, SteppedType DEF heap, TypeOK

\* The next field keeps TypeOK.
LEMMA NextFieldType == ASSUME TypeOK, NextField PROVE TypeOK'
<1>1. CASE Wild
  BY <1>1, WildType DEF NextField, AtNext
<1>2. CASE ~ Wild
  <2>1. Top.todo - 1 \in Int
    BY Active DEF NextField, AtNext, Activation
  <2>2. heap_todo + 1 \in 0 .. HeapWosize - 1
    BY <1>2 DEF NextField, InHeap
  <2>3. Scan(heap_todo + 1, Top.todo - 1) /\ AtNext
        /\ UNCHANGED <<heap, regs, pend, ctl, current_heap, root>>
    BY <1>2 DEF NextField
  <2>4. QED BY <2>1, <2>2, <2>3, OnlyScanType
<1>3. QED BY <1>1, <1>2

\* The header of the next block, entered or skipped, keeps TypeOK.
LEMMA OpenBlockType == ASSUME TypeOK, OpenBlock PROVE TypeOK'
<1> DEFINE hd == mem[heap_todo + 1]
<1>1. CASE Wild
  BY <1>1, WildType DEF OpenBlock, AtNext
<1>2. CASE ~ Wild
  <2>1. /\ IsHd(hd) /\ InHeap(heap_todo + 2) /\ AtNext
        /\ UNCHANGED <<heap, regs, pend, ctl, current_heap, root>>
        /\ IF Tag_hd(hd) >= No_scan_tag
             THEN heap_todo' = heap_todo + 1 + Wosize_hd(hd) /\ UNCHANGED frames
             ELSE Scan(heap_todo + 2, Wosize_hd(hd) - 1)
    BY <1>2 DEF OpenBlock
  <2>2. heap_todo \in Int /\ heap_todo >= -1 /\ HeapWosize \in Nat
    BY HeapWosizeNat DEF TypeOK
  <2>3. heap_todo + 1 \in 0 .. HeapWosize - 1 /\ heap_todo + 2 \in 0 .. HeapWosize - 1
    BY <2>1, <2>2 DEF InHeap
  <2>4. hd \in Word
    BY <2>3 DEF TypeOK, VMTypeOK
  <2>5. Wosize_hd(hd) \in Nat
    BY <2>1, <2>4, IdOfHeader DEF Wosize_hd
  <2> HIDE DEF hd
  <2>6. CASE Tag_hd(hd) >= No_scan_tag
    <3>1. ctl = "gc" /\ root > 0
      BY <2>1 DEF AtNext
    <3>2. WordsKept
      BY <2>1, <3>1, Active, UnchangedWords DEF heap
    <3>3. heap_todo' \in Int /\ heap_todo' >= -1 /\ UNCHANGED frames
      BY <2>1, <2>2, <2>5, <2>6
    <3>4. FramesOK(frames') /\ frames' # << >>
      <4>1. FramesOK(frames) /\ frames # << >> /\ frames' = frames
        BY <3>1, <3>3, Active
      <4>2. Len(stack') = Len(stack) /\ Len(globals') = Len(globals)
        BY <3>2 DEF WordsKept
      <4>3. QED BY <4>1, <4>2 DEF FramesOK
    <3>5. QED BY <2>1, <3>1, <3>2, <3>3, <3>4, Active, SteppedType DEF heap, TypeOK
  <2>7. CASE ~ (Tag_hd(hd) >= No_scan_tag)
    <3>1. Wosize_hd(hd) - 1 \in Int
      BY <2>5
    <3>2. QED BY <2>1, <2>3, <2>7, <3>1, OnlyScanType
  <2>8. QED BY <2>6, <2>7
<1>3. QED BY <1>1, <1>2

\* The end of a call of gc_one_val, inner or of gc(), keeps TypeOK.
LEMMA ReturnType == ASSUME TypeOK, Return PROVE TypeOK'
<1>1. ctl = "gc" /\ root > 0
  BY DEF Return, AtNext
<1>2. /\ UNCHANGED <<mem, heap_ptr, heap_end, regs, pend, current_heap>>
      /\ heap_todo \in Int /\ heap_todo >= -1 /\ frames \in Seq(Activation)
      /\ root \in 1 .. Len(Roots) /\ Len(Roots) \in Nat
  BY <1>1, Active, RootsLocations DEF Return, TypeOK
<1>3. WordsKept
  BY <1>1, <1>2, Active, UnchangedWords
<1>4. CASE Depth > 1
  <2>1. frames' = SubSeq(frames, 1, Depth - 1) /\ UNCHANGED <<root, ctl, heap_todo>>
    BY <1>4 DEF Return
  <2>2. Depth \in Nat /\ Len(frames) = Depth
    BY <1>2 DEF Depth
  <2>3. /\ frames' \in Seq(Activation) /\ Len(frames') = Depth - 1
        /\ \A d \in 1 .. Depth - 1 : frames'[d] = frames[d]
    BY <1>2, <1>4, <2>1, <2>2
  <2>4. FramesOK(frames') /\ frames' # << >>
    <3>1. \A d \in 1 .. Depth - 1 : frames'[d].ptr \in Locations(d)
      BY <2>2, <2>3 DEF TypeOK
    <3>2. frames' # << >>
      BY <1>4, <2>2, <2>3
    <3>3. QED BY <2>3, <3>1, <3>2 DEF FramesOK
  <2>5. /\ heap_ptr' \in Nat /\ heap_ptr <= heap_ptr' /\ heap_ptr' <= heap_end
        /\ UNCHANGED <<heap_end, pend, current_heap>>
    BY <1>1, <1>2, Active
  <2>6. /\ heap_todo' \in Int /\ heap_todo' >= -1
        /\ root' \in 1 .. Len(Roots) /\ root' # 0 /\ ctl' = "gc"
    BY <1>1, <1>2, <2>1
  <2>7. QED BY <1>3, <2>4, <2>5, <2>6, SteppedType
<1>5. CASE ~ (Depth > 1) /\ root < Len(Roots)
  <2>1. root' = root + 1 /\ frames' = <<Call(Roots[root + 1])>> /\ UNCHANGED <<ctl, heap_todo>>
    BY <1>5 DEF Return
  <2>2. root' \in 1 .. Len(Roots) /\ Roots[root + 1] \in Locations(1)
    BY <1>1, <1>2, <1>5, <2>1, Active, RootsLocations
  <2>3. FramesOK(frames') /\ frames' # << >>
    BY <1>1, <2>1, <2>2, Active, FirstCallType
  <2>4. QED BY <1>1, <1>2, <1>3, <2>1, <2>2, <2>3, Active, SteppedType DEF TypeOK
<1>6. CASE ~ (Depth > 1) /\ ~ (root < Len(Roots))
  <2>1. root' = 0 /\ frames' = << >> /\ ctl' = "done" /\ heap_todo' = 0
    BY <1>6 DEF Return
  <2>2. FramesOK(frames')
    BY <2>1 DEF FramesOK
  <2>3. QED BY <1>1, <1>2, <1>3, <2>1, <2>2, Active, SteppedType DEF TypeOK
<1>7. QED BY <1>4, <1>5, <1>6

-----------------------------------------------------------------------------
(* The specification.                                                       *)

\* The call of gc(): the halves swap, and the first root is treated.
LEMMA GcStartType == ASSUME TypeOK, GcStart PROVE TypeOK'
<1>1. /\ ctl = "gc" /\ current_heap' = (current_heap + 1) % 2
      /\ heap_end' = tab_heap_end(current_heap') /\ heap_ptr' = tab_heap_start(current_heap')
      /\ heap_todo' = heap_ptr' - 1 /\ root' = 1 /\ frames' = <<Call(Roots[1])>>
      /\ UNCHANGED <<mem, regs, pend, ctl>>
  BY DEF GcStart
<1>2. VMTypeOK /\ current_heap \in {0, 1}
  BY DEF TypeOK
<1>3. current_heap' \in {0, 1}
  BY <1>1, <1>2
<1>4. /\ tab_heap_start(current_heap)' = tab_heap_start(current_heap')
      /\ tab_heap_end(current_heap)' = tab_heap_end(current_heap')
  BY DEF tab_heap_start, tab_heap_end
<1>5. heap_ptr' \in Nat /\ heap_end' \in 0 .. HeapWosize /\ heap_ptr' <= heap_end'
  BY <1>1, <1>3, Halves, HeapWosizeNat
<1>6. UNCHANGED <<mem, acc, env, stack, globals, pend, ctl>>
  BY <1>1 DEF regs
<1>7. VMTypeOK'
  <2>1. PendOK'
    BY <1>2, <1>6 DEF VMTypeOK, PendOK, Readable, HeapWosize, StaticWosize
  <2>2. QED BY <1>2, <1>5, <1>6, <2>1 DEF VMTypeOK, HeapWosize, StaticWosize
<1>8. Roots' = Roots /\ \A d : Locations(d)' = Locations(d)
  BY <1>6, SameLocations
<1>9. 1 \in 1 .. Len(Roots) /\ Roots[1] \in Locations(1)
  BY <1>2, RootsLocations
<1>10. FramesOK(frames') /\ frames' # << >>
  BY <1>1, <1>2, <1>9, FirstCallType
<1>11. frames' \in Seq(Activation') /\ \A d \in 1 .. Depth' : frames'[d].ptr \in Locations(d)'
  BY <1>8, <1>10 DEF FramesOK, Depth, Activation
<1>12. heap_todo' \in Int /\ heap_todo' >= -1
  BY <1>1, <1>5
<1>13. heap_end' = tab_heap_end(current_heap)' /\ heap_ptr' >= tab_heap_start(current_heap)'
  BY <1>1, <1>4, <1>5
<1>14. root' \in 1 .. Len(Roots)' /\ root' # 0
  BY <1>1, <1>8, <1>9
<1>15. ctl' = "gc"
  BY <1>1, <1>6
<1>16. QED BY <1>3, <1>7, <1>10, <1>11, <1>12, <1>13, <1>14, <1>15 DEF TypeOK

\* Instructions keep TypeOK: they are not run inside gc(), and allocate only
\* from heap_ptr on.
LEMMA ProgramType == ASSUME TypeOK, Instruction, UNCHANGED gcvars PROVE TypeOK'
<1>1. /\ VMTypeOK' /\ heap_end' = heap_end /\ heap_ptr' >= heap_ptr
  BY InstructionType DEF TypeOK, HeapKept
<1>2. root = 0 /\ frames = << >>
  BY InstructionControl DEF TypeOK
<1>3. UNCHANGED <<current_heap, heap_todo, root, frames>>
  BY DEF gcvars
<1>4. /\ tab_heap_start(current_heap)' = tab_heap_start(current_heap)
      /\ tab_heap_end(current_heap)' = tab_heap_end(current_heap)
  BY <1>3 DEF tab_heap_start, tab_heap_end
<1>5. heap_ptr' >= tab_heap_start(current_heap)'
  <2>1. tab_heap_start(current_heap) \in Nat
    BY Halves DEF TypeOK
  <2>2. heap_ptr \in Nat /\ heap_ptr' \in Nat /\ heap_ptr >= tab_heap_start(current_heap)
    BY <1>1 DEF TypeOK, VMTypeOK
  <2>3. QED BY <1>1, <1>4, <2>1, <2>2
<1>6. frames' \in Seq(Activation') /\ \A d \in 1 .. Depth' : frames'[d].ptr \in Locations(d)'
  BY <1>2, <1>3 DEF Depth, Activation
<1>7. root' = 0 /\ frames' = << >>
  BY <1>2, <1>3
<1>8. QED BY <1>1, <1>3, <1>4, <1>5, <1>6, <1>7 DEF TypeOK

\* The machine at power-on: registers, an empty stack, and the static heap.
LEMMA InitType == Init => TypeOK
<1> SUFFICES ASSUME Init PROVE TypeOK
  OBVIOUS
<1>1. HeapWosize \in Nat /\ StaticWosize \in Nat
  BY HeapWosizeNat
<1>2. mem \in [0 .. HeapWosize - 1 -> Word]
  <2>1. Undef \in Word
    BY DEF Undef, Word
  <2>2. \A a \in 0 .. HeapWosize - 1 : a < StaticWosize => StaticHeap[a + 1] \in Word
    BY <1>1, WordsAssumption DEF StaticWosize
  <2>3. QED BY <2>1, <2>2 DEF Init
<1>3. /\ heap_ptr \in Nat /\ heap_end \in 0 .. HeapWosize /\ heap_ptr <= heap_end
  BY <1>1, Halves DEF Init
<1>4. acc \in Word /\ env \in Word /\ stack \in Seq(Word) /\ Len(stack) <= StackWosize
  BY SizesAssumption DEF Init, Val_unit, Val_int, Word
<1>5. globals \in Seq(Word) /\ Len(globals) = Len(InitialGlobals)
  BY WordsAssumption DEF Init
<1>6. PendOK
  BY DEF Init, PendOK, NoPend
<1>7. VMTypeOK
  BY <1>2, <1>3, <1>4, <1>5, <1>6 DEF Init, VMTypeOK, NoPend
<1>8. heap_ptr = tab_heap_start(current_heap) /\ heap_end = tab_heap_end(current_heap)
      /\ current_heap \in {0, 1} /\ heap_todo = 0 /\ root = 0 /\ frames = << >>
  BY DEF Init
<1>9. frames \in Seq(Activation) /\ \A d \in 1 .. Depth : frames[d].ptr \in Locations(d)
  BY <1>8 DEF Depth
<1>10. heap_ptr >= tab_heap_start(current_heap)
  BY <1>3, <1>8
<1>11. QED BY <1>7, <1>8, <1>9, <1>10 DEF TypeOK

\* Every step keeps TypeOK.
LEMMA NextType == ASSUME TypeOK, [Next]_vars PROVE TypeOK'
<1>1. CASE Instruction /\ UNCHANGED gcvars
  BY <1>1, ProgramType
<1>2. CASE Collect
  BY <1>2, GcStartType, SkipValueType, ForwardType, CopyType, InfixType, InfixReturnType,
     MisreadType, ReturnType, OpenBlockType, NextFieldType DEF Collect
<1>3. CASE UNCHANGED vars
  <2>1. UNCHANGED <<mem, heap_ptr, heap_end, acc, env, stack, globals, pend, ctl,
                    current_heap, heap_todo, root, frames>>
    BY <1>3 DEF vars, vmvars, gcvars
  <2>2. PendOK' /\ VMTypeOK'
    BY <2>1 DEF TypeOK, VMTypeOK, PendOK, Readable, HeapWosize, StaticWosize
  <2>3. Roots' = Roots /\ \A d : Locations(d)' = Locations(d)
    BY <2>1, SameLocations
  <2>4. frames' \in Seq(Activation') /\ \A d \in 1 .. Depth' : frames'[d].ptr \in Locations(d)'
    BY <2>1, <2>3 DEF TypeOK, Depth, Activation
  <2>5. /\ tab_heap_start(current_heap)' = tab_heap_start(current_heap)
        /\ tab_heap_end(current_heap)' = tab_heap_end(current_heap)
    BY <2>1 DEF tab_heap_start, tab_heap_end
  <2>6. QED BY <2>1, <2>2, <2>3, <2>4, <2>5 DEF TypeOK
<1>4. QED BY <1>1, <1>2, <1>3 DEF Next, GcStep

\* For every program, heap and stack, and as long as gc_one_val does not
\* misread memory (ctl # "wild"): the words of the machine stay words, the
\* stack and the blocks stay in their memories, the allocation pointer in the
\* half in use through instructions and collections alike, an instruction
\* finds its operands after gc(), and gc_one_val is only ever given the
\* address of a root, of a word of the heap or of the local `start` of an
\* activation that has not returned.
THEOREM TypeCorrect == Spec => []TypeOK
<1>1. Init => TypeOK
  BY InitType
<1>2. TypeOK /\ [Next]_vars => TypeOK'
  BY NextType
<1>3. QED BY <1>1, <1>2, PTL DEF Spec

-----------------------------------------------------------------------------
(* A collection under way.  O are the blocks of the half being emptied, with *)
(* their headers as they were in h; N those of the half in use, and src      *)
(* says where each word there has been copied from.                         *)

Old == (current_heap + 1) % 2
new_start  == tab_heap_start(current_heap)
old_start  == tab_heap_start(Old)
old_end  == tab_heap_end(Old)

\* The words that still have to be treated, and so refer to the half being emptied: as
\* addresses of the half in use and as indices in Roots.
Ahead      == {a \in Int : a > heap_todo \/ (Top.at = "start" /\ Top.ptr = a)}
RootsAhead == {i \in Int : i > root \/ (i = root /\ Top.at = "start" /\ Top.ptr = Roots[i])}

\* The blocks copied so far fill the half in use.
Covered(m, l, p, N) ==
  \A a \in l .. p - 1 : \E n \in N : a \in n .. n + Wosize_hd(m[n])

\* Different words are copied from different words, and blocks from blocks.
SourceOK(m, l, p, h, O, N, src) ==
  /\ \A a, b \in l .. p - 1 : src[a] = src[b] => a = b
  /\ \A n \in N : /\ src[n] \in O /\ m[n] = h[src[n]]
                  /\ \A i \in 0 .. Wosize_hd(h[src[n]]) : src[n + i] = src[n] + i

\* A block left behind has a black header and its new address; another one is
\* as it was.
OldOK(m, h, O, N, src) ==
  /\ \A n \in N : /\ m[src[n]] = Set_black_hd(h[src[n]])
                  /\ m[src[n] + 1] = Val_dynamic_block(n + 1)
  /\ \A o \in O : (\A n \in N : src[n] # o) =>
       /\ m[o] = h[o]
       /\ Tag_hd(h[o]) < No_scan_tag => \A i \in 1 .. Wosize_hd(h[o]) : FieldOK(m, o, i, O)

\* The fields of the copies: of the half in use, but for those ahead.
CopiesOK(m, O, N, A) ==
  \A n \in N : Tag_hd(m[n]) < No_scan_tag =>
    \A i \in 1 .. Wosize_hd(m[n]) : FieldOK(m, n, i, IF n + i \in A THEN O ELSE N)

CopyOK(m, l, p, s, e, h, O, N, src, A) ==
  /\ BlocksOK(h, s, e, O)
  /\ BlocksOK(m, l, p, N) /\ Covered(m, l, p, N)
  /\ SourceOK(m, l, p, h, O, N, src)
  /\ OldOK(m, h, O, N, src)
  /\ CopiesOK(m, O, N, A)

RootsOK(O, N, R) ==
  \A i \in 1 .. Len(Roots) : Value(At(Roots[i]), IF i \in R THEN O ELSE N)

StaticKept == \A a \in (0 .. StaticWosize - 1) \ ToSet(StaticFields) : mem[a] = StaticHeap[a + 1]

\* Where the scan is: at a field of a block, or before one.
InBlock(N) ==
  \E n \in N : /\ Tag_hd(mem[n]) < No_scan_tag
               /\ heap_todo \in n + 1 .. n + Wosize_hd(mem[n])
               /\ heap_todo + Top.todo = n + Wosize_hd(mem[n])
Between(N) == heap_todo + 1 \in N \cup {heap_ptr} /\ Top.todo = 0
ScanOK(N) ==
  /\ Depth = 1 /\ heap_todo < heap_ptr
  /\ \/ Top.at = "start" /\ Top.ptr = heap_todo /\ InBlock(N)
     \/ Top.at = "start" /\ Top.ptr = Roots[root] /\ heap_todo = heap_ptr - 1 /\ Top.todo = 0
     \/ Top.at = "next" /\ InBlock(N)
     \/ Top.at = "next" /\ Between(N)

Copying(h, O, N, src) ==
  /\ CopyOK(mem, new_start, heap_ptr, old_start, old_end, h, O, N, src, Ahead)
  /\ RootsOK(O, N, RootsAhead) /\ StaticKept /\ ScanOK(N)

HeapInv ==
  /\ ctl # "wild"
  /\ ctl \in {"run", "alloc", "done"} \/ (ctl = "gc" /\ root = 0) =>
       PendTidy /\ \E B : MachineOK(new_start, B)
  /\ ctl = "gc" /\ root > 0 => PendTidy /\ \E h, O, N, src : Copying(h, O, N, src)

-----------------------------------------------------------------------------
(* Addresses.                                                               *)

\* The two halves lie apart, after the static heap, and have one size.
LEMMA Geometry ==
  ASSUME TypeOK
  PROVE  /\ StaticWosize \in Nat /\ HeapWosize \in Nat /\ StaticWosize <= HeapWosize
         /\ new_start \in Nat /\ old_start \in Nat /\ old_end \in Nat /\ heap_ptr \in Nat /\ heap_end \in Nat
         /\ StaticWosize <= new_start /\ StaticWosize <= old_start /\ old_start <= old_end /\ old_end <= HeapWosize
         /\ new_start <= heap_ptr /\ heap_ptr <= heap_end /\ heap_end <= HeapWosize
         /\ heap_end - new_start = old_end - old_start /\ (heap_end <= old_start \/ old_end <= new_start)
<1>1. /\ current_heap \in {0, 1} /\ heap_end = tab_heap_end(current_heap)
      /\ heap_ptr >= new_start /\ heap_ptr \in Nat /\ heap_ptr <= heap_end /\ heap_end \in 0 .. HeapWosize
  BY DEF TypeOK, VMTypeOK, new_start
<1>2. StaticWosize \in Nat /\ HeapWosize \in Nat /\ DynamicWosize \in Nat
      /\ HeapWosize = StaticWosize + DynamicWosize
  BY HeapWosizeNat, SizesAssumption DEF HeapWosize
<1>3. HalfWosize \in Nat /\ 2 * HalfWosize = DynamicWosize
  BY <1>2, EvenHeap DEF HalfWosize
<1>4. CASE current_heap = 0
  <2>1. new_start = StaticWosize /\ heap_end = StaticWosize + HalfWosize
    BY <1>1, <1>2, <1>3, <1>4 DEF new_start, tab_heap_end, tab_heap_start
  <2>2. old_start = StaticWosize + HalfWosize /\ old_end = StaticWosize + HalfWosize + HalfWosize
    BY <1>2, <1>3, <1>4 DEF old_start, old_end, Old, tab_heap_end, tab_heap_start
  <2>. QED
    BY <1>1, <1>2, <1>3, <2>1, <2>2
<1>5. CASE current_heap = 1
  <2>1. new_start = StaticWosize + HalfWosize /\ heap_end = StaticWosize + HalfWosize + HalfWosize
    BY <1>1, <1>2, <1>3, <1>5 DEF new_start, tab_heap_end, tab_heap_start
  <2>2. old_start = StaticWosize /\ old_end = StaticWosize + HalfWosize
    BY <1>2, <1>3, <1>5 DEF old_start, old_end, Old, tab_heap_end, tab_heap_start
  <2>. QED
    BY <1>1, <1>2, <1>3, <2>1, <2>2
<1>. QED
  BY <1>1, <1>4, <1>5

\* Every variable and every field of a static block is a root, once.
LEMMA RootsOnce ==
  ASSUME VMTypeOK
  PROVE  /\ Roots \in Seq(Int) /\ ToSet(Roots) = RootSet /\ Distinct(Roots)
         /\ \A loc \in RootSet : loc \in Int /\ loc < StaticWosize
<1>. DEFINE s == [i \in 1 .. Len(stack) |-> stack_addr(Len(stack) + 1 - i)]
            g == [i \in 1 .. Len(globals) |-> global_addr(i)]
            r == <<acc_addr, env_addr>>
<1>1. /\ Len(stack) \in Nat /\ Len(globals) \in Nat /\ Len(stack) <= StackWosize /\ StackWosize \in Nat
      /\ StaticWosize \in Nat
  BY SizesAssumption, HeapWosizeNat DEF VMTypeOK
<1>2. \A i \in 1 .. Len(stack) : Len(stack) + 1 - i \in 1 .. Len(stack)
  BY <1>1
<1>3. /\ s \in [1 .. Len(stack) -> Int] /\ g \in [1 .. Len(globals) -> Int]
  BY <1>1, <1>2 DEF stack_addr, global_addr
<1>4. s \in Seq(Int) /\ Len(s) = Len(stack) /\ g \in Seq(Int) /\ Len(g) = Len(globals)
  <2>. HIDE DEF s, g
  <2>. QED
    BY <1>1, <1>3, FunctionSeq
<1>5. r \in Seq(Int) /\ Len(r) = 2 /\ r[1] = -1 /\ r[2] = -2
  BY DEF acc_addr, env_addr
<1>6. StaticFields \in Seq(Int) /\ Distinct(StaticFields) /\ ToSet(StaticFields) \subseteq 0 .. StaticWosize - 1
  <2>1. StaticFields \in Seq(0 + 1 .. StaticWosize - 1) /\ Distinct(StaticFields)
    BY StaticFacts DEF StaticPart
  <2>2. 0 + 1 .. StaticWosize - 1 \subseteq Int
    OBVIOUS
  <2>. QED
    BY <2>1, <2>2, WiderSequence, StaticAddresses
<1>7. \A i \in 1 .. Len(s) : s[i] = -2 - (Len(stack) + 1 - i)
  BY <1>1, <1>4 DEF stack_addr
<1>8. \A i \in 1 .. Len(g) : g[i] = -2 - StackWosize - i
  BY <1>1, <1>4 DEF global_addr
<1>9. ToSet(s) = {stack_addr(i) : i \in 1 .. Len(stack)}
  <2>1. ASSUME NEW x \in ToSet(s) PROVE x \in {stack_addr(i) : i \in 1 .. Len(stack)}
    BY <1>2, <2>1 DEF ToSet
  <2>2. ASSUME NEW i \in 1 .. Len(stack) PROVE stack_addr(i) \in ToSet(s)
    <3>1. Len(stack) + 1 - i \in 1 .. Len(stack) /\ Len(stack) + 1 - (Len(stack) + 1 - i) = i
      BY <1>1
    <3>. QED
      BY <3>1 DEF ToSet
  <2>. QED
    BY <2>1, <2>2
<1>10. ToSet(g) = {global_addr(i) : i \in 1 .. Len(globals)}
  BY DEF ToSet
<1>11. ToSet(r) = {acc_addr, env_addr}
  <2>1. DOMAIN r = {1, 2} /\ r[1] = acc_addr /\ r[2] = env_addr
    OBVIOUS
  <2>. HIDE DEF r
  <2>. QED
    BY <2>1 DEF ToSet
<1>. HIDE DEF s, g, r
<1>12. /\ s \o g \in Seq(Int) /\ ToSet(s \o g) = ToSet(s) \cup ToSet(g)
  BY <1>4, ConcatSeq, ConcatElements
<1>13. Distinct(s) /\ Distinct(g) /\ Distinct(r)
  <2>1. Distinct(s)
    BY <1>1, <1>4, <1>7 DEF Distinct
  <2>2. Distinct(g)
    BY <1>1, <1>4, <1>8 DEF Distinct
  <2>3. Distinct(r)
    BY <1>5 DEF Distinct
  <2>. QED
    BY <2>1, <2>2, <2>3
<1>14. Distinct(s \o g)
  <2>1. \A i \in 1 .. Len(s), j \in 1 .. Len(g) : s[i] # g[j]
    BY <1>1, <1>4, <1>7, <1>8
  <2>. QED
    BY <2>1, <1>4, <1>13, ConcatDistinct
<1>15. \A x \in ToSet(s \o g) : x \in Int /\ x < -2
  <2>1. \A x \in ToSet(s) : x \in Int /\ x < -2
    <3>1. \A x \in ToSet(s) : \E i \in 1 .. Len(s) : x = s[i]
      BY <1>4, SeqElements
    <3>. QED
      BY <3>1, <1>1, <1>4, <1>7
  <2>2. \A x \in ToSet(g) : x \in Int /\ x < -2
    <3>1. \A x \in ToSet(g) : \E i \in 1 .. Len(g) : x = g[i]
      BY <1>4, SeqElements
    <3>. QED
      BY <3>1, <1>1, <1>4, <1>8
  <2>. QED
    BY <1>12, <2>1, <2>2
<1>16. PICK t : t = s \o g
  OBVIOUS
<1>17. /\ t \in Seq(Int) /\ Distinct(t) /\ \A i \in 1 .. Len(t) : t[i] < -2 /\ t[i] \in Int
  <2>1. t \in Seq(Int) /\ Distinct(t)
    BY <1>12, <1>14, <1>16
  <2>2. \A i \in 1 .. Len(t) : t[i] \in ToSet(t)
    BY <2>1, SeqElements
  <2>. QED
    BY <2>1, <2>2, <1>15, <1>16
<1>18. \A j \in 1 .. Len(StaticFields) : StaticFields[j] \in 0 .. StaticWosize - 1
  BY <1>6, SeqElements
<1>19. /\ t \o StaticFields \in Seq(Int) /\ Distinct(t \o StaticFields)
       /\ ToSet(t \o StaticFields) = ToSet(t) \cup ToSet(StaticFields)
  <2>1. \A i \in 1 .. Len(t), j \in 1 .. Len(StaticFields) : t[i] # StaticFields[j]
    BY <1>1, <1>17, <1>18
  <2>. QED
    BY <2>1, <1>6, <1>17, ConcatSeq, ConcatDistinct, ConcatElements
<1>20. PICK u : u = t \o StaticFields
  OBVIOUS
<1>21. u \in Seq(Int) /\ Distinct(u) /\ ToSet(u) = ToSet(t) \cup ToSet(StaticFields)
  BY <1>19, <1>20
<1>22. /\ u \o r \in Seq(Int) /\ Distinct(u \o r) /\ ToSet(u \o r) = ToSet(u) \cup ToSet(r)
  <2>1. \A i \in 1 .. Len(u) : u[i] \in Int /\ u[i] # -1 /\ u[i] # -2
    <3>1. \A i \in 1 .. Len(u) : u[i] \in ToSet(u)
      BY <1>21, SeqElements
    <3>2. \A x \in ToSet(u) : x \in Int /\ x # -1 /\ x # -2
      BY <1>1, <1>6, <1>15, <1>16, <1>21
    <3>. QED
      BY <3>1, <3>2
  <2>2. \A i \in 1 .. Len(u), j \in 1 .. Len(r) : u[i] # r[j]
    BY <1>5, <2>1
  <2>3. Distinct(u \o r)
    BY <2>2, <1>5, <1>13, <1>21, ConcatDistinct
  <2>4. u \o r \in Seq(Int)
    BY <1>5, <1>21, ConcatSeq
  <2>5. ToSet(u \o r) = ToSet(u) \cup ToSet(r)
    BY <1>5, <1>21, ConcatElements
  <2>. QED
    BY <2>3, <2>4, <2>5
<1>23. Roots = u \o r
  BY <1>16, <1>20 DEF Roots, s, g, r
<1>24. ToSet(Roots) = RootSet
  BY <1>9, <1>10, <1>11, <1>12, <1>16, <1>21, <1>22, <1>23 DEF RootSet
<1>25. \A loc \in RootSet : loc \in Int /\ loc < StaticWosize
  <2>1. \A x \in ToSet(s \o g) : x < StaticWosize
    BY <1>1, <1>15
  <2>2. \A x \in ToSet(StaticFields) : x \in Int /\ x < StaticWosize
    BY <1>1, <1>6
  <2>3. acc_addr < StaticWosize /\ env_addr < StaticWosize /\ acc_addr \in Int /\ env_addr \in Int
    BY <1>1 DEF acc_addr, env_addr
  <2>. QED
    BY <2>1, <2>2, <2>3, <1>9, <1>10, <1>12, <1>15 DEF RootSet
<1>. QED
  BY <1>22, <1>23, <1>24, <1>25

\* A word of the heap or a root is not a local of gc_one_val.
LEMMA LoadAt ==
  ASSUME VMTypeOK, NEW loc, loc \in RootSet \/ loc \in 0 .. HeapWosize - 1
  PROVE  /\ loc \in Int /\ ~ (loc < local_addr(0)) /\ Load(loc) = At(loc)
         /\ loc >= 0 => At(loc) = mem[loc]
<1>1. /\ Len(stack) \in Nat /\ Len(globals) \in Nat /\ Len(stack) <= StackWosize /\ StackWosize \in Nat
  BY SizesAssumption DEF VMTypeOK
<1>2. loc \in Int
  BY RootsOnce
<1>3. local_addr(0) = -2 - StackWosize - Len(globals)
  BY <1>1 DEF local_addr, global_addr
<1>4. loc >= 0 \/ loc = -1 \/ loc = -2 \/ (\E i \in 1 .. Len(stack) : loc = -2 - i)
        \/ (\E i \in 1 .. Len(globals) : loc = -2 - StackWosize - i)
  <2>1. ToSet(StaticFields) \subseteq Nat
    BY StaticAddresses, HeapWosizeNat
  <2>. QED
    BY <2>1 DEF RootSet, acc_addr, env_addr, stack_addr, global_addr
<1>5. ~ (loc < local_addr(0))
  BY <1>1, <1>2, <1>3, <1>4
<1>6. Load(loc) = At(loc)
  BY <1>5 DEF Load
<1>. QED
  BY <1>2, <1>5, <1>6 DEF At

-----------------------------------------------------------------------------
(* The two halves.                                                          *)

\* Words copied from different words of an interval are no more than it has.
LEMMA CopyFits ==
  ASSUME NEW l \in Int, NEW p \in Int, l <= p, NEW s \in Int, NEW e \in Int, s <= e,
         NEW src, \A a \in l .. p - 1 : src[a] \in s .. e - 1,
         \A a, b \in l .. p - 1 : src[a] = src[b] => a = b
  PROVE  p - l <= e - s
<1>. DEFINE S == l .. p - 1
            T == s .. e - 1
            f == [a \in S |-> src[a]]
<1>1. f \in [S -> T]
  OBVIOUS
<1>2. IsFiniteSet(S) /\ IsFiniteSet(T)
  <2>1. p - 1 \in Int /\ e - 1 \in Int
    OBVIOUS
  <2>. QED
    BY <2>1, FS_Interval
<1>3. Cardinality(S) = p - l /\ Cardinality(T) = e - s
  <2>1. p - 1 \in Int /\ e - 1 \in Int
    OBVIOUS
  <2>2. Cardinality(S) = (IF l > p - 1 THEN 0 ELSE (p - 1) - l + 1)
    BY <2>1, FS_Interval
  <2>3. Cardinality(T) = (IF s > e - 1 THEN 0 ELSE (e - 1) - s + 1)
    BY <2>1, FS_Interval
  <2>. QED
    BY <2>2, <2>3
<1>4. ASSUME NEW a \in S, NEW b \in S, f[a] = f[b] PROVE a = b
  BY <1>4
<1>. HIDE DEF S, T, f
<1>5. ~ (Cardinality(T) < Cardinality(S))
  <2>1. SUFFICES ASSUME Cardinality(T) < Cardinality(S) PROVE FALSE
    OBVIOUS
  <2>2. \E a, b \in S : a # b /\ f[a] = f[b]
    BY <2>1, <1>1, <1>2, FS_PigeonHole
  <2>. QED
    BY <2>2, <1>4
<1>. QED
  BY <1>3, <1>5

\* After a copied block comes another or the end.
LEMMA NextBlock ==
  ASSUME NEW l \in Int, NEW p \in Int, NEW m, NEW N, BlocksOK(m, l, p, N), Covered(m, l, p, N),
         NEW n \in N
  PROVE  n + Wosize_hd(m[n]) + 1 \in N \cup {p}
<1>1. \A b \in N : /\ b \in l .. p - 1 /\ Wosize_hd(m[b]) \in Nat /\ b + Wosize_hd(m[b]) < p
                   /\ \A c \in N : c <= b \/ c > b + Wosize_hd(m[b])
  BY HeaderParts DEF BlocksOK
<1>2. PICK size \in Nat : size = Wosize_hd(m[n])
  BY <1>1
<1>3. SUFFICES ASSUME n + size + 1 # p PROVE n + size + 1 \in N
  BY <1>2
<1>4. n + size + 1 \in l .. p - 1
  BY <1>1, <1>2, <1>3
<1>5. PICK c \in N : n + size + 1 \in c .. c + Wosize_hd(m[c])
  BY <1>4 DEF Covered
<1>6. n \in Int /\ c \in Int /\ Wosize_hd(m[c]) \in Nat
  BY <1>1
<1>7. c <= n \/ c > n + size
  BY <1>1, <1>2
<1>8. n <= c \/ n > c + Wosize_hd(m[c])
  BY <1>1
<1>9. c = n + size + 1
  BY <1>2, <1>5, <1>6, <1>7, <1>8
<1>. QED
  BY <1>9

\* The first block is at the start of the half.
LEMMA FirstBlock ==
  ASSUME NEW l \in Int, NEW p \in Int, l <= p, NEW m, NEW N, BlocksOK(m, l, p, N), Covered(m, l, p, N)
  PROVE  l \in N \cup {p}
<1>1. SUFFICES ASSUME l # p PROVE l \in N
  OBVIOUS
<1>2. PICK c \in N : l \in c .. c + Wosize_hd(m[c])
  BY <1>1 DEF Covered
<1>3. c \in l .. p - 1
  BY DEF BlocksOK
<1>4. c = l
  BY <1>2, <1>3
<1>. QED
  BY <1>4

\* Every copied word comes from a word of a block left behind.
LEMMA SourceRange ==
  ASSUME NEW l \in Int, NEW p \in Int, NEW s \in Int, NEW e \in Int,
         NEW m, NEW h, NEW O, NEW N, NEW src, BlocksOK(h, s, e, O), BlocksOK(m, l, p, N),
         Covered(m, l, p, N), SourceOK(m, l, p, h, O, N, src), NEW a \in l .. p - 1
  PROVE  /\ src[a] \in s .. e - 1
         /\ \E n \in N : src[a] \in src[n] .. src[n] + Wosize_hd(h[src[n]])
<1>1. PICK n \in N : a \in n .. n + Wosize_hd(m[n])
  BY DEF Covered
<1>2. /\ src[n] \in O /\ m[n] = h[src[n]]
      /\ \A i \in 0 .. Wosize_hd(h[src[n]]) : src[n + i] = src[n] + i
  BY DEF SourceOK
<1>3. src[n] \in s .. e - 1 /\ Wosize_hd(h[src[n]]) \in Nat /\ src[n] + Wosize_hd(h[src[n]]) < e
  BY <1>2, HeaderParts DEF BlocksOK
<1>4. n \in Int
  BY DEF BlocksOK
<1>5. PICK size \in Nat : size = Wosize_hd(h[src[n]])
  BY <1>3
<1>6. a - n \in 0 .. size /\ n + (a - n) = a
  BY <1>1, <1>2, <1>4, <1>5
<1>7. src[a] = src[n] + (a - n)
  BY <1>2, <1>5, <1>6
<1>8. src[n] \in Int
  BY <1>3
<1>9. src[a] \in src[n] .. src[n] + size
  BY <1>6, <1>7, <1>8
<1>. QED
  BY <1>3, <1>5, <1>9

\* Where words come from once the block at o has been copied too.
Grown(src, l, p, o, size) == [a \in l .. p + size |-> IF a < p THEN src[a] ELSE o + (a - p)]

\* They still come from different words of the half being emptied ...
LEMMA SourceGrows ==
  ASSUME NEW l \in Int, NEW p \in Int, l <= p, NEW s \in Int, NEW e \in Int,
         NEW m, NEW h, NEW O, NEW N, NEW src, BlocksOK(h, s, e, O), BlocksOK(m, l, p, N),
         Covered(m, l, p, N), SourceOK(m, l, p, h, O, N, src),
         NEW o \in O, \A n \in N : src[n] # o, NEW size, size = Wosize_hd(h[o]), NEW g, g = Grown(src, l, p, o, size)
  PROVE  /\ \A a \in l .. p + size : g[a] \in s .. e - 1
         /\ \A a, b \in l .. p + size : g[a] = g[b] => a = b
<1>1. \A b \in O : /\ b \in s .. e - 1 /\ Wosize_hd(h[b]) \in Nat /\ b + Wosize_hd(h[b]) < e
                   /\ \A c \in O : c <= b \/ c > b + Wosize_hd(h[b])
  BY HeaderParts DEF BlocksOK
<1>2. size \in Nat /\ o \in s .. e - 1 /\ o + size < e
  BY <1>1
<1>3. \A a \in l .. p + size : g[a] = IF a < p THEN src[a] ELSE o + (a - p)
  BY DEF Grown
<1>4. ASSUME NEW a \in l .. p - 1 PROVE src[a] \in s .. e - 1 /\ src[a] \notin o .. o + size
  <2>1. PICK n \in N : src[a] \in src[n] .. src[n] + Wosize_hd(h[src[n]])
    BY SourceRange
  <2>2. src[a] \in s .. e - 1
    BY SourceRange
  <2>3. src[n] \in O /\ src[n] # o
    BY DEF SourceOK
  <2>4. PICK c \in O : c = src[n]
    BY <2>3
  <2>5. PICK k \in Nat : k = Wosize_hd(h[c])
    BY <1>1
  <2>6. (c <= o \/ c > o + size) /\ (o <= c \/ o > c + k) /\ c \in Int /\ c # o
    BY <1>1, <2>3, <2>4, <2>5
  <2>7. src[a] \in c .. c + k
    BY <2>1, <2>4, <2>5
  <2>. QED
    BY <2>2, <2>6, <2>7, <1>2
<1>5. ASSUME NEW a \in l .. p + size PROVE g[a] \in s .. e - 1
  <2>1. CASE a < p
    <3>1. a \in l .. p - 1
      BY <2>1
    <3>. QED
      BY <2>1, <3>1, <1>3, <1>4
  <2>2. CASE ~ (a < p)
    BY <2>2, <1>2, <1>3
  <2>. QED
    BY <2>1, <2>2
<1>6. ASSUME NEW a \in l .. p + size, NEW b \in l .. p + size, g[a] = g[b] PROVE a = b
  <2>1. CASE a < p /\ b < p
    <3>1. a \in l .. p - 1 /\ b \in l .. p - 1 /\ src[a] = src[b]
      BY <2>1, <1>3, <1>6
    <3>. QED
      BY <3>1 DEF SourceOK
  <2>2. CASE a < p /\ ~ (b < p)
    <3>1. a \in l .. p - 1 /\ src[a] = o + (b - p)
      BY <2>2, <1>3, <1>6
    <3>2. o + (b - p) \in o .. o + size
      BY <2>2, <1>2
    <3>. QED
      BY <3>1, <3>2, <1>4
  <2>3. CASE ~ (a < p) /\ b < p
    <3>1. b \in l .. p - 1 /\ src[b] = o + (a - p)
      BY <2>3, <1>3, <1>6
    <3>2. o + (a - p) \in o .. o + size
      BY <2>3, <1>2
    <3>. QED
      BY <3>1, <3>2, <1>4
  <2>4. CASE ~ (a < p) /\ ~ (b < p)
    <3>1. o + (a - p) = o + (b - p)
      BY <2>4, <1>3, <1>6
    <3>. QED
      BY <3>1, <1>2
  <2>. QED
    BY <2>1, <2>2, <2>3, <2>4
<1>. QED
  BY <1>5, <1>6

\* ... so that there is room for it.
LEMMA BlockFits ==
  ASSUME NEW l \in Int, NEW p \in Int, l <= p, NEW s \in Int, NEW e \in Int, s <= e,
         NEW m, NEW h, NEW O, NEW N, NEW src, BlocksOK(h, s, e, O), BlocksOK(m, l, p, N),
         Covered(m, l, p, N), SourceOK(m, l, p, h, O, N, src),
         NEW o \in O, \A n \in N : src[n] # o
  PROVE  p + Wosize_hd(h[o]) < l + (e - s)
<1>1. Wosize_hd(h[o]) \in Nat
  BY HeaderParts DEF BlocksOK
<1>2. PICK size \in Nat : size = Wosize_hd(h[o])
  BY <1>1
<1>3. PICK g : g = Grown(src, l, p, o, size)
  OBVIOUS
<1>4. /\ \A a \in l .. p + size : g[a] \in s .. e - 1
      /\ \A a, b \in l .. p + size : g[a] = g[b] => a = b
  BY <1>2, <1>3, SourceGrows
<1>5. PICK r \in Int : r = p + size + 1 /\ r - 1 = p + size /\ l <= r
  BY <1>2
<1>6. r - l <= e - s
  <2>1. /\ \A a \in l .. r - 1 : g[a] \in s .. e - 1
        /\ \A a, b \in l .. r - 1 : g[a] = g[b] => a = b
    BY <1>4, <1>5
  <2>. QED
    BY <2>1, <1>5, CopyFits
<1>. QED
  BY <1>2, <1>5, <1>6

\* What copying the block of `size` fields at o to p writes in a memory of H words.
CopyWrites(m, m2, p, o, size, hd, H) ==
  /\ m2[p] = hd /\ m2[o] = Set_black_hd(hd) /\ m2[o + 1] = Val_dynamic_block(p + 1)
  /\ \A i \in 1 .. size : m2[p + i] = m[o + i]
  /\ \A a \in 0 .. H - 1 : a \notin p .. p + size /\ a # o /\ a # o + 1 => m2[a] = m[a]

\* The half in use, up to p of q, and the half being emptied, from s to e.
Halved(l, p, q, s, e, H) ==
  /\ l \in Nat /\ p \in Nat /\ q \in Nat /\ s \in Nat /\ e \in Nat /\ H \in Nat
  /\ l <= p /\ p <= q /\ q <= H /\ s <= e /\ e <= H /\ q - l = e - s
  /\ q <= s \/ e <= l

\* Copying a block not copied yet, whose new fields are ahead of the collector.
LEMMA CopyBlock ==
  ASSUME NEW l, NEW p, NEW q, NEW s, NEW e, NEW H, Halved(l, p, q, s, e, H),
         NEW m, NEW h, NEW O, NEW N, NEW src, NEW A, CopyOK(m, l, p, s, e, h, O, N, src, A),
         NEW o \in O, \A n \in N : src[n] # o, NEW size, size = Wosize_hd(h[o]),
         \A i \in 1 .. size : p + i \in A,
         NEW m2, CopyWrites(m, m2, p, o, size, h[o], H)
  PROVE  /\ p + size < q
         /\ CopyOK(m2, l, p + 1 + size, s, e, h, O, N \cup {p}, Grown(src, l, p, o, size), A)
<1>1. /\ l \in Nat /\ p \in Nat /\ q \in Nat /\ s \in Nat /\ e \in Nat /\ H \in Nat
      /\ l <= p /\ p <= q /\ q <= H /\ s <= e /\ e <= H /\ q - l = e - s
      /\ q <= s \/ e <= l
  BY DEF Halved
<1>2. /\ BlocksOK(h, s, e, O) /\ BlocksOK(m, l, p, N) /\ Covered(m, l, p, N)
      /\ SourceOK(m, l, p, h, O, N, src) /\ OldOK(m, h, O, N, src) /\ CopiesOK(m, O, N, A)
  BY DEF CopyOK
<1>3. /\ l \in Int /\ p \in Int /\ q \in Int /\ s \in Int /\ e \in Int
  BY <1>1
<1>4. p + size < q
  <2>1. l \in Int /\ p \in Int /\ l <= p /\ q \in Int /\ s \in Int /\ e \in Int /\ s <= e /\ q - l = e - s
    BY <1>1
  <2>2. /\ BlocksOK(h, s, e, O) /\ BlocksOK(m, l, p, N) /\ Covered(m, l, p, N)
        /\ SourceOK(m, l, p, h, O, N, src)
    BY <1>2
  <2>3. p + Wosize_hd(h[o]) < l + (e - s)
    BY <2>1, <2>2, BlockFits
  <2>. QED
    BY <2>1, <2>3
<1>5. PICK g : g = Grown(src, l, p, o, size)
  OBVIOUS
<1>6. \A b \in O : /\ b \in s .. e - 1 /\ Wosize_hd(h[b]) \in Nat /\ b + Wosize_hd(h[b]) < e
                   /\ Wosize_hd(h[b]) > 0 /\ BlockHeader(h[b])
                   /\ \A c \in O : c <= b \/ c > b + Wosize_hd(h[b])
  BY <1>2, HeaderParts DEF BlocksOK
<1>7. \A b \in N : /\ b \in l .. p - 1 /\ Wosize_hd(m[b]) \in Nat /\ b + Wosize_hd(m[b]) < p
                   /\ BlockHeader(m[b])
                   /\ \A c \in N : c <= b \/ c > b + Wosize_hd(m[b])
  BY <1>2, HeaderParts DEF BlocksOK
<1>8. size \in Nat /\ size > 0 /\ o \in s .. e - 1 /\ o + size < e
  BY <1>6
<1>9. /\ m2[p] = h[o] /\ m2[o] = Set_black_hd(h[o]) /\ m2[o + 1] = Val_dynamic_block(p + 1)
      /\ \A i \in 1 .. size : m2[p + i] = m[o + i]
      /\ \A a \in 0 .. H - 1 : a \notin p .. p + size /\ a # o /\ a # o + 1 => m2[a] = m[a]
  BY DEF CopyWrites
<1>10. \A a \in l .. p - 1 : m2[a] = m[a]
  <2>1. ASSUME NEW a \in l .. p - 1 PROVE a \in 0 .. H - 1 /\ a \notin p .. p + size /\ a # o /\ a # o + 1
    <3>1. a \in Int /\ l <= a /\ a < p /\ o \in Int /\ s <= o /\ o + 1 < e
      BY <1>1, <1>8
    <3>. QED
      BY <3>1, <1>1, <1>8
  <2>. QED
    BY <2>1, <1>9
<1>11. \A a \in s .. e - 1 : a # o /\ a # o + 1 => m2[a] = m[a]
  <2>1. ASSUME NEW a \in s .. e - 1 PROVE a \in 0 .. H - 1 /\ a \notin p .. p + size
    <3>1. a \in Int /\ s <= a /\ a < e
      BY <1>1
    <3>. QED
      BY <3>1, <1>1, <1>4, <1>8
  <2>. QED
    BY <2>1, <1>9
<1>12. \A b \in N : m2[b] = m[b]
  BY <1>7, <1>10
<1>13. PICK M : M = N \cup {p}
  OBVIOUS
<1>14. PICK r : r = p + 1 + size
  OBVIOUS
<1>15. BlocksOK(m2, l, r, M)
  <2>1. SUFFICES ASSUME NEW b \in M
                 PROVE  /\ b \in l .. r - 1 /\ BlockHeader(m2[b]) /\ b + Wosize_hd(m2[b]) < r
                        /\ \A c \in M : c <= b \/ c > b + Wosize_hd(m2[b])
    BY DEF BlocksOK
  <2>2. CASE b = p
    <3>1. \A c \in M : c <= b
      <4>1. \A c \in N : c <= p
        BY <1>1, <1>7
      <4>2. p <= p
        BY <1>1
      <4>. QED
        BY <4>1, <4>2, <2>2, <1>13
    <3>2. BlockHeader(m2[b]) /\ Wosize_hd(m2[b]) = size
      BY <2>2, <1>6, <1>9
    <3>. QED
      BY <2>2, <3>1, <3>2, <1>1, <1>8, <1>14
  <2>3. CASE b \in N
    <3>1. /\ b \in l .. p - 1 /\ Wosize_hd(m[b]) \in Nat /\ b + Wosize_hd(m[b]) < p
          /\ BlockHeader(m[b]) /\ \A c \in N : c <= b \/ c > b + Wosize_hd(m[b])
      BY <2>3, <1>7
    <3>2. m2[b] = m[b]
      BY <2>3, <1>12
    <3>. QED
      BY <3>1, <3>2, <1>1, <1>8, <1>13, <1>14
  <2>. QED
    BY <2>1, <2>2, <2>3, <1>13
<1>16. Covered(m2, l, r, M)
  <2>1. SUFFICES ASSUME NEW a \in l .. r - 1 PROVE \E n \in M : a \in n .. n + Wosize_hd(m2[n])
    BY DEF Covered
  <2>2. CASE a < p
    <3>1. PICK n \in N : a \in n .. n + Wosize_hd(m[n])
      <4>1. a \in l .. p - 1
        BY <2>2, <1>1
      <4>. QED
        BY <4>1, <1>2 DEF Covered
    <3>. QED
      BY <3>1, <1>12, <1>13
  <2>3. CASE ~ (a < p)
    <3>1. a \in p .. p + size
      BY <2>3, <1>1, <1>8, <1>14
    <3>. QED
      BY <3>1, <1>9, <1>13
  <2>. QED
    BY <2>2, <2>3
<1>17. SourceOK(m2, l, r, h, O, M, g)
  <2>1. \A a, b \in l .. r - 1 : g[a] = g[b] => a = b
    <3>1. \A a, b \in l .. p + size : g[a] = g[b] => a = b
      <4>1. /\ l <= p /\ BlocksOK(h, s, e, O) /\ BlocksOK(m, l, p, N) /\ Covered(m, l, p, N)
            /\ SourceOK(m, l, p, h, O, N, src)
        BY <1>1, <1>2
      <4>. QED
        BY <1>3, <1>5, <4>1, SourceGrows
    <3>2. l .. r - 1 = l .. p + size
      BY <1>1, <1>8, <1>14
    <3>. QED
      BY <3>1, <3>2
  <2>2. \A a \in l .. p + size : g[a] = IF a < p THEN src[a] ELSE o + (a - p)
    BY <1>5 DEF Grown
  <2>3. ASSUME NEW n \in M
        PROVE  /\ g[n] \in O /\ m2[n] = h[g[n]]
               /\ \A i \in 0 .. Wosize_hd(h[g[n]]) : g[n + i] = g[n] + i
    <3>1. CASE n = p
      <4>1. g[p] = o
        BY <2>2, <1>1, <1>8
      <4>2. \A i \in 0 .. size : g[p + i] = o + i
        <5>1. \A i \in 0 .. size : p + i \in l .. p + size /\ ~ (p + i < p) /\ (p + i) - p = i
          BY <1>1, <1>8
        <5>. QED
          BY <5>1, <2>2
      <4>. QED
        BY <3>1, <4>1, <4>2, <1>9
    <3>2. CASE n \in N
      <4>1. /\ src[n] \in O /\ m[n] = h[src[n]]
            /\ \A i \in 0 .. Wosize_hd(h[src[n]]) : src[n + i] = src[n] + i
        BY <3>2, <1>2 DEF SourceOK
      <4>2. n \in l .. p - 1 /\ Wosize_hd(m[n]) \in Nat /\ n + Wosize_hd(m[n]) < p
        BY <3>2, <1>7
      <4>3. \A i \in 0 .. Wosize_hd(m[n]) : n + i \in l .. p + size /\ n + i < p
        BY <4>2, <1>1, <1>8
      <4>4. \A i \in 0 .. Wosize_hd(m[n]) : g[n + i] = src[n + i]
        BY <4>3, <2>2
      <4>5. g[n] = src[n]
        <5>1. n \in l .. p + size /\ n < p
          BY <4>2, <1>1, <1>8
        <5>. QED
          BY <5>1, <2>2
      <4>. QED
        BY <4>1, <4>4, <4>5, <3>2, <1>12
    <3>. QED
      BY <3>1, <3>2, <1>13
  <2>. QED
    BY <2>1, <2>3 DEF SourceOK
<1>18. \A n \in N : g[n] = src[n]
  <2>1. \A n \in N : n \in l .. p + size /\ n < p
    BY <1>1, <1>7, <1>8
  <2>. QED
    BY <2>1, <1>5 DEF Grown
<1>19. g[p] = o
  <2>1. p \in l .. p + size /\ ~ (p < p) /\ o + (p - p) = o
    BY <1>1, <1>8
  <2>. QED
    BY <2>1, <1>5 DEF Grown
<1>20. \A w : Value(w, N) => Value(w, M)
  BY <1>13, ValueWider
<1>21. BlocksOK(h, s, e, O)
  BY <1>2
<1>22. OldOK(m2, h, O, M, g)
  <2>1. ASSUME NEW n \in M
        PROVE  m2[g[n]] = Set_black_hd(h[g[n]]) /\ m2[g[n] + 1] = Val_dynamic_block(n + 1)
    <3>1. CASE n = p
      BY <3>1, <1>9, <1>19
    <3>2. CASE n \in N
      <4>1. /\ m[src[n]] = Set_black_hd(h[src[n]]) /\ m[src[n] + 1] = Val_dynamic_block(n + 1)
            /\ src[n] \in O /\ src[n] # o
        BY <3>2, <1>2 DEF OldOK, SourceOK
      <4>2. PICK c \in O : c = src[n] /\ c # o
        BY <4>1
      <4>3. PICK k \in Nat : k = Wosize_hd(h[c]) /\ k > 0
        BY <1>6
      <4>4. /\ c \in s .. e - 1 /\ c + k < e /\ (c <= o \/ c > o + size) /\ (o <= c \/ o > c + k)
        BY <4>3, <1>6, <1>8
      <4>5. /\ c \in s .. e - 1 /\ c # o /\ c # o + 1 /\ c + 1 \in s .. e - 1 /\ c + 1 # o /\ c + 1 # o + 1
        BY <4>2, <4>3, <4>4, <1>1, <1>8
      <4>6. m2[c] = m[c] /\ m2[c + 1] = m[c + 1]
        BY <4>5, <1>11
      <4>. QED
        BY <4>1, <4>2, <4>6, <3>2, <1>18
    <3>. QED
      BY <3>1, <3>2, <1>13
  <2>2. ASSUME NEW c \in O, \A n \in M : g[n] # c
        PROVE  /\ m2[c] = h[c]
               /\ Tag_hd(h[c]) < No_scan_tag => \A i \in 1 .. Wosize_hd(h[c]) : FieldOK(m2, c, i, O)
    <3>1. c # o /\ \A n \in N : src[n] # c
      BY <2>2, <1>13, <1>18, <1>19
    <3>2. /\ m[c] = h[c]
          /\ Tag_hd(h[c]) < No_scan_tag => \A i \in 1 .. Wosize_hd(h[c]) : FieldOK(m, c, i, O)
      BY <3>1, <1>2 DEF OldOK
    <3>3. PICK k \in Nat : k = Wosize_hd(h[c]) /\ k > 0
      BY <1>6
    <3>4. c \in s .. e - 1 /\ c + k < e /\ (c <= o \/ c > o + size) /\ (o <= c \/ o > c + k)
      BY <3>3, <1>6, <1>8
    <3>5. \A i \in 0 .. k : c + i \in s .. e - 1 /\ c + i # o /\ c + i # o + 1
      BY <3>1, <3>4, <1>1, <1>8
    <3>6. \A i \in 0 .. k : m2[c + i] = m[c + i]
      BY <3>5, <1>11
    <3>7. m2[c] = m[c]
      <4>1. 0 \in 0 .. k /\ c + 0 = c
        BY <3>4, <1>1
      <4>. QED
        BY <4>1, <3>6
    <3>8. \A i \in 1 .. k : m2[c + i] = m[c + i]
      BY <3>6
    <3>9. \A i \in 1 .. k : FieldOK(m, c, i, O) => FieldOK(m2, c, i, O)
      BY <3>7, <3>8 DEF FieldOK
    <3>. QED
      BY <3>2, <3>3, <3>7, <3>9
  <2>. QED
    BY <2>1, <2>2 DEF OldOK
<1>23. CopiesOK(m2, O, M, A)
  <2>1. ASSUME NEW n \in M, Tag_hd(m2[n]) < No_scan_tag, NEW i \in 1 .. Wosize_hd(m2[n])
        PROVE  FieldOK(m2, n, i, IF n + i \in A THEN O ELSE M)
    <3>1. CASE n = p
      <4>1. m2[p] = h[o] /\ i \in 1 .. size /\ m2[p + i] = m[o + i] /\ p + i \in A
        BY <2>1, <3>1, <1>9
      <4>2. m[o] = h[o] /\ FieldOK(m, o, i, O)
        BY <2>1, <3>1, <4>1, <1>2 DEF OldOK
      <4>. QED
        BY <3>1, <4>1, <4>2 DEF FieldOK
    <3>2. CASE n \in N
      <4>1. m2[n] = m[n]
        BY <3>2, <1>12
      <4>2. FieldOK(m, n, i, IF n + i \in A THEN O ELSE N)
        BY <2>1, <3>2, <4>1, <1>2 DEF CopiesOK
      <4>3. PICK k \in Nat : k = Wosize_hd(m[n])
        BY <3>2, <1>7
      <4>4. n \in l .. p - 1 /\ n + k < p
        BY <3>2, <4>3, <1>7
      <4>5. n + i \in l .. p - 1
        BY <2>1, <4>1, <4>3, <4>4, <1>1
      <4>6. m2[n + i] = m[n + i]
        BY <4>5, <1>10
      <4>. QED
        BY <4>1, <4>2, <4>6, <1>20 DEF FieldOK
    <3>. QED
      BY <2>1, <3>1, <3>2, <1>13
  <2>. QED
    BY <2>1 DEF CopiesOK
<1>24. CopyOK(m2, l, r, s, e, h, O, M, g, A)
  BY <1>15, <1>16, <1>17, <1>21, <1>22, <1>23 DEF CopyOK
<1>. QED
  BY <1>4, <1>5, <1>13, <1>14, <1>24

\* The two sets hold the same fields of copied blocks, but for the word at loc.
SameAhead(m, N, A, A2, loc) ==
  \A n \in N : Tag_hd(m[n]) < No_scan_tag =>
    \A i \in 1 .. Wosize_hd(m[n]) : n + i = loc \/ (n + i \in A2 <=> n + i \in A)

\* The word at loc is of neither half, or the field of a copied block that is as it
\* should be behind the collector.
SettledAt(m, m2, l, p, s, e, N, A2, loc) ==
  \/ loc \notin l .. p - 1 /\ loc \notin s .. e - 1
  \/ \E n \in N : \E i \in 1 .. Wosize_hd(m[n]) :
        loc = n + i /\ loc \notin A2 /\ FieldOK(m2, n, i, N) /\ Tag_hd(m[n]) < No_scan_tag

\* Settling a word of a copied block, or one of neither half.
LEMMA SettleWord ==
  ASSUME NEW l, NEW p, NEW q, NEW s, NEW e, NEW H, Halved(l, p, q, s, e, H),
         NEW m, NEW h, NEW O, NEW N, NEW src, NEW A, CopyOK(m, l, p, s, e, h, O, N, src, A),
         NEW m2, NEW loc, \A a \in (l .. p - 1) \cup (s .. e - 1) : a # loc => m2[a] = m[a],
         NEW A2, SameAhead(m, N, A, A2, loc), SettledAt(m, m2, l, p, s, e, N, A2, loc)
  PROVE  /\ CopyOK(m2, l, p, s, e, h, O, N, src, A2)
         /\ \A n \in N : m2[n] = m[n]
<1>1. /\ l \in Nat /\ p \in Nat /\ q \in Nat /\ s \in Nat /\ e \in Nat /\ H \in Nat
      /\ l <= p /\ p <= q /\ q <= H /\ s <= e /\ e <= H
      /\ q <= s \/ e <= l
  BY DEF Halved
<1>2. /\ BlocksOK(h, s, e, O) /\ BlocksOK(m, l, p, N) /\ Covered(m, l, p, N)
      /\ SourceOK(m, l, p, h, O, N, src) /\ OldOK(m, h, O, N, src) /\ CopiesOK(m, O, N, A)
  BY DEF CopyOK
<1>3. \A b \in O : /\ b \in s .. e - 1 /\ Wosize_hd(h[b]) \in Nat /\ b + Wosize_hd(h[b]) < e
                   /\ Wosize_hd(h[b]) > 0
  BY <1>2, HeaderParts DEF BlocksOK
<1>4. \A b \in N : /\ b \in l .. p - 1 /\ Wosize_hd(m[b]) \in Nat /\ b + Wosize_hd(m[b]) < p
                   /\ \A c \in N : c <= b \/ c > b + Wosize_hd(m[b])
  BY <1>2, HeaderParts DEF BlocksOK
<1>5. \A n, c \in N : \A i \in 1 .. Wosize_hd(m[n]) : \A j \in 0 .. Wosize_hd(m[c]) :
        n + i = c + j => n = c /\ i = j
  <2>1. SUFFICES ASSUME NEW n \in N, NEW c \in N, NEW i \in 1 .. Wosize_hd(m[n]),
                        NEW j \in 0 .. Wosize_hd(m[c]), n + i = c + j
                 PROVE  n = c /\ i = j
    OBVIOUS
  <2>2. PICK k \in Nat : k = Wosize_hd(m[n])
    BY <1>4
  <2>3. PICK k2 \in Nat : k2 = Wosize_hd(m[c])
    BY <1>4
  <2>4. n \in Int /\ c \in Int /\ i \in 1 .. k /\ j \in 0 .. k2
    BY <1>4, <2>2, <2>3
  <2>5. (c <= n \/ c > n + k) /\ (n <= c \/ n > c + k2)
    BY <1>4, <2>2, <2>3
  <2>. QED
    BY <2>1, <2>4, <2>5
<1>6. \A n \in N : n # loc
  <2>1. SUFFICES ASSUME NEW n \in N, n = loc PROVE FALSE
    OBVIOUS
  <2>2. n \in l .. p - 1
    BY <1>4
  <2>3. PICK c \in N : \E i \in 1 .. Wosize_hd(m[c]) : n = c + i
    BY <2>1, <2>2 DEF SettledAt
  <2>4. PICK i \in 1 .. Wosize_hd(m[c]) : n = c + i
    BY <2>3
  <2>5. c + i = n + 0 /\ 0 \in 0 .. Wosize_hd(m[n])
    BY <2>2, <2>4, <1>4
  <2>. QED
    BY <2>5, <1>5
<1>7. \A n \in N : m2[n] = m[n]
  BY <1>4, <1>6
<1>8. loc \notin s .. e - 1
  <2>1. SUFFICES ASSUME NEW n \in N, NEW i \in 1 .. Wosize_hd(m[n]), loc = n + i
                 PROVE  loc \notin s .. e - 1
    BY DEF SettledAt
  <2>2. PICK k \in Nat : k = Wosize_hd(m[n]) /\ n \in l .. p - 1 /\ n + k < p
    BY <1>4
  <2>3. n \in Int /\ l <= n /\ i \in 1 .. k
    BY <2>2, <1>1
  <2>. QED
    BY <2>1, <2>2, <2>3, <1>1
<1>9. \A a \in s .. e - 1 : m2[a] = m[a]
  BY <1>8
<1>10. BlocksOK(m2, l, p, N) /\ Covered(m2, l, p, N) /\ SourceOK(m2, l, p, h, O, N, src)
  <2>1. BlocksOK(m2, l, p, N)
    BY <1>2, <1>7 DEF BlocksOK
  <2>2. Covered(m2, l, p, N)
    BY <1>2, <1>7 DEF Covered
  <2>3. SourceOK(m2, l, p, h, O, N, src)
    BY <1>2, <1>7 DEF SourceOK
  <2>. QED
    BY <2>1, <2>2, <2>3
<1>11. OldOK(m2, h, O, N, src)
  <2>1. \A c \in O : \A i \in 0 .. Wosize_hd(h[c]) : m2[c + i] = m[c + i]
    <3>1. SUFFICES ASSUME NEW c \in O, NEW i \in 0 .. Wosize_hd(h[c]) PROVE c + i \in s .. e - 1
      BY <1>9
    <3>2. PICK k \in Nat : k = Wosize_hd(h[c]) /\ c \in s .. e - 1 /\ c + k < e
      BY <1>3
    <3>. QED
      BY <3>1, <3>2, <1>1
  <2>2. \A c \in O : m2[c] = m[c] /\ m2[c + 1] = m[c + 1]
    <3>1. SUFFICES ASSUME NEW c \in O PROVE m2[c] = m[c] /\ m2[c + 1] = m[c + 1]
      OBVIOUS
    <3>2. 0 \in 0 .. Wosize_hd(h[c]) /\ 1 \in 0 .. Wosize_hd(h[c]) /\ c + 0 = c
      BY <1>3
    <3>. QED
      BY <2>1, <3>2
  <2>3. ASSUME NEW c \in O, NEW i \in 1 .. Wosize_hd(h[c]), FieldOK(m, c, i, O)
        PROVE  FieldOK(m2, c, i, O)
    <3>1. i \in 0 .. Wosize_hd(h[c])
      BY <1>3
    <3>. QED
      BY <2>1, <2>2, <2>3, <3>1 DEF FieldOK
  <2>4. ASSUME NEW n \in N
        PROVE  m2[src[n]] = Set_black_hd(h[src[n]]) /\ m2[src[n] + 1] = Val_dynamic_block(n + 1)
    BY <1>2, <2>2 DEF OldOK, SourceOK
  <2>5. ASSUME NEW c \in O, \A n \in N : src[n] # c
        PROVE  /\ m2[c] = h[c]
               /\ Tag_hd(h[c]) < No_scan_tag => \A i \in 1 .. Wosize_hd(h[c]) : FieldOK(m2, c, i, O)
    <3>1. /\ m[c] = h[c]
          /\ Tag_hd(h[c]) < No_scan_tag => \A i \in 1 .. Wosize_hd(h[c]) : FieldOK(m, c, i, O)
      BY <1>2, <2>5 DEF OldOK
    <3>. QED
      BY <3>1, <2>2, <2>3
  <2>. QED
    BY <2>4, <2>5 DEF OldOK
<1>12. CopiesOK(m2, O, N, A2)
  <2>1. ASSUME NEW n \in N, Tag_hd(m2[n]) < No_scan_tag, NEW i \in 1 .. Wosize_hd(m2[n])
        PROVE  FieldOK(m2, n, i, IF n + i \in A2 THEN O ELSE N)
    <3>1. m2[n] = m[n] /\ Tag_hd(m[n]) < No_scan_tag /\ i \in 1 .. Wosize_hd(m[n])
      BY <2>1, <1>7
    <3>2. PICK k \in Nat : k = Wosize_hd(m[n]) /\ n \in l .. p - 1 /\ n + k < p
      BY <1>4
    <3>3. n + i \in l .. p - 1
      BY <3>1, <3>2, <1>1
    <3>4. CASE n + i = loc
      <4>1. PICK c \in N : \E j \in 1 .. Wosize_hd(m[c]) :
                             loc = c + j /\ loc \notin A2 /\ FieldOK(m2, c, j, N)
        BY <3>3, <3>4 DEF SettledAt
      <4>2. PICK j \in 1 .. Wosize_hd(m[c]) : loc = c + j /\ loc \notin A2 /\ FieldOK(m2, c, j, N)
        BY <4>1
      <4>3. j \in 0 .. Wosize_hd(m[c])
        BY <1>4
      <4>4. n = c /\ i = j
        BY <3>1, <3>4, <4>2, <4>3, <1>5
      <4>. QED
        BY <3>4, <4>2, <4>4
    <3>5. CASE n + i # loc
      <4>1. FieldOK(m, n, i, IF n + i \in A THEN O ELSE N)
        BY <3>1, <1>2 DEF CopiesOK
      <4>2. n + i \in A2 <=> n + i \in A
        BY <3>1, <3>5 DEF SameAhead
      <4>3. m2[n + i] = m[n + i]
        BY <3>3, <3>5
      <4>. QED
        BY <3>1, <4>1, <4>2, <4>3 DEF FieldOK
    <3>. QED
      BY <3>4, <3>5
  <2>. QED
    BY <2>1 DEF CopiesOK
<1>. QED
  BY <1>2, <1>7, <1>10, <1>11, <1>12 DEF CopyOK

-----------------------------------------------------------------------------
(* The steps of gc_one_val.                                                 *)

\* What is in hand: a root, or the field of a copied block.
AtRoot ==
  Top.ptr = Roots[root] /\ Top.ptr \in RootSet /\ heap_todo = heap_ptr - 1 /\ Top.todo = 0
AtField(N) == Top.ptr = heap_todo /\ InBlock(N)

\* The active activation, when it is the only one, goes to a label.
LEMMA OnlyTop ==
  ASSUME frames \in Seq(Activation), Depth = 1, NEW l, frames' = Goto(l)
  PROVE  Depth' = 1 /\ Top'.at = l /\ Top'.ptr = Top.ptr /\ Top'.todo = Top.todo
<1>1. frames \in [1 .. 1 -> Activation] /\ Len(frames) = 1
  BY DEF Depth
<1>2. frames' = [frames EXCEPT ![1].at = l]
  BY DEF Goto
<1>3. Len(frames') = 1 /\ frames'[1] = [frames[1] EXCEPT !.at = l]
  BY <1>1, <1>2
<1>4. frames[1] \in Activation
  BY <1>1
<1>. QED
  BY <1>1, <1>3, <1>4 DEF Depth, Top, Activation

\* The word in hand refers to the half being emptied, unless it is a code pointer.
LEMMA WordInHand ==
  ASSUME TypeOK, Examining, NEW h, NEW O, NEW N, NEW src, Copying(h, O, N, src)
  PROVE  /\ AtRoot \/ AtField(N)
         /\ Top.ptr \in RootSet \/ Top.ptr \in 0 .. HeapWosize - 1
         /\ Top.ptr \in Int /\ Load(Top.ptr) = At(Top.ptr) /\ (Top.ptr >= 0 => At(Top.ptr) = mem[Top.ptr])
         /\ At(Top.ptr).kind # "code" => Value(At(Top.ptr), O)
<1>1. /\ VMTypeOK /\ root \in 1 .. Len(Roots) /\ ctl = "gc" /\ root > 0 /\ Top.at = "start"
      /\ CopyOK(mem, new_start, heap_ptr, old_start, old_end, h, O, N, src, Ahead)
      /\ RootsOK(O, N, RootsAhead) /\ ScanOK(N)
  BY Active DEF Copying, Examining
<1>2. Roots[root] \in RootSet
  BY <1>1, RootsOnce, SeqElements
<1>3. AtRoot \/ AtField(N)
  BY <1>1, <1>2 DEF ScanOK, AtRoot, AtField
<1>4. CASE AtRoot
  <2>1. Top.ptr \in RootSet /\ Top.ptr = Roots[root]
    BY <1>4 DEF AtRoot
  <2>2. root \in RootsAhead
    BY <1>1, <2>1 DEF RootsAhead
  <2>3. Value(At(Top.ptr), O)
    BY <1>1, <2>1, <2>2 DEF RootsOK
  <2>4. /\ Top.ptr \in Int /\ Load(Top.ptr) = At(Top.ptr) /\ (Top.ptr >= 0 => At(Top.ptr) = mem[Top.ptr])
    BY <1>1, <2>1, LoadAt
  <2>. QED
    BY <1>3, <2>1, <2>3, <2>4
<1>5. CASE AtField(N)
  <2>1. PICK n \in N : /\ Tag_hd(mem[n]) < No_scan_tag
                       /\ heap_todo \in n + 1 .. n + Wosize_hd(mem[n])
    BY <1>5 DEF AtField, InBlock
  <2>2. n \in new_start .. heap_ptr - 1 /\ Wosize_hd(mem[n]) \in Nat /\ n + Wosize_hd(mem[n]) < heap_ptr
    BY <1>1, HeaderParts DEF CopyOK, BlocksOK
  <2>3. new_start \in Nat /\ heap_ptr \in Nat /\ heap_ptr <= HeapWosize /\ HeapWosize \in Nat
    BY Geometry
  <2>4. PICK k \in Nat : k = Wosize_hd(mem[n])
    BY <2>2
  <2>5. PICK i : i = heap_todo - n
    OBVIOUS
  <2>6. i \in 1 .. k /\ n + i = heap_todo /\ heap_todo \in 0 .. HeapWosize - 1 /\ heap_todo \in Int
    BY <2>1, <2>2, <2>3, <2>4, <2>5
  <2>7. Top.ptr = heap_todo
    BY <1>5 DEF AtField
  <2>8. heap_todo \in Ahead
    BY <1>1, <2>6, <2>7 DEF Ahead
  <2>9. FieldOK(mem, n, i, O)
    <3>1. FieldOK(mem, n, i, IF n + i \in Ahead THEN O ELSE N)
      BY <1>1, <2>1, <2>4, <2>6 DEF CopyOK, CopiesOK
    <3>. QED
      BY <3>1, <2>6, <2>8
  <2>10. Top.ptr \in 0 .. HeapWosize - 1 /\ Top.ptr >= 0
    BY <2>6, <2>7
  <2>11. Top.ptr \in Int /\ Load(Top.ptr) = At(Top.ptr) /\ At(Top.ptr) = mem[Top.ptr]
    BY <1>1, <2>10, LoadAt
  <2>. QED
    BY <1>3, <2>6, <2>7, <2>9, <2>10, <2>11 DEF FieldOK, IsCode
<1>. QED
  BY <1>3, <1>4, <1>5

\* What a store leaves, m being what the rest of the step makes of memory.
Written(a, w, m) ==
  /\ \A b \in RootSet : At(b)' = IF b = a THEN w ELSE IF b >= 0 THEN m[b] ELSE At(b)
  /\ \A c \in 0 .. HeapWosize - 1 : mem'[c] = IF c = a THEN w ELSE m[c]
  /\ Len(stack') = Len(stack) /\ Len(globals') = Len(globals)

\* Settling the word in hand, with what else the step copied.
LEMMA Settle ==
  ASSUME TypeOK, Examining, NEW h, NEW O, NEW N, NEW src, Copying(h, O, N, src),
         NEW N2, N \subseteq N2, NEW src2, NEW m, NEW p, NEW w,
         heap_ptr' = p, p \in Nat, heap_ptr <= p, p <= heap_end, heap_ptr \in N2 \cup {p},
         CopyOK(m, new_start, p, old_start, old_end, h, O, N2, src2, Ahead),
         \A a \in 0 .. HeapWosize - 1 : a < StaticWosize \/ a \in new_start .. heap_ptr - 1 => m[a] = mem[a],
         Written(Top.ptr, w, m),
         IF At(Top.ptr).kind = "code" THEN w = At(Top.ptr) ELSE Value(w, N2),
         frames' = Goto("next"), UNCHANGED <<current_heap, heap_todo, root>>
  PROVE  Copying(h, O, N2, src2)'
<1>1. /\ VMTypeOK /\ root \in 1 .. Len(Roots) /\ ctl = "gc" /\ root > 0 /\ Top.at = "start"
      /\ CopyOK(mem, new_start, heap_ptr, old_start, old_end, h, O, N, src, Ahead)
      /\ RootsOK(O, N, RootsAhead) /\ ScanOK(N) /\ StaticKept /\ frames \in Seq(Activation)
      /\ Depth = 1 /\ heap_todo < heap_ptr /\ heap_todo \in Int
  BY Active DEF Copying, Examining, ScanOK, TypeOK
<1>2. /\ AtRoot \/ AtField(N)
      /\ Top.ptr \in RootSet \/ Top.ptr \in 0 .. HeapWosize - 1
      /\ Top.ptr \in Int /\ (Top.ptr >= 0 => At(Top.ptr) = mem[Top.ptr])
      /\ At(Top.ptr).kind # "code" => Value(At(Top.ptr), O)
  BY WordInHand
<1>3. PICK loc : loc = Top.ptr
  OBVIOUS
<1>4. loc \in Int /\ (loc >= 0 => At(loc) = mem[loc])
  BY <1>2, <1>3
<1>5. /\ Depth' = 1 /\ Top'.at = "next" /\ Top'.ptr = loc /\ Top'.todo = Top.todo
  BY <1>1, <1>3, OnlyTop
<1>6. /\ StaticWosize \in Nat /\ HeapWosize \in Nat /\ StaticWosize <= HeapWosize
      /\ new_start \in Nat /\ old_start \in Nat /\ old_end \in Nat /\ heap_ptr \in Nat /\ heap_end \in Nat
      /\ StaticWosize <= new_start /\ StaticWosize <= old_start /\ old_start <= old_end /\ old_end <= HeapWosize
      /\ new_start <= heap_ptr /\ heap_ptr <= heap_end /\ heap_end <= HeapWosize
      /\ heap_end - new_start = old_end - old_start /\ (heap_end <= old_start \/ old_end <= new_start)
  BY Geometry
<1>7. new_start' = new_start /\ old_start' = old_start /\ old_end' = old_end
  BY DEF new_start, old_start, old_end, Old, tab_heap_start, tab_heap_end
<1>8. Roots' = Roots
  BY SameLocations DEF Written
<1>9. /\ \A b \in RootSet : At(b)' = IF b = loc THEN w ELSE IF b >= 0 THEN m[b] ELSE At(b)
      /\ \A c \in 0 .. HeapWosize - 1 : mem'[c] = IF c = loc THEN w ELSE m[c]
  BY <1>3 DEF Written
<1>10. Ahead' = {a \in Int : a > heap_todo}
  BY <1>5 DEF Ahead
<1>11. \A n \in N : /\ n \in new_start .. heap_ptr - 1 /\ Wosize_hd(mem[n]) \in Nat
                    /\ n + Wosize_hd(mem[n]) < heap_ptr /\ m[n] = mem[n] /\ n \in N2
  <2>1. \A n \in N : /\ n \in new_start .. heap_ptr - 1 /\ Wosize_hd(mem[n]) \in Nat
                     /\ n + Wosize_hd(mem[n]) < heap_ptr
    BY <1>1, HeaderParts DEF CopyOK, BlocksOK
  <2>2. \A n \in new_start .. heap_ptr - 1 : n \in 0 .. HeapWosize - 1
    BY <1>6
  <2>. QED
    BY <2>1, <2>2
<1>12. SettledAt(m, mem', new_start, p, old_start, old_end, N2, Ahead', loc)
  <2>1. CASE AtRoot
    <3>1. loc < StaticWosize
      BY <2>1, <1>1, <1>3, RootsOnce DEF AtRoot
    <3>2. loc \notin new_start .. p - 1 /\ loc \notin old_start .. old_end - 1
      BY <3>1, <1>4, <1>6
    <3>. QED
      BY <3>2 DEF SettledAt
  <2>2. CASE AtField(N)
    <3>1. PICK n \in N : /\ Tag_hd(mem[n]) < No_scan_tag
                         /\ heap_todo \in n + 1 .. n + Wosize_hd(mem[n])
      BY <2>2 DEF AtField, InBlock
    <3>2. loc = heap_todo
      BY <2>2, <1>3 DEF AtField
    <3>3. PICK k \in Nat : k = Wosize_hd(mem[n]) /\ n \in new_start .. heap_ptr - 1 /\ n + k < heap_ptr
      BY <1>11
    <3>4. PICK i : i = loc - n
      OBVIOUS
    <3>5. n \in Int /\ i \in 1 .. k /\ loc = n + i /\ loc \in 0 .. HeapWosize - 1 /\ loc # n /\ n \in 0 .. HeapWosize - 1
      BY <3>1, <3>2, <3>3, <3>4, <1>4, <1>6
    <3>6. loc \notin Ahead'
      BY <3>2, <1>1, <1>10
    <3>7. m[n] = mem[n] /\ mem'[n] = m[n] /\ mem'[n + i] = w /\ At(loc) = mem[n + i] /\ n \in N2
      BY <3>5, <1>4, <1>9, <1>11
    <3>8. FieldOK(mem, n, i, IF n + i \in Ahead THEN O ELSE N)
      BY <1>1, <3>1, <3>3, <3>5 DEF CopyOK, CopiesOK
    <3>9. IF mem[n + i].kind = "code" THEN w = mem[n + i] ELSE Value(w, N2)
      BY <3>7, <1>3
    <3>10. FieldOK(mem', n, i, N2)
      <4>1. CASE Tag_hd(mem[n]) = Closure_tag /\ i = 1
        BY <4>1, <3>7, <3>8, <3>9 DEF FieldOK, IsCode
      <4>2. CASE ~ (Tag_hd(mem[n]) = Closure_tag /\ i = 1)
        <5>1. mem[n + i].kind # "code"
          BY <4>2, <3>8 DEF FieldOK, Value
        <5>. QED
          BY <5>1, <4>2, <3>7, <3>9 DEF FieldOK
      <4>. QED
        BY <4>1, <4>2
    <3>. QED
      BY <3>1, <3>3, <3>5, <3>6, <3>7, <3>10 DEF SettledAt
  <2>. QED
    BY <2>1, <2>2, <1>2
<1>13. CopyOK(mem', new_start, p, old_start, old_end, h, O, N2, src2, Ahead')
       /\ \A n \in N2 : mem'[n] = m[n]
  <2>1. Halved(new_start, p, heap_end, old_start, old_end, HeapWosize)
    BY <1>6 DEF Halved
  <2>2. \A a \in (new_start .. p - 1) \cup (old_start .. old_end - 1) : a # loc => mem'[a] = m[a]
    <3>1. \A a \in (new_start .. p - 1) \cup (old_start .. old_end - 1) : a \in 0 .. HeapWosize - 1
      BY <1>6
    <3>. QED
      BY <3>1, <1>9
  <2>3. SameAhead(m, N2, Ahead, Ahead', loc)
    <3>1. \A a \in Int : a = loc \/ (a \in Ahead' <=> a \in Ahead)
      BY <1>3, <1>10 DEF Ahead
    <3>2. \A n \in N2 : n \in Int
      BY DEF CopyOK, BlocksOK
    <3>3. \A n \in N2 : \A i \in 1 .. Wosize_hd(m[n]) : n + i \in Int
      BY <3>2
    <3>. QED
      BY <3>1, <3>3 DEF SameAhead
  <2>4. PICK A, A2, m2 : A = Ahead /\ A2 = Ahead' /\ m2 = mem'
    OBVIOUS
  <2>5. /\ CopyOK(m, new_start, p, old_start, old_end, h, O, N2, src2, A)
        /\ SameAhead(m, N2, A, A2, loc) /\ SettledAt(m, m2, new_start, p, old_start, old_end, N2, A2, loc)
        /\ \A a \in (new_start .. p - 1) \cup (old_start .. old_end - 1) : a # loc => m2[a] = m[a]
    BY <2>2, <2>3, <2>4, <1>12
  <2>6. CopyOK(m2, new_start, p, old_start, old_end, h, O, N2, src2, A2) /\ \A n \in N2 : m2[n] = m[n]
    BY <2>1, <2>5, SettleWord
  <2>. QED
    BY <2>4, <2>6
<1>14. RootsOK(O, N2, RootsAhead)'
  <2>1. \A i \in 1 .. Len(Roots) : Value(At(Roots[i])', IF i \in RootsAhead' THEN O ELSE N2)
    <3>1. SUFFICES ASSUME NEW i \in 1 .. Len(Roots)
                   PROVE  Value(At(Roots[i])', IF i \in RootsAhead' THEN O ELSE N2)
      OBVIOUS
    <3>2. Len(Roots) \in Nat /\ i \in Int /\ Roots \in Seq(Int) /\ Distinct(Roots)
      BY <1>1, RootsOnce
    <3>3. PICK b : b = Roots[i]
      OBVIOUS
    <3>4. b \in RootSet
      BY <3>2, <3>3, <1>1, RootsOnce, SeqElements
    <3>5. At(Roots[i])' = At(b)'
      BY <3>3, <1>8 DEF At
    <3>6. i \in RootsAhead' <=> i > root
      BY <3>2, <1>5 DEF RootsAhead
    <3>7. CASE b = loc
      <4>1. AtRoot
        <5>1. ~ AtField(N)
          <6>1. SUFFICES ASSUME AtField(N) PROVE FALSE
            OBVIOUS
          <6>2. PICK n \in N : heap_todo \in n + 1 .. n + Wosize_hd(mem[n])
            BY <6>1 DEF AtField, InBlock
          <6>3. loc = heap_todo /\ heap_todo > n /\ n >= new_start /\ n \in Int
            BY <6>1, <6>2, <1>3, <1>6, <1>11 DEF AtField
          <6>4. loc < StaticWosize
            BY <3>4, <3>7, <1>1, RootsOnce
          <6>. QED
            BY <6>3, <6>4, <1>1, <1>4, <1>6
        <5>. QED
          BY <5>1, <1>2
      <4>2. Roots[i] = Roots[root]
        BY <4>1, <3>3, <3>7, <1>3 DEF AtRoot
      <4>3. i = root
        BY <4>2, <3>2, <1>1 DEF Distinct
      <4>4. At(loc).kind # "code"
        <5>1. root \in RootsAhead
          BY <4>1, <1>1 DEF RootsAhead, AtRoot
        <5>2. Value(At(Roots[root]), O)
          BY <5>1, <1>1 DEF RootsOK
        <5>. QED
          BY <5>2, <4>1, <1>3 DEF AtRoot, Value
      <4>5. Value(w, N2) /\ At(b)' = w
        BY <4>4, <3>4, <3>7, <1>3, <1>9
      <4>6. i \notin RootsAhead'
        BY <4>3, <3>6, <1>1
      <4>. QED
        BY <4>5, <4>6, <3>5
    <3>8. CASE b # loc
      <4>1. At(b)' = At(b)
        <5>1. CASE b >= 0
          <6>1. At(b) = mem[b] /\ b \in Int /\ b < StaticWosize
            BY <3>4, <5>1, <1>1, LoadAt, RootsOnce
          <6>2. b \in 0 .. HeapWosize - 1
            BY <6>1, <5>1, <1>6
          <6>3. m[b] = mem[b]
            BY <6>1, <6>2
          <6>. QED
            BY <6>1, <6>3, <5>1, <3>4, <3>8, <1>9
        <5>2. CASE ~ (b >= 0)
          BY <5>2, <3>4, <3>8, <1>9
        <5>. QED
          BY <5>1, <5>2
      <4>2. i \in RootsAhead' <=> i \in RootsAhead
        <5>1. ~ (i = root /\ Top.ptr = Roots[i])
          BY <3>3, <3>8, <1>3
        <5>. QED
          BY <5>1, <3>2, <3>6 DEF RootsAhead
      <4>3. Value(At(b), IF i \in RootsAhead THEN O ELSE N)
        BY <3>3, <1>1 DEF RootsOK
      <4>4. Value(At(b), IF i \in RootsAhead THEN O ELSE N2)
        BY <4>3, ValueWider
      <4>. QED
        BY <4>1, <4>2, <4>4, <3>5
    <3>. QED
      BY <3>7, <3>8
  <2>. QED
    BY <2>1, <1>8 DEF RootsOK
<1>15. StaticKept'
  <2>1. SUFFICES ASSUME NEW a \in (0 .. StaticWosize - 1) \ ToSet(StaticFields)
                 PROVE  mem'[a] = StaticHeap[a + 1]
    BY DEF StaticKept
  <2>2. mem[a] = StaticHeap[a + 1]
    BY <1>1 DEF StaticKept
  <2>3. a \in 0 .. HeapWosize - 1 /\ a < StaticWosize /\ a >= 0
    BY <1>6
  <2>4. a # loc
    <3>1. CASE AtRoot
      <4>1. loc \in RootSet
        BY <3>1, <1>3 DEF AtRoot
      <4>2. loc < 0 \/ loc \in ToSet(StaticFields)
        <5>1. StackWosize \in Nat
          BY SizesAssumption
        <5>2. \A i \in 1 .. Len(stack) : stack_addr(i) < 0
          BY DEF stack_addr
        <5>3. \A i \in 1 .. Len(globals) : global_addr(i) < 0
          BY <5>1 DEF global_addr
        <5>. QED
          BY <4>1, <5>2, <5>3 DEF RootSet, acc_addr, env_addr
      <4>. QED
        BY <4>2, <2>3
    <3>2. CASE AtField(N)
      <4>1. PICK n \in N : heap_todo \in n + 1 .. n + Wosize_hd(mem[n])
        BY <3>2 DEF AtField, InBlock
      <4>2. loc = heap_todo /\ heap_todo > n /\ n >= new_start
        BY <3>2, <4>1, <1>3, <1>6, <1>11 DEF AtField
      <4>. QED
        BY <4>2, <2>3, <1>6, <1>11
    <3>. QED
      BY <3>1, <3>2, <1>2
  <2>5. mem'[a] = mem[a]
    BY <2>3, <2>4, <1>9
  <2>. QED
    BY <2>2, <2>5
<1>16. ScanOK(N2)'
  <2>1. heap_todo' < heap_ptr'
    BY <1>1, <1>6
  <2>2. CASE AtField(N)
    <3>1. PICK n \in N : /\ Tag_hd(mem[n]) < No_scan_tag
                         /\ heap_todo \in n + 1 .. n + Wosize_hd(mem[n])
                         /\ heap_todo + Top.todo = n + Wosize_hd(mem[n])
      BY <2>2 DEF AtField, InBlock
    <3>2. mem'[n] = mem[n] /\ n \in N2
      BY <1>11, <1>13
    <3>3. \E c \in N2 : /\ Tag_hd(mem'[c]) < No_scan_tag
                        /\ heap_todo \in c + 1 .. c + Wosize_hd(mem'[c])
                        /\ heap_todo + Top.todo = c + Wosize_hd(mem'[c])
      BY <3>1, <3>2
    <3>4. InBlock(N2)'
      BY <3>3, <1>5 DEF InBlock
    <3>. QED
      BY <3>4, <2>1, <1>5 DEF ScanOK
  <2>3. CASE AtRoot
    <3>1. heap_todo + 1 = heap_ptr /\ Top.todo = 0
      BY <2>3, <1>6 DEF AtRoot
    <3>2. Between(N2)'
      BY <3>1, <1>5 DEF Between
    <3>. QED
      BY <3>2, <2>1, <1>5 DEF ScanOK
  <2>. QED
    BY <2>2, <2>3, <1>2
<1>. QED
  BY <1>7, <1>13, <1>14, <1>15, <1>16 DEF Copying

\* The pointer in hand is to a block of the half being emptied, copied or not; one
\* that is not fits in the half in use.
PointsTo(o, h, O, N, src) ==
  /\ o \in O /\ o + 1 \in 0 .. HeapWosize - 1 /\ BlockHeader(h[o])
  /\ Pointed.at = o + 1 /\ Hd_val(mem, Pointed) = mem[o]
  /\ Tag_hd(mem[o]) # Infix_tag /\ Wosize_hd(mem[o]) = Wosize_hd(h[o])
  /\ \/ Is_black_hd(mem[o]) /\ \E n \in N : Field(mem, Pointed, 0) = Val_dynamic_block(n + 1)
     \/ /\ ~ Is_black_hd(mem[o]) /\ mem[o] = h[o] /\ \A n \in N : src[n] # o
        /\ heap_ptr + Wosize_hd(h[o]) < heap_end

\* The block that the word in hand points to is one of the old heap.
LEMMA PointedOld ==
  ASSUME TypeOK, Examined, NEW h, NEW O, NEW N, NEW src, Copying(h, O, N, src)
  PROVE  Sane /\ At(Top.ptr).kind # "code" /\ \E o : PointsTo(o, h, O, N, src)
<1>1. Examining /\ Is_block_in_dynamic_heap(Pointed) /\ Pointed = At(Top.ptr)
  BY WordInHand DEF Examined, Pointed
<1>2. Value(Pointed, O) /\ Pointed.kind = "dyn" /\ Pointed.low = 0
  BY <1>1, WordInHand DEF Is_block_in_dynamic_heap
<1>3. PICK o \in O : o = Pointed.at - 1
  BY <1>2 DEF Value
<1>4. Pointed.at \in Int
  BY <1>2 DEF Value, Word
<1>5. /\ HeapWosize \in Nat /\ new_start \in Nat /\ old_start \in Nat /\ old_end \in Nat /\ heap_ptr \in Nat
      /\ heap_end \in Nat /\ old_start <= old_end /\ old_end <= HeapWosize /\ new_start <= heap_ptr
      /\ heap_end - new_start = old_end - old_start
  BY Geometry
<1>6. /\ BlocksOK(h, old_start, old_end, O) /\ BlocksOK(mem, new_start, heap_ptr, N)
      /\ Covered(mem, new_start, heap_ptr, N) /\ SourceOK(mem, new_start, heap_ptr, h, O, N, src)
      /\ OldOK(mem, h, O, N, src)
  BY DEF Copying, CopyOK
<1>7. o \in old_start .. old_end - 1 /\ BlockHeader(h[o]) /\ o + Wosize_hd(h[o]) < old_end
  BY <1>6 DEF BlocksOK
<1>8. /\ h[o] \in [kind : {"hd"}, tag : Nat, size : Nat, low : 0 .. 3, id : Int]
      /\ Wosize_hd(h[o]) \in Nat /\ Wosize_hd(h[o]) > 0
  BY <1>7, HeaderParts
<1>9. h[o].low = 0 /\ Tag_hd(h[o]) # Infix_tag
  BY <1>7 DEF BlockHeader, Color_white
<1>10. Pointed.at = o + 1 /\ o \in 0 .. HeapWosize - 1 /\ o + 1 \in 0 .. HeapWosize - 1
  BY <1>3, <1>4, <1>5, <1>7, <1>8
<1>11. Hd_val(mem, Pointed) = mem[o] /\ Field(mem, Pointed, 0) = mem[o + 1]
  BY <1>10 DEF Hd_val, Field
<1>12. CASE \E n \in N : src[n] = o
  <2>1. PICK n \in N : src[n] = o
    BY <1>12
  <2>2. mem[o] = Set_black_hd(h[o]) /\ mem[o + 1] = Val_dynamic_block(n + 1)
    BY <2>1, <1>6 DEF OldOK
  <2>3. mem[o] = [h[o] EXCEPT !.low = 2]
    BY <2>2, <1>8, <1>9 DEF Set_black_hd, Is_black_hd, Color_black
  <2>4. /\ Is_black_hd(mem[o]) /\ IsHd(mem[o]) /\ Tag_hd(mem[o]) # Infix_tag
        /\ Wosize_hd(mem[o]) = Wosize_hd(h[o])
    BY <2>3, <1>8, <1>9 DEF Is_black_hd, IsHd, Tag_hd, Wosize_hd
  <2>5. Sane
    BY <2>4, <1>5, <1>7, <1>8, <1>10, <1>11 DEF Sane, InHeap
  <2>. QED
    BY <2>2, <2>4, <2>5, <1>1, <1>2, <1>7, <1>10, <1>11 DEF PointsTo
<1>13. CASE \A n \in N : src[n] # o
  <2>1. mem[o] = h[o]
    BY <1>13, <1>6 DEF OldOK
  <2>2. ~ Is_black_hd(mem[o]) /\ IsHd(mem[o]) /\ Tag_hd(mem[o]) # Infix_tag
    BY <2>1, <1>8, <1>9 DEF Is_black_hd, IsHd
  <2>3. new_start \in Int /\ heap_ptr \in Int /\ old_start \in Int /\ old_end \in Int
    BY <1>5
  <2>4. heap_ptr + Wosize_hd(h[o]) < new_start + (old_end - old_start)
    BY <2>3, <1>5, <1>6, <1>13, BlockFits
  <2>5. heap_ptr + Wosize_hd(h[o]) < heap_end
    BY <2>4, <1>5
  <2>6. Sane
    BY <2>1, <2>2, <1>5, <1>7, <1>8, <1>10, <1>11 DEF Sane, InHeap
  <2>. QED
    BY <2>1, <2>2, <2>5, <2>6, <1>1, <1>2, <1>7, <1>10, <1>11, <1>13 DEF PointsTo
<1>. QED
  BY <1>12, <1>13

\* `start:` on a word that is no pointer into the dynamic heap.
LEMMA SkipValueCopying ==
  ASSUME TypeOK, SkipValue, NEW h, NEW O, NEW N, NEW src, Copying(h, O, N, src)
  PROVE  Copying(h, O, N, src)'
<1>1. /\ Examining /\ ~ Is_block_in_dynamic_heap(Load(Top.ptr)) /\ frames' = Goto("next")
      /\ UNCHANGED <<mem, heap_ptr, heap_end, acc, env, stack, globals, current_heap, heap_todo, root>>
  BY DEF SkipValue, heap, regs
<1>2. /\ Top.ptr \in RootSet \/ Top.ptr \in 0 .. HeapWosize - 1
      /\ Load(Top.ptr) = At(Top.ptr) /\ (Top.ptr >= 0 => At(Top.ptr) = mem[Top.ptr])
      /\ At(Top.ptr).kind # "code" => Value(At(Top.ptr), O)
  BY <1>1, WordInHand
<1>3. PICK w, m, p : w = At(Top.ptr) /\ m = mem /\ p = heap_ptr
  OBVIOUS
<1>4. VMTypeOK
  BY DEF TypeOK
<1>5. Written(Top.ptr, w, m)
  <2>1. \A b : At(b)' = At(b)
    BY <1>1 DEF At
  <2>2. \A b \in RootSet : b >= 0 => At(b) = m[b]
    BY <1>3, <1>4, LoadAt
  <2>3. \A c \in 0 .. HeapWosize - 1 : mem'[c] = IF c = Top.ptr THEN w ELSE m[c]
    BY <1>1, <1>2, <1>3
  <2>. QED
    BY <2>1, <2>2, <2>3, <1>1, <1>3 DEF Written
<1>6. IF At(Top.ptr).kind = "code" THEN w = At(Top.ptr) ELSE Value(w, N)
  BY <1>1, <1>2, <1>3 DEF Value, Is_block_in_dynamic_heap
<1>7. heap_ptr' = p /\ p \in Nat /\ heap_ptr <= p /\ p <= heap_end /\ heap_ptr \in N \cup {p}
  BY <1>1, <1>3, Geometry
<1>8. CopyOK(m, new_start, p, old_start, old_end, h, O, N, src, Ahead)
  BY <1>3 DEF Copying
<1>. QED
  BY <1>1, <1>3, <1>5, <1>6, <1>7, <1>8, Settle

\* *ptr = w, in the only activation.
LEMMA StoredWord ==
  ASSUME TypeOK, Examining, NEW h, NEW O, NEW N, NEW src, Copying(h, O, N, src),
         NEW w, NEW m \in Memories, Store(Top.ptr, w, m, Goto("next"))
  PROVE  Written(Top.ptr, w, m) /\ frames' = Goto("next")
<1>1. VMTypeOK /\ Put(Top.ptr, w, m)
      /\ frames' = IF Top.ptr < local_addr(0) THEN [Goto("next") EXCEPT ![local_addr(0) - Top.ptr].start = w] ELSE Goto("next")
  BY DEF TypeOK, Store
<1>2. Top.ptr \in Int /\ (Top.ptr \in RootSet \/ Top.ptr \in 0 .. HeapWosize - 1)
  BY WordInHand
<1>3. ~ (Top.ptr < local_addr(0))
  BY <1>1, <1>2, LoadAt
<1>. QED
  BY <1>1, <1>2, <1>3, PutAt DEF Written

\* `start:` on a pointer to a copied block.
LEMMA ForwardCopying ==
  ASSUME TypeOK, Forward, NEW h, NEW O, NEW N, NEW src, Copying(h, O, N, src)
  PROVE  Copying(h, O, N, src)'
<1>1. /\ Examined /\ Examining /\ Is_black_hd(Hd_val(mem, Pointed))
      /\ Store(Top.ptr, Field(mem, Pointed, 0), mem, Goto("next"))
      /\ UNCHANGED <<heap_ptr, heap_end, current_heap, heap_todo, root>>
  BY DEF Forward, Examined
<1>2. PICK o : PointsTo(o, h, O, N, src)
  BY <1>1, PointedOld
<1>3. PICK n \in N : Field(mem, Pointed, 0) = Val_dynamic_block(n + 1)
  BY <1>1, <1>2 DEF PointsTo
<1>4. PICK w, m, p : w = Field(mem, Pointed, 0) /\ m = mem /\ p = heap_ptr
  OBVIOUS
<1>5. m \in Memories
  BY <1>4 DEF TypeOK, VMTypeOK, Memories
<1>6. Written(Top.ptr, w, m) /\ frames' = Goto("next")
  BY <1>1, <1>4, <1>5, StoredWord
<1>7. n \in Int /\ n \in new_start .. heap_ptr - 1
  BY Geometry DEF Copying, CopyOK, BlocksOK
<1>8. At(Top.ptr).kind # "code" /\ Value(w, N)
  BY <1>1, <1>3, <1>4, <1>7, PointedOld DEF Val_dynamic_block, Value, Word
<1>9. heap_ptr' = p /\ p \in Nat /\ heap_ptr <= p /\ p <= heap_end /\ heap_ptr \in N \cup {p}
  BY <1>1, <1>4, Geometry
<1>10. CopyOK(m, new_start, p, old_start, old_end, h, O, N, src, Ahead)
  BY <1>4 DEF Copying
<1>. QED
  BY <1>1, <1>4, <1>6, <1>8, <1>9, <1>10, Settle

\* `start:` on a pointer to a block not copied yet.
LEMMA CopyCopying ==
  ASSUME TypeOK, Copy, NEW h, NEW O, NEW N, NEW src, Copying(h, O, N, src)
  PROVE  \E N2, src2 : Copying(h, O, N2, src2)'
<1>1. /\ Examined /\ Examining /\ ~ Is_black_hd(Hd_val(mem, Pointed))
      /\ UNCHANGED <<current_heap, heap_todo, root>>
  BY DEF Copy, Examined
<1>2. PICK o : PointsTo(o, h, O, N, src)
  BY <1>1, PointedOld
<1>3. /\ o \in O /\ o + 1 \in 0 .. HeapWosize - 1 /\ Pointed.at = o + 1
      /\ Hd_val(mem, Pointed) = h[o] /\ Hd_val(mem, Pointed) = mem[o] /\ BlockHeader(h[o])
      /\ (\A n \in N : src[n] # o) /\ heap_ptr + Wosize_hd(h[o]) < heap_end
  BY <1>1, <1>2 DEF PointsTo
<1>4. PICK size \in Nat : size = Wosize_hd(h[o]) /\ size > 0
  BY <1>3, HeaderParts
<1>5. PICK m : m = CopiedTo(Hd_val(mem, Pointed), Val_dynamic_block(heap_ptr + 1))
  OBVIOUS
<1>6. m \in Memories
  BY <1>5, CopiedType
<1>7. PICK p, w : p = heap_ptr + 1 + size /\ w = Val_dynamic_block(heap_ptr + 1)
  OBVIOUS
<1>8. Store(Top.ptr, w, m, Goto("next")) /\ heap_ptr' = p
  BY <1>3, <1>4, <1>5, <1>7 DEF Copy
<1>9. Written(Top.ptr, w, m) /\ frames' = Goto("next")
  BY <1>1, <1>6, <1>8, StoredWord
<1>10. /\ StaticWosize \in Nat /\ HeapWosize \in Nat /\ StaticWosize <= HeapWosize
       /\ new_start \in Nat /\ old_start \in Nat /\ old_end \in Nat /\ heap_ptr \in Nat /\ heap_end \in Nat
       /\ StaticWosize <= new_start /\ StaticWosize <= old_start /\ old_start <= old_end /\ old_end <= HeapWosize
       /\ new_start <= heap_ptr /\ heap_ptr <= heap_end /\ heap_end <= HeapWosize
       /\ heap_end - new_start = old_end - old_start /\ (heap_end <= old_start \/ old_end <= new_start)
  BY Geometry
<1>11. o \in old_start .. old_end - 1 /\ o + size < old_end
  BY <1>3, <1>4 DEF Copying, CopyOK, BlocksOK
<1>12. heap_ptr + size < heap_end
  BY <1>3, <1>4
<1>13. PICK hp, nw, os, oe, he, HW : hp = heap_ptr /\ nw = new_start /\ os = old_start /\ oe = old_end
                                       /\ he = heap_end /\ HW = HeapWosize
  OBVIOUS
<1>14. /\ hp \in Nat /\ nw \in Nat /\ os \in Nat /\ oe \in Nat /\ he \in Nat /\ HW \in Nat
       /\ nw <= hp /\ hp + size < he /\ he <= HW /\ oe <= HW /\ (he <= os \/ oe <= nw)
  BY <1>10, <1>12, <1>13
<1>15. o \in Int /\ os <= o /\ o + size < oe
  BY <1>11, <1>13, <1>14
<1>16. mem \in Memories /\ DOMAIN mem = 0 .. HeapWosize - 1
  BY DEF TypeOK, VMTypeOK, Memories
<1>17. PICK hd : hd = h[o]
  OBVIOUS
<1>18. hd = Hd_val(mem, Pointed) /\ Wosize_hd(hd) = size /\ m = CopiedTo(hd, w)
  BY <1>3, <1>4, <1>5, <1>7, <1>17
<1>19. \A a \in 0 .. HeapWosize - 1 :
          m[a] = IF a = heap_ptr THEN hd
                 ELSE IF a \in heap_ptr + 1 .. heap_ptr + size THEN Field(mem, Pointed, a - heap_ptr - 1)
                 ELSE IF a = Pointed.at THEN w
                 ELSE IF a = Pointed.at - 1 THEN Set_black_hd(hd) ELSE mem[a]
  <2>1. CopiedTo(hd, w) =
          [a \in DOMAIN mem |->
             IF a = heap_ptr THEN hd
             ELSE IF a \in heap_ptr + 1 .. heap_ptr + Wosize_hd(hd) THEN Field(mem, Pointed, a - heap_ptr - 1)
             ELSE IF a = Pointed.at THEN w
             ELSE IF a = Pointed.at - 1 THEN Set_black_hd(hd) ELSE mem[a]]
    BY Zenon DEF CopiedTo
  <2>2. PICK sz : sz = Wosize_hd(hd)
    OBVIOUS
  <2>3. sz = size
    BY <2>2, <1>18
  <2>. QED
    BY <2>1, <2>2, <2>3, <1>16, <1>18
<1>20. \A i \in 1 .. size : Field(mem, Pointed, (hp + i) - hp - 1) = mem[o + i]
  <2>1. \A i \in 1 .. size : o + 1 + ((hp + i) - hp - 1) = o + i
    BY <1>4, <1>14, <1>15
  <2>2. \A k : Field(mem, Pointed, k) = mem[o + 1 + k]
    BY <1>3 DEF Field
  <2>. QED
    BY <2>1, <2>2
<1>21. CopyWrites(mem, m, heap_ptr, o, size, h[o], HeapWosize)
  <2>1. /\ o # hp /\ o \notin hp + 1 .. hp + size /\ o + 1 # hp
        /\ o + 1 \notin hp + 1 .. hp + size /\ o \in 0 .. HW - 1 /\ o + 1 \in 0 .. HW - 1
        /\ o # o + 1 /\ o + 1 - 1 = o /\ hp \in 0 .. HW - 1
    BY <1>4, <1>14, <1>15
  <2>2. /\ Pointed.at = o + 1 /\ Pointed.at - 1 = o
    BY <2>1, <1>3
  <2>3. \A a \in 0 .. HW - 1 :
          m[a] = IF a = hp THEN hd
                 ELSE IF a \in hp + 1 .. hp + size THEN Field(mem, Pointed, a - hp - 1)
                 ELSE IF a = o + 1 THEN w
                 ELSE IF a = o THEN Set_black_hd(hd) ELSE mem[a]
    BY <2>2, <1>13, <1>19
  <2>4. m[hp] = hd /\ m[o] = Set_black_hd(hd) /\ m[o + 1] = w
    BY <2>1, <2>3
  <2>5. ASSUME NEW i \in 1 .. size PROVE m[hp + i] = mem[o + i]
    <3>1. /\ hp + i \in 0 .. HW - 1 /\ hp + i # hp /\ hp + i \in hp + 1 .. hp + size
      BY <1>4, <1>14
    <3>2. m[hp + i] = Field(mem, Pointed, (hp + i) - hp - 1)
      BY <3>1, <2>3
    <3>. QED
      BY <3>2, <1>20
  <2>6. ASSUME NEW a \in 0 .. HW - 1, a \notin hp .. hp + size, a # o, a # o + 1
        PROVE  m[a] = mem[a]
    <3>1. a # hp /\ a \notin hp + 1 .. hp + size
      BY <2>6, <1>4, <1>14
    <3>. QED
      BY <2>6, <3>1, <2>3
  <2>7. w = Val_dynamic_block(hp + 1)
    BY <1>7, <1>13
  <2>8. CopyWrites(mem, m, hp, o, size, hd, HW)
    BY <2>4, <2>5, <2>6, <2>7 DEF CopyWrites
  <2>. QED
    BY <2>8, <1>17, <1>13
<1>22. PICK N2, src2 : N2 = N \cup {heap_ptr} /\ src2 = Grown(src, new_start, heap_ptr, o, size)
  OBVIOUS
<1>23. CopyOK(m, new_start, p, old_start, old_end, h, O, N2, src2, Ahead)
  <2>1. Halved(new_start, heap_ptr, heap_end, old_start, old_end, HeapWosize)
    BY <1>10 DEF Halved
  <2>2. \A i \in 1 .. size : heap_ptr + i \in Ahead
    <3>1. heap_todo < heap_ptr /\ heap_todo \in Int
      BY DEF Copying, ScanOK, TypeOK
    <3>. QED
      BY <3>1, <1>4, <1>10 DEF Ahead
  <2>3. CopyOK(mem, new_start, heap_ptr, old_start, old_end, h, O, N, src, Ahead)
    BY DEF Copying
  <2>4. CopyOK(m, new_start, heap_ptr + 1 + size, old_start, old_end, h, O, N \cup {heap_ptr},
               Grown(src, new_start, heap_ptr, o, size), Ahead)
    BY <2>1, <2>2, <2>3, <1>3, <1>4, <1>21, CopyBlock
  <2>. QED
    BY <2>4, <1>7, <1>22
<1>24. \A a \in 0 .. HeapWosize - 1 : a < StaticWosize \/ a \in new_start .. heap_ptr - 1 => m[a] = mem[a]
  <2>1. SUFFICES ASSUME NEW a \in 0 .. HeapWosize - 1, a < StaticWosize \/ a \in new_start .. heap_ptr - 1
                 PROVE  m[a] = mem[a]
    OBVIOUS
  <2>2. a \notin heap_ptr .. heap_ptr + size /\ a # o /\ a # o + 1
    BY <2>1, <1>4, <1>10, <1>11
  <2>. QED
    BY <2>2, <1>21 DEF CopyWrites
<1>25. At(Top.ptr).kind # "code" /\ Value(w, N2)
  <2>1. PICK a \in Int : a = heap_ptr + 1 /\ a - 1 = heap_ptr
    BY <1>10
  <2>2. w = [kind |-> "dyn", at |-> a, low |-> 0] /\ a - 1 \in N2
    BY <2>1, <1>7, <1>22 DEF Val_dynamic_block
  <2>3. w \in Word
    BY <2>1, <2>2 DEF Word
  <2>4. Value(w, N2)
    BY <2>2, <2>3 DEF Value
  <2>. QED
    BY <2>4, <1>1, PointedOld
<1>26. p \in Nat /\ heap_ptr <= p /\ p <= heap_end /\ heap_ptr \in N2 \cup {p} /\ N \subseteq N2
  <2>1. p = hp + 1 + size
    BY <1>7, <1>13
  <2>2. p \in Nat /\ hp <= p /\ p <= he
    BY <2>1, <1>4, <1>14
  <2>. QED
    BY <2>2, <1>22, <1>13
<1>27. Copying(h, O, N2, src2)'
  BY <1>1, <1>8, <1>9, <1>23, <1>24, <1>25, <1>26, Settle
<1>. QED
  BY <1>27

\* The others steps from `start:` are for infix pointers or misread memory.
LEMMA NoMisreading ==
  ASSUME TypeOK, NEW h, NEW O, NEW N, NEW src, Copying(h, O, N, src)
  PROVE  ~ Infix /\ ~ InfixReturn /\ ~ Misread
<1>1. ~ InfixReturn
  BY DEF InfixReturn, Copying, ScanOK
<1>2. ASSUME Examined PROVE ~ Infix /\ ~ Misread
  <2>1. PICK o : PointsTo(o, h, O, N, src)
    BY <1>2, PointedOld
  <2>2. Sane
    BY <1>2, PointedOld
  <2>3. ~ Infix
    BY <2>1 DEF Infix, PointsTo
  <2>4. ~ Misread
    <3>1. SUFFICES ASSUME Misread PROVE FALSE
      OBVIOUS
    <3>2. /\ ~ Is_black_hd(mem[o]) /\ heap_ptr + Wosize_hd(mem[o]) >= heap_end
      BY <2>1, <2>2, <3>1 DEF Misread, PointsTo
    <3>3. heap_ptr + Wosize_hd(h[o]) < heap_end /\ Wosize_hd(mem[o]) = Wosize_hd(h[o])
      BY <2>1, <3>2 DEF PointsTo
    <3>4. heap_ptr \in Nat /\ heap_end \in Nat /\ Wosize_hd(h[o]) \in Nat
      BY <2>1, Geometry, HeaderParts DEF PointsTo
    <3>. QED
      BY <3>2, <3>3, <3>4
  <2>. QED
    BY <2>3, <2>4
<1>3. ~ Examined => ~ Infix /\ ~ Misread
  BY DEF Infix, Misread
<1>. QED
  BY <1>1, <1>2, <1>3

\* Going on, without a store: what is ahead must not change.
LEMMA Advance ==
  ASSUME TypeOK, NEW h, NEW O, NEW N, NEW src, Copying(h, O, N, src),
         UNCHANGED <<mem, heap_ptr, acc, env, stack, globals, current_heap>>,
         SameAhead(mem, N, Ahead, Ahead', -1),
         \A i \in 1 .. Len(Roots) : i \in RootsAhead' <=> i \in RootsAhead,
         ScanOK(N)'
  PROVE  Copying(h, O, N, src)'
<1>1. /\ CopyOK(mem, new_start, heap_ptr, old_start, old_end, h, O, N, src, Ahead)
      /\ RootsOK(O, N, RootsAhead) /\ StaticKept
  BY DEF Copying
<1>2. /\ StaticWosize \in Nat /\ HeapWosize \in Nat /\ StaticWosize <= HeapWosize
      /\ new_start \in Nat /\ old_start \in Nat /\ old_end \in Nat /\ heap_ptr \in Nat /\ heap_end \in Nat
      /\ StaticWosize <= new_start /\ StaticWosize <= old_start /\ old_start <= old_end /\ old_end <= HeapWosize
      /\ new_start <= heap_ptr /\ heap_ptr <= heap_end /\ heap_end <= HeapWosize
      /\ heap_end - new_start = old_end - old_start /\ (heap_end <= old_start \/ old_end <= new_start)
  BY Geometry
<1>3. new_start' = new_start /\ old_start' = old_start /\ old_end' = old_end
  BY DEF new_start, old_start, old_end, Old, tab_heap_start, tab_heap_end
<1>4. PICK m, A, A2 : m = mem /\ A = Ahead /\ A2 = Ahead'
  OBVIOUS
<1>5. CopyOK(m, new_start, heap_ptr, old_start, old_end, h, O, N, src, A2)
  <2>1. Halved(new_start, heap_ptr, heap_end, old_start, old_end, HeapWosize)
    BY <1>2 DEF Halved
  <2>2. SettledAt(m, m, new_start, heap_ptr, old_start, old_end, N, A2, -1)
    BY <1>2 DEF SettledAt
  <2>3. SameAhead(m, N, A, A2, -1) /\ CopyOK(m, new_start, heap_ptr, old_start, old_end, h, O, N, src, A)
    BY <1>1, <1>4
  <2>4. \A a \in (new_start .. heap_ptr - 1) \cup (old_start .. old_end - 1) : a # -1 => m[a] = m[a]
    OBVIOUS
  <2>. QED
    BY <2>1, <2>2, <2>3, <2>4, SettleWord
<1>6. Roots' = Roots
  BY SameLocations
<1>7. RootsOK(O, N, RootsAhead)'
  <2>1. \A i \in 1 .. Len(Roots) : At(Roots[i])' = At(Roots[i])
    BY <1>6 DEF At
  <2>2. \A i \in 1 .. Len(Roots) : Value(At(Roots[i])', IF i \in RootsAhead' THEN O ELSE N)
    BY <2>1, <1>1 DEF RootsOK
  <2>. QED
    BY <2>2, <1>6 DEF RootsOK
<1>8. StaticKept'
  BY <1>1 DEF StaticKept
<1>9. CopyOK(mem', new_start', heap_ptr', old_start', old_end', h, O, N, src, Ahead')
  BY <1>3, <1>4, <1>5
<1>. QED
  BY <1>7, <1>8, <1>9 DEF Copying

\* At `next:` everything up to heap_todo is behind.
LEMMA AheadAtNext ==
  ASSUME TypeOK, AtNext, NEW h, NEW O, NEW N, NEW src, Copying(h, O, N, src)
  PROVE  /\ Ahead = {a \in Int : a > heap_todo} /\ RootsAhead = {i \in Int : i > root}
         /\ BlocksOK(mem, new_start, heap_ptr, N) /\ Covered(mem, new_start, heap_ptr, N)
         /\ \A n \in N : /\ n \in new_start .. heap_ptr - 1 /\ Wosize_hd(mem[n]) \in Nat /\ Wosize_hd(mem[n]) > 0
                         /\ n + Wosize_hd(mem[n]) < heap_ptr /\ IsHd(mem[n])
         /\ new_start \in Int /\ heap_ptr \in Int /\ StaticWosize <= new_start
         /\ StaticWosize \in Nat /\ HeapWosize \in Nat /\ heap_ptr <= HeapWosize
         /\ heap_todo \in Int /\ heap_todo < heap_ptr /\ (InBlock(N) \/ Between(N))
         /\ frames \in Seq(Activation) /\ Depth = 1 /\ root \in 1 .. Len(Roots) /\ VMTypeOK
<1>1. Top.at = "next" /\ ctl = "gc" /\ root > 0
  BY DEF AtNext
<1>2. Ahead = {a \in Int : a > heap_todo} /\ RootsAhead = {i \in Int : i > root}
  BY <1>1 DEF Ahead, RootsAhead
<1>3. BlocksOK(mem, new_start, heap_ptr, N) /\ Covered(mem, new_start, heap_ptr, N)
  BY DEF Copying, CopyOK
<1>4. \A n \in N : /\ n \in new_start .. heap_ptr - 1 /\ Wosize_hd(mem[n]) \in Nat /\ Wosize_hd(mem[n]) > 0
                   /\ n + Wosize_hd(mem[n]) < heap_ptr /\ IsHd(mem[n])
  BY <1>3, HeaderParts DEF BlocksOK, BlockHeader
<1>5. /\ new_start \in Int /\ heap_ptr \in Int /\ StaticWosize <= new_start
      /\ StaticWosize \in Nat /\ HeapWosize \in Nat /\ heap_ptr <= HeapWosize
  BY Geometry
<1>6. heap_todo < heap_ptr /\ (InBlock(N) \/ Between(N)) /\ Depth = 1
  BY <1>1 DEF Copying, ScanOK
<1>7. heap_todo \in Int /\ frames \in Seq(Activation) /\ root \in 1 .. Len(Roots) /\ VMTypeOK
  BY <1>1 DEF TypeOK
<1>. QED
  BY <1>2, <1>3, <1>4, <1>5, <1>6, <1>7

\* Scanning goes on with the word at a: no root is in hand.
LEMMA ScanTop ==
  ASSUME frames \in Seq(Activation), Depth = 1, NEW a, NEW k, Scan(a, k)
  PROVE  Depth' = 1 /\ Top'.at = "start" /\ Top'.ptr = a /\ Top'.todo = k /\ heap_todo' = a
<1>1. frames \in [1 .. 1 -> Activation] /\ Len(frames) = 1
  BY DEF Depth
<1>2. frames' = [frames EXCEPT ![1] = [frames[1] EXCEPT !.at = "start", !.ptr = a, !.todo = k]] /\ heap_todo' = a
  BY DEF Scan, Top
<1>3. Len(frames') = 1 /\ frames'[1] = [frames[1] EXCEPT !.at = "start", !.ptr = a, !.todo = k]
  BY <1>1, <1>2
<1>4. frames[1] \in Activation
  BY <1>1
<1>. QED
  BY <1>1, <1>2, <1>3, <1>4 DEF Depth, Top, Activation

\* The scan is at a position before the end of its block, and goes on from there.
LEMMA ScanAhead ==
  ASSUME TypeOK, AtNext, NEW h, NEW O, NEW N, NEW src, Copying(h, O, N, src),
         NEW a \in Int, a >= StaticWosize, NEW k, Scan(a, k),
         UNCHANGED <<mem, heap_ptr, acc, env, stack, globals, current_heap, root>>,
         \A n \in N : \A i \in 1 .. Wosize_hd(mem[n]) : n + i >= a <=> n + i > heap_todo,
         \E n \in N : /\ Tag_hd(mem[n]) < No_scan_tag /\ a \in n + 1 .. n + Wosize_hd(mem[n])
                      /\ a + k = n + Wosize_hd(mem[n])
  PROVE  Copying(h, O, N, src)'
<1>1. /\ Ahead = {b \in Int : b > heap_todo} /\ RootsAhead = {i \in Int : i > root}
      /\ \A n \in N : /\ n \in new_start .. heap_ptr - 1 /\ Wosize_hd(mem[n]) \in Nat
                      /\ n + Wosize_hd(mem[n]) < heap_ptr
      /\ new_start \in Int /\ heap_ptr \in Int /\ StaticWosize \in Nat
      /\ frames \in Seq(Activation) /\ Depth = 1 /\ root \in 1 .. Len(Roots) /\ VMTypeOK
  BY AheadAtNext
<1>2. Depth' = 1 /\ Top'.at = "start" /\ Top'.ptr = a /\ Top'.todo = k /\ heap_todo' = a
  BY <1>1, ScanTop
<1>3. Ahead' = {b \in Int : b >= a}
  BY <1>2 DEF Ahead
<1>4. SameAhead(mem, N, Ahead, Ahead', -1)
  <2>1. \A n \in N : \A i \in 1 .. Wosize_hd(mem[n]) : n + i \in Int
    BY <1>1
  <2>. QED
    BY <2>1, <1>1, <1>3 DEF SameAhead
<1>5. Roots' = Roots
  BY SameLocations
<1>6. \A i \in 1 .. Len(Roots) : i \in RootsAhead' <=> i \in RootsAhead
  <2>1. \A i \in 1 .. Len(Roots) : Roots[i] \in RootSet
    BY <1>1, RootsOnce, SeqElements
  <2>2. \A i \in 1 .. Len(Roots) : Roots[i] # a
    BY <2>1, <1>1, RootsOnce
  <2>3. \A i \in 1 .. Len(Roots) : i \in Int
    OBVIOUS
  <2>4. RootsAhead' = {i \in Int : i > root \/ (i = root /\ a = Roots[i])}
    BY <1>2, <1>5 DEF RootsAhead
  <2>. QED
    BY <2>2, <2>3, <2>4, <1>1
<1>7. ScanOK(N)'
  <2>1. PICK n \in N : /\ Tag_hd(mem[n]) < No_scan_tag /\ a \in n + 1 .. n + Wosize_hd(mem[n])
                       /\ a + k = n + Wosize_hd(mem[n])
    OBVIOUS
  <2>2. InBlock(N)'
    BY <2>1, <1>2 DEF InBlock
  <2>3. heap_todo' < heap_ptr'
    BY <2>1, <1>1, <1>2
  <2>. QED
    BY <2>2, <2>3, <1>2 DEF ScanOK
<1>. QED
  BY <1>4, <1>6, <1>7, Advance

\* `next:` inside a block.
LEMMA NextFieldCopying ==
  ASSUME TypeOK, NextField, NEW h, NEW O, NEW N, NEW src, Copying(h, O, N, src)
  PROVE  Copying(h, O, N, src)' /\ ctl' = "gc" /\ root' > 0 /\ UNCHANGED pend
<1>1. AtNext /\ Top.todo # 0 /\ ctl = "gc" /\ root > 0
  BY DEF NextField, AtNext
<1>2. /\ \A n \in N : /\ n \in new_start .. heap_ptr - 1 /\ Wosize_hd(mem[n]) \in Nat
                      /\ n + Wosize_hd(mem[n]) < heap_ptr
      /\ new_start \in Int /\ heap_ptr \in Int /\ StaticWosize <= new_start
      /\ StaticWosize \in Nat /\ HeapWosize \in Nat /\ heap_ptr <= HeapWosize
      /\ heap_todo \in Int /\ (InBlock(N) \/ Between(N))
      /\ frames \in Seq(Activation) /\ Depth = 1
  BY <1>1, AheadAtNext
<1>3. Top.todo \in Int
  <2>1. 1 \in 1 .. Depth /\ Depth = 1
    BY <1>2
  <2>. QED
    BY <2>1, FrameType DEF Top
<1>4. PICK n \in N : /\ Tag_hd(mem[n]) < No_scan_tag
                     /\ heap_todo \in n + 1 .. n + Wosize_hd(mem[n])
                     /\ heap_todo + Top.todo = n + Wosize_hd(mem[n])
  BY <1>1, <1>2 DEF InBlock, Between
<1>5. PICK a, k : a = heap_todo + 1 /\ k = Top.todo - 1
  OBVIOUS
<1>6. PICK z \in Nat : z = Wosize_hd(mem[n]) /\ n \in new_start .. heap_ptr - 1 /\ n + z < heap_ptr
  BY <1>2
<1>7. a \in Int /\ a \in n + 1 .. n + z /\ a + k = n + z /\ a >= StaticWosize /\ a \in 0 .. HeapWosize - 1
  <2>1. heap_todo \in n + 1 .. n + z /\ heap_todo + Top.todo = n + z /\ n \in Int /\ n >= StaticWosize
        /\ n + z < HeapWosize
    BY <1>2, <1>4, <1>6
  <2>2. a \in Int /\ a \in n + 1 .. n + z /\ a + k = n + z
    BY <2>1, <1>1, <1>2, <1>3, <1>5
  <2>. QED
    BY <2>1, <2>2, <1>2
<1>8. Scan(a, k) /\ UNCHANGED <<heap, regs, pend, ctl, current_heap, root>>
  BY <1>5, <1>7 DEF NextField, InHeap
<1>9. \A c \in N : \A i \in 1 .. Wosize_hd(mem[c]) : c + i >= a <=> c + i > heap_todo
  BY <1>2, <1>5
<1>10. Copying(h, O, N, src)'
  BY <1>1, <1>4, <1>6, <1>7, <1>8, <1>9, ScanAhead DEF heap, regs
<1>. QED
  BY <1>1, <1>8, <1>10

\* `next:` at the header of a block, entered or skipped.
LEMMA OpenBlockCopying ==
  ASSUME TypeOK, OpenBlock, NEW h, NEW O, NEW N, NEW src, Copying(h, O, N, src)
  PROVE  Copying(h, O, N, src)' /\ ctl' = "gc" /\ root' > 0 /\ UNCHANGED pend
<1>1. AtNext /\ heap_todo # heap_ptr - 1 /\ Top.todo = 0 /\ ctl = "gc" /\ root > 0 /\ Top.at = "next"
  BY DEF OpenBlock, AtNext
<1>2. /\ Ahead = {b \in Int : b > heap_todo} /\ RootsAhead = {i \in Int : i > root}
      /\ BlocksOK(mem, new_start, heap_ptr, N) /\ Covered(mem, new_start, heap_ptr, N)
      /\ \A n \in N : /\ n \in new_start .. heap_ptr - 1 /\ Wosize_hd(mem[n]) \in Nat /\ Wosize_hd(mem[n]) > 0
                      /\ n + Wosize_hd(mem[n]) < heap_ptr /\ IsHd(mem[n])
      /\ new_start \in Int /\ heap_ptr \in Int /\ StaticWosize <= new_start
      /\ StaticWosize \in Nat /\ HeapWosize \in Nat /\ heap_ptr <= HeapWosize
      /\ heap_todo \in Int /\ (InBlock(N) \/ Between(N))
      /\ frames \in Seq(Activation) /\ Depth = 1 /\ root \in 1 .. Len(Roots) /\ VMTypeOK
  BY <1>1, AheadAtNext
<1>3. PICK b : b = heap_todo + 1
  OBVIOUS
<1>4. b \in N
  <2>1. b \in N \cup {heap_ptr}
    <3>1. CASE InBlock(N)
      <4>1. PICK n \in N : heap_todo + Top.todo = n + Wosize_hd(mem[n])
        BY <3>1 DEF InBlock
      <4>2. n + Wosize_hd(mem[n]) + 1 \in N \cup {heap_ptr}
        BY <1>2, NextBlock
      <4>. QED
        BY <4>1, <4>2, <1>1, <1>2, <1>3
    <3>2. CASE Between(N)
      BY <3>2, <1>3 DEF Between
    <3>. QED
      BY <3>1, <3>2, <1>2
  <2>. QED
    BY <2>1, <1>1, <1>2, <1>3
<1>5. PICK z \in Nat : /\ z = Wosize_hd(mem[b]) /\ z > 0 /\ b \in new_start .. heap_ptr - 1 /\ b + z < heap_ptr
                       /\ IsHd(mem[b])
  BY <1>2, <1>4
<1>6. b \in Int /\ b >= new_start /\ b + 1 \in 0 .. HeapWosize - 1 /\ b + 1 = heap_todo + 2
  BY <1>2, <1>3, <1>5
<1>7. \A c \in N : \A i \in 1 .. Wosize_hd(mem[c]) : c + i # b /\ (c = b \/ c + i < b \/ c + i > b + z)
  <2>1. SUFFICES ASSUME NEW c \in N, NEW i \in 1 .. Wosize_hd(mem[c])
                 PROVE  c + i # b /\ (c = b \/ c + i < b \/ c + i > b + z)
    OBVIOUS
  <2>2. PICK y \in Nat : y = Wosize_hd(mem[c]) /\ c \in new_start .. heap_ptr - 1
    BY <1>2
  <2>3. (c <= b \/ c > b + z) /\ (b <= c \/ b > c + y)
    BY <1>2, <1>4, <1>5, <2>2 DEF BlocksOK
  <2>. QED
    BY <2>1, <2>2, <2>3, <1>2, <1>6
<1>8. /\ IF Tag_hd(mem[b]) >= No_scan_tag THEN heap_todo' = b + z /\ UNCHANGED frames ELSE Scan(b + 1, z - 1)
      /\ UNCHANGED <<heap, regs, pend, ctl, current_heap, root>>
  BY <1>3, <1>5, <1>6 DEF OpenBlock, InHeap
<1>9. CASE Tag_hd(mem[b]) < No_scan_tag
  <2>1. /\ Tag_hd(mem[b]) \in Nat
    BY <1>2, <1>4, HeaderParts DEF BlocksOK
  <2>2. Scan(b + 1, z - 1)
    BY <2>1, <1>8, <1>9 DEF No_scan_tag
  <2>3. PICK a, k : a = b + 1 /\ k = z - 1
    OBVIOUS
  <2>4. a \in Int /\ a >= StaticWosize /\ a \in b + 1 .. b + z /\ a + k = b + z
    BY <2>3, <1>2, <1>5, <1>6
  <2>5. \A c \in N : \A i \in 1 .. Wosize_hd(mem[c]) : c + i >= a <=> c + i > heap_todo
    <3>1. \A c \in N : \A i \in 1 .. Wosize_hd(mem[c]) : c + i \in Int
      BY <1>2
    <3>. QED
      BY <3>1, <2>3, <1>2, <1>3, <1>7
  <2>6. Copying(h, O, N, src)'
    BY <2>2, <2>3, <2>4, <2>5, <1>1, <1>4, <1>5, <1>8, <1>9, ScanAhead DEF heap, regs
  <2>. QED
    BY <2>6, <1>1, <1>8
<1>10. CASE ~ (Tag_hd(mem[b]) < No_scan_tag)
  <2>1. /\ Tag_hd(mem[b]) \in Nat
    BY <1>2, <1>4, HeaderParts DEF BlocksOK
  <2>2. heap_todo' = b + z /\ UNCHANGED frames
    BY <2>1, <1>8, <1>10 DEF No_scan_tag
  <2>3. Top'.at = "next" /\ Top'.todo = 0 /\ Depth' = 1
    BY <2>2, <1>1, <1>2 DEF Top, Depth
  <2>4. Ahead' = {a \in Int : a > b + z}
    BY <2>2, <2>3 DEF Ahead
  <2>5. SameAhead(mem, N, Ahead, Ahead', -1)
    <3>1. SUFFICES ASSUME NEW n \in N, Tag_hd(mem[n]) < No_scan_tag, NEW i \in 1 .. Wosize_hd(mem[n])
                   PROVE  n + i \in Ahead' <=> n + i \in Ahead
      BY DEF SameAhead
    <3>2. n # b
      BY <3>1, <1>10
    <3>3. n + i \in Int
      BY <1>2
    <3>4. n + i < b \/ n + i > b + z
      BY <3>2, <1>7
    <3>. QED
      BY <3>3, <3>4, <2>4, <1>2, <1>3, <1>5, <1>6
  <2>6. \A i \in 1 .. Len(Roots) : i \in RootsAhead' <=> i \in RootsAhead
    BY <2>3, <1>1, <1>2, <1>8 DEF RootsAhead
  <2>7. ScanOK(N)'
    <3>1. b + z + 1 \in N \cup {heap_ptr}
      BY <1>2, <1>4, <1>5, NextBlock
    <3>2. Between(N)'
      BY <3>1, <2>2, <2>3, <1>8 DEF Between, heap
    <3>3. heap_todo' < heap_ptr'
      BY <2>2, <1>5, <1>8 DEF heap
    <3>. QED
      BY <3>2, <3>3, <2>3 DEF ScanOK
  <2>8. Copying(h, O, N, src)'
    BY <2>5, <2>6, <2>7, <1>8, Advance DEF heap, regs
  <2>. QED
    BY <2>8, <1>1, <1>8
<1>. QED
  BY <1>9, <1>10

\* gc() takes the next root.
LEMMA NextRootCopying ==
  ASSUME TypeOK, Return, root < Len(Roots), NEW h, NEW O, NEW N, NEW src, Copying(h, O, N, src)
  PROVE  Copying(h, O, N, src)' /\ ctl' = "gc" /\ root' > 0 /\ UNCHANGED pend
<1>1. AtNext /\ heap_todo = heap_ptr - 1 /\ ctl = "gc" /\ root > 0 /\ Top.at = "next"
  BY DEF Return, AtNext
<1>2. /\ Ahead = {b \in Int : b > heap_todo} /\ RootsAhead = {i \in Int : i > root}
      /\ \A n \in N : /\ n \in new_start .. heap_ptr - 1 /\ Wosize_hd(mem[n]) \in Nat
      /\ new_start \in Int /\ heap_ptr \in Int /\ StaticWosize <= new_start
      /\ StaticWosize \in Nat /\ heap_todo \in Int /\ heap_todo < heap_ptr
      /\ Depth = 1 /\ root \in 1 .. Len(Roots) /\ VMTypeOK
  BY <1>1, AheadAtNext
<1>3. PICK loc : loc = Roots[root + 1]
  OBVIOUS
<1>4. root + 1 \in 1 .. Len(Roots) /\ Len(Roots) \in Nat
  BY <1>2, RootsLocations
<1>5. loc \in Int /\ loc < StaticWosize
  <2>1. loc \in RootSet
    BY <1>2, <1>3, <1>4, RootsOnce, SeqElements
  <2>. QED
    BY <2>1, <1>2, RootsOnce
<1>6. /\ root' = root + 1 /\ frames' = <<Call(loc)>>
      /\ UNCHANGED <<ctl, heap_todo, mem, heap_ptr, heap_end, regs, pend, current_heap>>
  <2>1. ~ (Depth > 1)
    BY <1>2
  <2>. QED
    BY <2>1, <1>3 DEF Return
<1>7. Depth' = 1 /\ Top'.at = "start" /\ Top'.ptr = loc /\ Top'.todo = 0
  <2>1. Len(frames') = 1 /\ frames'[1] = Call(loc)
    BY <1>6
  <2>2. Depth' = 1 /\ Top' = Call(loc)
    BY <2>1 DEF Depth, Top
  <2>. QED
    BY <2>2 DEF Call
<1>8. Roots' = Roots
  BY <1>6, SameLocations DEF regs
<1>9. SameAhead(mem, N, Ahead, Ahead', -1)
  <2>1. Ahead' = {a \in Int : a > heap_todo \/ loc = a}
    BY <1>6, <1>7 DEF Ahead
  <2>2. \A n \in N : \A i \in 1 .. Wosize_hd(mem[n]) : n + i \in Int /\ n + i # loc
    BY <1>2, <1>5
  <2>. QED
    BY <2>1, <2>2, <1>2 DEF SameAhead
<1>10. \A i \in 1 .. Len(Roots) : i \in RootsAhead' <=> i \in RootsAhead
  <2>1. RootsAhead' = {i \in Int : i > root + 1 \/ (i = root + 1 /\ loc = Roots[i])}
    BY <1>6, <1>7, <1>8 DEF RootsAhead
  <2>2. \A i \in Int : i > root + 1 \/ (i = root + 1 /\ loc = Roots[i]) <=> i > root
    BY <1>2, <1>3
  <2>. QED
    BY <2>1, <2>2, <1>2
<1>11. ScanOK(N)'
  <2>1. heap_todo' = heap_ptr' - 1 /\ heap_todo' < heap_ptr' /\ Roots'[root'] = loc
    BY <1>1, <1>2, <1>3, <1>6, <1>8
  <2>. QED
    BY <2>1, <1>7 DEF ScanOK
<1>12. Copying(h, O, N, src)'
  BY <1>6, <1>9, <1>10, <1>11, Advance DEF regs
<1>. QED
  BY <1>1, <1>2, <1>6, <1>12

-----------------------------------------------------------------------------
(* The beginning and the end of gc().                                       *)

\* The last root is treated: the half in use is a well-formed heap.
LEMMA LastRootTidy ==
  ASSUME TypeOK, Return, ~ (root < Len(Roots)), NEW h, NEW O, NEW N, NEW src, Copying(h, O, N, src),
         NEW lo, lo = new_start
  PROVE  MachineOK(lo, N)' /\ ctl' = "done" /\ new_start' = lo /\ UNCHANGED pend
<1>1. AtNext /\ heap_todo = heap_ptr - 1
  BY DEF Return
<1>2. /\ Ahead = {b \in Int : b > heap_todo} /\ RootsAhead = {i \in Int : i > root}
      /\ BlocksOK(mem, new_start, heap_ptr, N)
      /\ \A n \in N : /\ n \in new_start .. heap_ptr - 1 /\ Wosize_hd(mem[n]) \in Nat
                      /\ n + Wosize_hd(mem[n]) < heap_ptr
      /\ new_start \in Int /\ heap_ptr \in Int /\ StaticWosize <= new_start
      /\ Depth = 1 /\ root \in 1 .. Len(Roots) /\ VMTypeOK /\ StaticWosize \in Nat
  BY <1>1, AheadAtNext
<1>3. /\ ctl' = "done" /\ UNCHANGED <<mem, heap_ptr, heap_end, regs, pend, current_heap>>
  BY <1>2 DEF Return
<1>4. /\ CopiesOK(mem, O, N, Ahead) /\ RootsOK(O, N, RootsAhead) /\ StaticKept
  BY DEF Copying, CopyOK
<1>5. Len(Roots) \in Nat /\ root = Len(Roots)
  BY <1>2, RootsLocations
<1>6. \A i \in 1 .. Len(Roots) : Value(At(Roots[i]), N)
  <2>1. \A i \in 1 .. Len(Roots) : i \notin RootsAhead
    BY <1>2, <1>5
  <2>. QED
    BY <2>1, <1>4 DEF RootsOK
<1>7. \A loc \in RootSet : Value(At(loc), N)
  <2>1. \A loc \in RootSet : \E i \in 1 .. Len(Roots) : loc = Roots[i]
    BY <1>2, RootsOnce, SeqElements
  <2>. QED
    BY <2>1, <1>6
<1>8. RegsOK(acc, env, stack, globals, N) /\ \A a \in ToSet(StaticFields) : Value(mem[a], N)
  BY <1>2, <1>7, RootsValues
<1>9. FieldsOK(mem, N)
  <2>1. ASSUME NEW n \in N, Tag_hd(mem[n]) < No_scan_tag, NEW i \in 1 .. Wosize_hd(mem[n])
        PROVE  FieldOK(mem, n, i, N)
    <3>1. FieldOK(mem, n, i, IF n + i \in Ahead THEN O ELSE N)
      BY <2>1, <1>4 DEF CopiesOK
    <3>2. n + i \notin Ahead
      BY <1>1, <1>2
    <3>. QED
      BY <3>1, <3>2
  <2>. QED
    BY <2>1 DEF FieldsOK
<1>10. StaticOK(mem, N)
  BY <1>4, <1>8 DEF StaticOK, StaticKept
<1>11. new_start' = lo
  BY <1>3 DEF new_start, tab_heap_start
<1>12. MachineOK(lo, N)
  <2>1. Filled(mem, lo, heap_ptr, N)
    BY DEF Copying, CopyOK, Covered, Filled
  <2>. QED
    BY <2>1, <1>2, <1>8, <1>9, <1>10 DEF MachineOK, HeapOK
<1>13. MachineOK(lo, N)'
  BY <1>3, <1>12 DEF MachineOK, regs
<1>. QED
  BY <1>3, <1>11, <1>13

\* The halves swap, and all roots refer to the half that was in use.
LEMMA GcStartCopying ==
  ASSUME TypeOK, GcStart, NEW B, MachineOK(new_start, B)
  PROVE  \E h, O, N, src : Copying(h, O, N, src)'
<1>1. PICK h, src : h = mem
  OBVIOUS
<1>2. PICK lo, p, hi : lo = new_start /\ p = heap_ptr /\ hi = heap_end
  OBVIOUS
<1>3. /\ current_heap \in {0, 1} /\ heap_end = tab_heap_end(current_heap) /\ VMTypeOK
  BY DEF TypeOK
<1>4. /\ current_heap' = (current_heap + 1) % 2 /\ heap_ptr' = tab_heap_start(current_heap')
      /\ heap_todo' = heap_ptr' - 1 /\ root' = 1 /\ frames' = <<Call(Roots[1])>>
      /\ UNCHANGED <<mem, acc, env, stack, globals>>
  BY DEF GcStart, regs
<1>5. PICK c \in {0, 1} : c = current_heap' /\ (c + 1) % 2 = current_heap
  BY <1>3, <1>4
<1>6. /\ new_start' = heap_ptr' /\ heap_ptr' \in Int
      /\ old_start' = lo /\ old_end' = hi
  <2>1. new_start' = tab_heap_start(c) /\ heap_ptr' = tab_heap_start(c) /\ tab_heap_start(c) \in Nat
    BY <1>4, <1>5, Halves DEF new_start, tab_heap_start
  <2>2. Old' = current_heap
    BY <1>5 DEF Old
  <2>3. old_start' = tab_heap_start(current_heap) /\ old_end' = tab_heap_end(current_heap)
    BY <2>2 DEF old_start, old_end, tab_heap_start, tab_heap_end
  <2>. QED
    BY <2>1, <2>3, <1>2, <1>3 DEF new_start
<1>7. /\ p \in Nat /\ hi \in Nat /\ lo \in Nat /\ p <= hi
  BY <1>2, Geometry
<1>8. /\ BlocksOK(h, lo, p, B) /\ FieldsOK(h, B) /\ StaticOK(h, B)
      /\ RegsOK(acc, env, stack, globals, B)
  BY <1>1, <1>2 DEF MachineOK, HeapOK
<1>9. BlocksOK(h, lo, hi, B)
  <2>1. \A b \in B : /\ b \in lo .. p - 1 /\ BlockHeader(h[b]) /\ b + Wosize_hd(h[b]) < p
                     /\ \A d \in B : d <= b \/ d > b + Wosize_hd(h[b])
    BY <1>8 DEF BlocksOK
  <2>2. ASSUME NEW b \in B PROVE b \in lo .. hi - 1 /\ b + Wosize_hd(h[b]) < hi
    <3>1. PICK z \in Nat : z = Wosize_hd(h[b])
      BY <2>1, HeaderParts
    <3>2. b \in lo .. p - 1 /\ b + z < p
      BY <2>1, <3>1
    <3>. QED
      BY <3>1, <3>2, <1>7
  <2>. QED
    BY <2>1, <2>2 DEF BlocksOK
<1>10. \A loc \in RootSet : Value(At(loc), B)
  <2>1. \A a \in ToSet(StaticFields) : Value(mem[a], B)
    BY <1>1, <1>8, StaticAddresses DEF StaticOK
  <2>. QED
    BY <2>1, <1>3, <1>8, RootsValues
<1>11. PICK k, A : k = heap_ptr' /\ A = Ahead'
  OBVIOUS
<1>12. CopyOK(h, k, k, lo, hi, h, B, {}, src, A)
  <2>1. k .. k - 1 = {}
    <3>1. k \in Int
      BY <1>6, <1>11
    <3>. QED
      BY <3>1
  <2>2. BlocksOK(h, k, k, {}) /\ Covered(h, k, k, {}) /\ SourceOK(h, k, k, h, B, {}, src) /\ CopiesOK(h, B, {}, A)
    BY <2>1 DEF BlocksOK, Covered, SourceOK, CopiesOK
  <2>3. OldOK(h, h, B, {}, src)
    BY <1>8 DEF OldOK, FieldsOK
  <2>. QED
    BY <2>2, <2>3, <1>9 DEF CopyOK
<1>13. CopyOK(mem', new_start', heap_ptr', old_start', old_end', h, B, {}, src, Ahead')
  <2>1. mem' = h
    BY <1>1, <1>4
  <2>. QED
    BY <2>1, <1>6, <1>11, <1>12
<1>14. Roots' = Roots
  BY <1>4, SameLocations
<1>15. Depth' = 1 /\ Top'.at = "start" /\ Top'.ptr = Roots[1] /\ Top'.todo = 0
  <2>1. PICK loc : loc = Roots[1]
    OBVIOUS
  <2>2. Len(frames') = 1 /\ frames'[1] = Call(loc)
    BY <2>1, <1>4
  <2>3. Depth' = 1 /\ Top' = Call(loc)
    BY <2>2 DEF Depth, Top
  <2>. QED
    BY <2>1, <2>3 DEF Call
<1>16. RootsOK(B, {}, RootsAhead)'
  <2>1. Len(Roots) \in Nat
    BY <1>3, RootsLocations
  <2>2. \A i \in 1 .. Len(Roots) : i \in RootsAhead'
    <3>1. RootsAhead' = {i \in Int : i > 1 \/ (i = 1 /\ Roots[1] = Roots[i])}
      BY <1>4, <1>14, <1>15 DEF RootsAhead
    <3>. QED
      BY <2>1, <3>1
  <2>3. \A i \in 1 .. Len(Roots) : Value(At(Roots[i]), B)
    BY <1>3, <1>10, RootsOnce, SeqElements
  <2>4. \A i \in 1 .. Len(Roots) : At(Roots[i])' = At(Roots[i])
    BY <1>4, <1>14 DEF At
  <2>5. \A i \in 1 .. Len(Roots) : Value(At(Roots[i])', IF i \in RootsAhead' THEN B ELSE {})
    BY <2>2, <2>3, <2>4
  <2>. QED
    BY <2>5, <1>14 DEF RootsOK
<1>17. StaticKept'
  BY <1>1, <1>4, <1>8 DEF StaticKept, StaticOK
<1>18. ScanOK({})'
  BY <1>4, <1>6, <1>14, <1>15 DEF ScanOK
<1>19. Copying(h, B, {}, src)'
  BY <1>13, <1>16, <1>17, <1>18 DEF Copying
<1>. QED
  BY <1>19

-----------------------------------------------------------------------------
(* The invariant.                                                           *)

\* The program's steps, up to a call of gc().
LEMMA InstructionKeeps ==
  ASSUME TidyProgram, TypeOK, TypeOK', HeapInv, Instruction, UNCHANGED gcvars
  PROVE  HeapInv'
<1>1. ctl \in {"run", "alloc", "done"} /\ VMTypeOK
  BY InstructionControl DEF TypeOK
<1>2. PendTidy /\ \E B : MachineOK(new_start, B)
  BY <1>1 DEF HeapInv
<1>3. PICK lo : lo = new_start
  OBVIOUS
<1>4. PICK B : MachineOK(lo, B)
  BY <1>2, <1>3
<1>5. lo \in Int /\ lo <= heap_ptr
  BY <1>3, Geometry
<1>6. Tidied(lo)
  BY <1>1, <1>2, <1>4, <1>5, InstructionTidy
<1>7. ctl' # "wild"
  BY <1>1, InstructionEnds
<1>8. new_start' = lo /\ root' = root
  BY <1>3 DEF gcvars, new_start, tab_heap_start
<1>9. root = 0
  BY <1>1 DEF TypeOK
<1>10. PendTidy' /\ \E C : MachineOK(lo, C)'
  BY <1>6 DEF Tidied
<1>11. \E C : MachineOK(new_start, C)'
  BY <1>8, <1>10 DEF MachineOK
<1>. QED
  BY <1>7, <1>8, <1>9, <1>10, <1>11 DEF HeapInv

\* The steps of gc().
LEMMA CollectKeeps ==
  ASSUME TypeOK, HeapInv, Collect
  PROVE  HeapInv'
<1>1. CASE GcStart
  <2>1. ctl = "gc" /\ root = 0 /\ UNCHANGED <<pend, ctl>> /\ root' = 1
    BY <1>1 DEF GcStart
  <2>2. PendTidy /\ \E B : MachineOK(new_start, B)
    BY <2>1 DEF HeapInv
  <2>3. \E h, O, N, src : Copying(h, O, N, src)'
    BY <1>1, <2>2, GcStartCopying
  <2>4. PendTidy'
    BY <2>1, <2>2 DEF PendTidy
  <2>. QED
    BY <2>1, <2>3, <2>4 DEF HeapInv
<1>2. CASE ~ GcStart
  <2>1. ctl = "gc" /\ root > 0
    BY <1>2 DEF Collect, SkipValue, Forward, Copy, Infix, InfixReturn, Misread, Return, OpenBlock,
                NextField, Examined, Examining, AtNext
  <2>2. PendTidy /\ \E h, O, N, src : Copying(h, O, N, src)
    BY <2>1 DEF HeapInv
  <2>3. PICK h, O, N, src : Copying(h, O, N, src)
    BY <2>2
  <2>4. ASSUME \E h2, O2, N2, src2 : Copying(h2, O2, N2, src2)', ctl' = "gc", root' > 0, UNCHANGED pend
        PROVE  HeapInv'
    <3>1. PendTidy'
      BY <2>2, <2>4 DEF PendTidy
    <3>2. root' # 0
      BY <2>4
    <3>. QED
      BY <2>4, <3>1, <3>2 DEF HeapInv
  <2>5. CASE SkipValue
    <3>1. Copying(h, O, N, src)'
      BY <2>3, <2>5, SkipValueCopying
    <3>2. ctl' = "gc" /\ root' > 0 /\ UNCHANGED pend
      BY <2>1, <2>5 DEF SkipValue
    <3>. QED
      BY <3>1, <3>2, <2>4
  <2>6. CASE Forward
    <3>1. Copying(h, O, N, src)'
      BY <2>3, <2>6, ForwardCopying
    <3>2. ctl' = "gc" /\ root' > 0 /\ UNCHANGED pend
      BY <2>1, <2>6 DEF Forward
    <3>. QED
      BY <3>1, <3>2, <2>4
  <2>7. CASE Copy
    <3>1. \E N2, src2 : Copying(h, O, N2, src2)'
      BY <2>3, <2>7, CopyCopying
    <3>2. ctl' = "gc" /\ root' > 0 /\ UNCHANGED pend
      BY <2>1, <2>7 DEF Copy
    <3>. QED
      BY <3>1, <3>2, <2>4
  <2>8. CASE OpenBlock
    BY <2>3, <2>4, <2>8, OpenBlockCopying
  <2>9. CASE NextField
    BY <2>3, <2>4, <2>9, NextFieldCopying
  <2>10. CASE Return
    <3>1. CASE root < Len(Roots)
      BY <2>3, <2>4, <2>10, <3>1, NextRootCopying
    <3>2. CASE ~ (root < Len(Roots))
      <4>1. PICK lo : lo = new_start
        OBVIOUS
      <4>2. MachineOK(lo, N)' /\ ctl' = "done" /\ new_start' = lo /\ UNCHANGED pend
        BY <2>3, <2>10, <3>2, <4>1, LastRootTidy
      <4>3. MachineOK(new_start, N)'
        BY <4>2 DEF MachineOK
      <4>4. PendTidy'
        BY <2>2, <4>2 DEF PendTidy
      <4>. QED
        BY <4>2, <4>3, <4>4 DEF HeapInv
    <3>. QED
      BY <3>1, <3>2
  <2>. QED
    BY <2>3, <2>5, <2>6, <2>7, <2>8, <2>9, <2>10, <1>2, NoMisreading DEF Collect
<1>. QED
  BY <1>1, <1>2

\* The heap is tidy at power-on.
LEMMA InitTidy == ASSUME TidyProgram, Init PROVE HeapInv
<1>1. TypeOK
  BY InitType
<1>2. VMTypeOK /\ ctl = "run" /\ root = 0 /\ pend.op = "none"
  BY <1>1 DEF TypeOK, Init, NoPend
<1>3. PendTidy
  BY <1>2 DEF PendTidy
<1>4. heap_ptr = new_start /\ new_start \in Nat /\ new_start >= StaticWosize
  BY <1>1, Geometry DEF Init, new_start
<1>5. BlocksOK(mem, new_start, heap_ptr, {}) /\ FieldsOK(mem, {})
  BY DEF BlocksOK, FieldsOK
<1>6. StaticOK(mem, {})
  <2>1. \A a \in 0 .. StaticWosize - 1 : mem[a] = StaticHeap[a + 1]
    <3>1. \A a \in 0 .. StaticWosize - 1 : a \in 0 .. HeapWosize - 1 /\ a < StaticWosize
      BY <1>1, Geometry
    <3>. QED
      BY <3>1 DEF Init
  <2>. QED
    BY <2>1 DEF StaticOK, TidyProgram
<1>7. RegsOK(acc, env, stack, globals, {})
  <2>1. Value(acc, {}) /\ Value(env, {})
    BY ImmediateValue DEF Init
  <2>2. \A i \in 1 .. Len(globals) : globals[i] \in Values({})
    BY <1>2, ValueMember, SeqElements DEF Init, TidyProgram, VMTypeOK
  <2>3. Len(globals) \in Nat /\ globals \in [1 .. Len(globals) -> Values({})]
    BY <1>2, <2>2 DEF VMTypeOK
  <2>4. globals \in Seq(Values({})) /\ stack \in Seq(Values({}))
    BY <2>3, FunctionSeq DEF Init
  <2>. QED
    BY <2>1, <2>4 DEF RegsOK
<1>8. MachineOK(new_start, {})
  <2>1. Filled(mem, new_start, heap_ptr, {})
    BY <1>4 DEF Filled
  <2>. QED
    BY <2>1, <1>4, <1>5, <1>6, <1>7 DEF MachineOK, HeapOK
<1>. QED
  BY <1>2, <1>3, <1>8 DEF HeapInv

\* Every step keeps the invariant.
LEMMA NextTidy == ASSUME TidyProgram, TypeOK, HeapInv, [Next]_vars PROVE HeapInv'
<1>1. CASE Instruction /\ UNCHANGED gcvars
  BY <1>1, ProgramType, InstructionKeeps
<1>2. CASE Collect
  BY <1>2, CollectKeeps
<1>3. CASE UNCHANGED vars
  <2>1. UNCHANGED <<mem, heap_ptr, heap_end, acc, env, stack, globals, pend, ctl,
                    current_heap, heap_todo, root, frames>>
    BY <1>3 DEF vars, vmvars, gcvars
  <2>2. /\ PendTidy' = PendTidy /\ new_start' = new_start /\ old_start' = old_start /\ old_end' = old_end
    BY <2>1 DEF PendTidy, new_start, old_start, old_end, Old, tab_heap_start, tab_heap_end
  <2>3. \A lo, B : MachineOK(lo, B)' <=> MachineOK(lo, B)
    BY <2>1 DEF MachineOK
  <2>4. Ahead' = Ahead /\ Roots' = Roots
    BY <2>1, SameLocations DEF Ahead, Top, Depth
  <2>5. RootsAhead' = RootsAhead
    BY <2>1, <2>4 DEF RootsAhead, Top, Depth
  <2>6. \A h, O, N, src : Copying(h, O, N, src) => Copying(h, O, N, src)'
    <3>1. TAKE h, O, N, src
    <3>2. SUFFICES ASSUME Copying(h, O, N, src) PROVE Copying(h, O, N, src)'
      OBVIOUS
    <3>3. ScanOK(N)'
      BY <2>1, <2>4, <3>2 DEF Copying, ScanOK, InBlock, Between, Top, Depth
    <3>4. SameAhead(mem, N, Ahead, Ahead', -1)
      BY <2>4 DEF SameAhead
    <3>. QED
      BY <2>1, <2>5, <3>2, <3>3, <3>4, Advance
  <2>. QED
    BY <2>1, <2>2, <2>3, <2>6 DEF HeapInv, MachineOK
<1>. QED
  BY <1>1, <1>2, <1>3 DEF Next, GcStep

\* gc_one_val never goes astray while a tidy program runs: whenever it follows a
\* pointer it finds a header there, or the black header and the new address it
\* has left itself; the copy always fits in the half in use; and heap_todo runs
\* over whole blocks, so a header is never taken for a field nor the bytes of a
\* string for pointers.  At no point of any run does the machine go wild.
THEOREM StopCopySafe == TidyProgram /\ Spec => []MemorySafe
<1>1. TidyProgram /\ Init => HeapInv
  BY InitTidy
<1>2. TidyProgram /\ TypeOK /\ HeapInv /\ [Next]_vars => HeapInv'
  BY NextTidy
<1>3. HeapInv => MemorySafe
  BY DEF HeapInv, MemorySafe
<1>4. SUFFICES ASSUME TidyProgram PROVE Spec => []MemorySafe
  OBVIOUS
<1>5. Init => HeapInv
  BY <1>1, <1>4
<1>6. TypeOK /\ HeapInv /\ [Next]_vars => HeapInv'
  BY <1>2, <1>4
<1>. QED
  BY <1>3, <1>5, <1>6, TypeCorrect, PTL DEF Spec

-----------------------------------------------------------------------------
(* Cheney's invariant.                                                      *)

\* CopiedFields holds fields of copied blocks only.
ScannedField(a, N) ==
  \E n \in N : Tag_hd(mem[n]) < No_scan_tag /\ a \in n + 1 .. n + Wosize_hd(mem[n])

\* Every field that Cheney's invariant speaks of is one of a block of values.
LEMMA CopiedFieldsScanned ==
  ASSUME TypeOK, NEW N, BlocksOK(mem, new_start, heap_ptr, N), Covered(mem, new_start, heap_ptr, N)
  PROVE  \A a \in CopiedFields : ScannedField(a, N)
<1>. DEFINE next(a) == a + Wosize_hd(mem[a]) + 1
            Own(a) == IF Tag_hd(mem[a]) < No_scan_tag THEN a + 1 .. next(a) - 1 ELSE {}
            EqU(f) == f = [a \in new_start .. heap_ptr |->
                             IF a < heap_ptr /\ next(a) \in a + 1 .. heap_ptr
                               THEN f[next(a)] \cup Own(a) ELSE {}]
            nx == [a \in new_start .. heap_ptr |-> next(a)]
            e  == [a \in new_start .. heap_ptr |-> Own(a)]
<1>1. new_start \in Nat /\ heap_ptr \in Nat /\ new_start <= heap_ptr
  BY Geometry
<1>2. \E f : EqU(f)
  <2>1. new_start \in Int /\ heap_ptr \in Int
    BY <1>1
  <2>2. \E f : f = [a \in new_start .. heap_ptr |-> IF a < heap_ptr /\ nx[a] \in a + 1 .. heap_ptr
                                                       THEN f[nx[a]] \cup e[a] ELSE {}]
    <3>1. PICK lo, hi, y, u : lo = new_start /\ hi = heap_ptr /\ y = nx /\ u = e
      OBVIOUS
    <3>2. lo \in Int /\ hi \in Int /\ lo <= hi
      BY <1>1, <3>1
    <3>3. \E f : Upward(f, lo, hi, y, u)
      <4>. HIDE DEF nx, e
      <4>. QED
        BY <3>2, UpwardUnion
    <3>4. PICK f : Upward(f, lo, hi, y, u)
      BY <3>3
    <3>5. f = [a \in new_start .. heap_ptr |-> IF a < heap_ptr /\ nx[a] \in a + 1 .. heap_ptr
                                                THEN f[nx[a]] \cup e[a] ELSE {}]
      <4>. HIDE DEF nx, e
      <4>. QED
        BY <3>1, <3>4 DEF Upward
    <3>. HIDE DEF nx, e
    <3>. QED
      BY <3>5
  <2>3. PICK f : f = [a \in new_start .. heap_ptr |-> IF a < heap_ptr /\ nx[a] \in a + 1 .. heap_ptr
                                                         THEN f[nx[a]] \cup e[a] ELSE {}]
    BY <2>2
  <2>4. \A a \in new_start .. heap_ptr : nx[a] = next(a) /\ e[a] = Own(a)
    OBVIOUS
  <2>5. \A a \in new_start .. heap_ptr :
          (IF a < heap_ptr /\ nx[a] \in a + 1 .. heap_ptr THEN f[nx[a]] \cup e[a] ELSE {})
            = IF a < heap_ptr /\ next(a) \in a + 1 .. heap_ptr THEN f[next(a)] \cup Own(a) ELSE {}
    BY <2>4
  <2>6. EqU(f)
    <3>. HIDE DEF nx, e
    <3>. QED
      BY <2>3, <2>5
  <2>. HIDE DEF EqU
  <2>. QED
    BY <2>6
<1>3. CopiedFields = (CHOOSE f : EqU(f))[new_start]
  BY DEF CopiedFields, new_start
<1>4. EqU(CHOOSE f : EqU(f))
  <2>. HIDE DEF EqU
  <2>. QED
    BY <1>2
<1>5. PICK f : f = CHOOSE g : EqU(g)
  OBVIOUS
<1>6. EqU(f) /\ CopiedFields = f[new_start]
  <2>. HIDE DEF EqU
  <2>. QED
    BY <1>3, <1>4, <1>5
<1>7. \A a \in new_start .. heap_ptr :
        f[a] = IF a < heap_ptr /\ next(a) \in a + 1 .. heap_ptr THEN f[next(a)] \cup Own(a) ELSE {}
  BY <1>6
<1>8. \A n \in N : /\ n \in new_start .. heap_ptr - 1 /\ Wosize_hd(mem[n]) \in Nat
                   /\ n + Wosize_hd(mem[n]) < heap_ptr /\ next(n) \in N \cup {heap_ptr}
  <2>1. \A n \in N : /\ n \in new_start .. heap_ptr - 1 /\ Wosize_hd(mem[n]) \in Nat
                     /\ n + Wosize_hd(mem[n]) < heap_ptr
    BY HeaderParts DEF BlocksOK
  <2>2. new_start \in Int /\ heap_ptr \in Int
    BY <1>1
  <2>3. \A n \in N : n + Wosize_hd(mem[n]) + 1 \in N \cup {heap_ptr}
    BY <2>2, NextBlock
  <2>. QED
    BY <2>1, <2>3
<1>. DEFINE Good(a) == \A x \in f[a] : ScannedField(x, N)
            S == {k \in Nat : \A a \in N \cup {heap_ptr} : heap_ptr - a <= k => Good(a)}
<1>9. Good(heap_ptr)
  <2>1. f[heap_ptr] = {}
    <3>1. heap_ptr \in new_start .. heap_ptr /\ ~ (heap_ptr < heap_ptr)
      BY <1>1
    <3>. HIDE DEF next, Own
    <3>. QED
      BY <3>1, <1>7
  <2>. QED
    BY <2>1
<1>10. 0 \in S
  <2>1. \A a \in N \cup {heap_ptr} : heap_ptr - a <= 0 => a = heap_ptr
    BY <1>1, <1>8
  <2>. HIDE DEF Good
  <2>. QED
    BY <2>1, <1>9
<1>11. ASSUME NEW k \in S PROVE k + 1 \in S
  <2>1. k \in Nat /\ \A a \in N \cup {heap_ptr} : heap_ptr - a <= k => Good(a)
    OBVIOUS
  <2>2. ASSUME NEW a \in N \cup {heap_ptr}, heap_ptr - a <= k + 1 PROVE Good(a)
    <3>1. CASE a = heap_ptr
      BY <3>1, <1>9
    <3>2. CASE a \in N
      <4>1. PICK z \in Nat : z = Wosize_hd(mem[a])
        BY <3>2, <1>8
      <4>2. PICK b : b = next(a)
        OBVIOUS
      <4>3. a \in Int /\ a >= new_start /\ a < heap_ptr /\ b = a + z + 1 /\ b <= heap_ptr /\ b \in N \cup {heap_ptr}
        BY <3>2, <4>1, <4>2, <1>1, <1>8
      <4>4. Good(b)
        <5>1. heap_ptr - b <= k
          BY <2>1, <2>2, <4>1, <4>3, <1>1
        <5>. HIDE DEF Good
        <5>. QED
          BY <5>1, <4>3, <2>1
      <4>5. f[a] = f[b] \cup Own(a)
        <5>1. a \in new_start .. heap_ptr /\ a < heap_ptr /\ b \in a + 1 .. heap_ptr
          BY <4>1, <4>3, <1>1
        <5>. HIDE DEF Own
        <5>. QED
          BY <5>1, <4>2, <1>7
      <4>6. \A x \in Own(a) : ScannedField(x, N)
        <5>1. next(a) - 1 = a + Wosize_hd(mem[a])
          BY <4>1, <4>3
        <5>. QED
          BY <5>1, <3>2 DEF ScannedField
      <4>. QED
        BY <4>4, <4>5, <4>6
    <3>. QED
      BY <3>1, <3>2
  <2>. HIDE DEF Good
  <2>. QED
    BY <2>1, <2>2
<1>12. S = Nat
  <2>1. S \in SUBSET Nat
    OBVIOUS
  <2>. HIDE DEF S
  <2>. QED
    BY <2>1, <1>10, <1>11, Induction
<1>13. new_start \in N \cup {heap_ptr}
  <2>1. new_start \in Int /\ heap_ptr \in Int
    BY <1>1
  <2>. QED
    BY <2>1, <1>1, FirstBlock
<1>14. Good(new_start)
  <2>1. heap_ptr - new_start \in S
    <3>1. heap_ptr - new_start \in Nat
      BY <1>1
    <3>. HIDE DEF S
    <3>. QED
      BY <3>1, <1>12
  <2>2. heap_ptr - new_start <= heap_ptr - new_start
    BY <1>1
  <2>. HIDE DEF Good
  <2>. QED
    BY <2>1, <2>2, <1>13
<1>. QED
  BY <1>6, <1>14

\* In which half values point.
LEMMA HalfOfValue ==
  ASSUME TypeOK, NEW h, NEW O, NEW N, NEW src, Copying(h, O, N, src), NEW w
  PROVE  /\ Value(w, N) => ~ InOldHalf(w)
         /\ Value(w, O) => (Is_block_in_dynamic_heap(w) => InOldHalf(w))
         /\ w.kind = "code" => ~ Is_block_in_dynamic_heap(w)
<1>1. /\ new_start \in Nat /\ old_start \in Nat /\ old_end \in Nat /\ heap_ptr \in Nat /\ heap_end \in Nat
      /\ heap_ptr <= heap_end /\ (heap_end <= old_start \/ old_end <= new_start)
  BY Geometry
<1>2. /\ new_start = tab_heap_start(current_heap) /\ heap_end = tab_heap_end(current_heap)
  BY DEF TypeOK, new_start
<1>3. /\ \A o \in O : o \in old_start .. old_end - 1 /\ o + 1 < old_end
      /\ \A n \in N : n \in new_start .. heap_ptr - 1 /\ n + 1 < heap_ptr
  <2>1. BlocksOK(h, old_start, old_end, O) /\ BlocksOK(mem, new_start, heap_ptr, N)
    BY DEF Copying, CopyOK
  <2>2. ASSUME NEW o \in O PROVE o \in old_start .. old_end - 1 /\ o + 1 < old_end
    <3>1. PICK z \in Nat : z = Wosize_hd(h[o]) /\ z > 0
      BY <2>1, HeaderParts DEF BlocksOK
    <3>2. o \in old_start .. old_end - 1 /\ o + z < old_end
      BY <2>1, <3>1 DEF BlocksOK
    <3>. QED
      BY <3>1, <3>2, <1>1
  <2>3. ASSUME NEW n \in N PROVE n \in new_start .. heap_ptr - 1 /\ n + 1 < heap_ptr
    <3>1. PICK z \in Nat : z = Wosize_hd(mem[n]) /\ z > 0
      BY <2>1, HeaderParts DEF BlocksOK
    <3>2. n \in new_start .. heap_ptr - 1 /\ n + z < heap_ptr
      BY <2>1, <3>1 DEF BlocksOK
    <3>. QED
      BY <3>1, <3>2, <1>1
  <2>. QED
    BY <2>2, <2>3
<1>4. ASSUME NEW B, Value(w, B), Is_block_in_dynamic_heap(w) PROVE w.at \in Int /\ w.at - 1 \in B
  BY <1>4 DEF Value, Word, Is_block_in_dynamic_heap
<1>5. Value(w, N) => ~ InOldHalf(w)
  <2>1. SUFFICES ASSUME Value(w, N), Is_block_in_dynamic_heap(w) PROVE w.at \in new_start .. heap_end
    BY <1>2 DEF InOldHalf
  <2>2. w.at \in Int /\ w.at - 1 \in new_start .. heap_ptr - 1 /\ (w.at - 1) + 1 < heap_ptr
    BY <2>1, <1>3, <1>4
  <2>. QED
    BY <2>2, <1>1
<1>6. ASSUME Value(w, O), Is_block_in_dynamic_heap(w) PROVE InOldHalf(w)
  <2>1. w.at \in Int /\ w.at - 1 \in old_start .. old_end - 1 /\ (w.at - 1) + 1 < old_end
    BY <1>3, <1>4, <1>6
  <2>2. w.at \notin new_start .. heap_end
    BY <2>1, <1>1
  <2>. QED
    BY <2>2, <1>2, <1>6 DEF InOldHalf
<1>. QED
  BY <1>5, <1>6 DEF Is_block_in_dynamic_heap

\* The ghost old heap gives the tricolour invariant.
LEMMA CheneyHolds ==
  ASSUME TypeOK, HeapInv
  PROVE  CheneyInvariant
<1>1. SUFFICES ASSUME ctl = "gc", root > 0
               PROVE  /\ heap_todo < heap_ptr
                      /\ \A i \in 1 .. root - 1 : Settled(Roots[i])
                      /\ \A i \in root + 1 .. Len(Roots) : Pending(Roots[i])
                      /\ \A a \in CopiedFields :
                           IF a > heap_todo \/ a \in InHand THEN Pending(a) ELSE Settled(a)
  BY DEF CheneyInvariant
<1>2. PICK h, O, N, src : Copying(h, O, N, src)
  BY <1>1 DEF HeapInv
<1>3. /\ CopyOK(mem, new_start, heap_ptr, old_start, old_end, h, O, N, src, Ahead)
      /\ RootsOK(O, N, RootsAhead) /\ heap_todo < heap_ptr /\ Depth = 1
      /\ (Top.at = "start" \/ Top.at = "next") /\ VMTypeOK /\ root \in 1 .. Len(Roots) /\ Len(Roots) \in Nat
  BY <1>1, <1>2, Active, RootsLocations DEF Copying, ScanOK
<1>4. /\ \A w : Value(w, N) => ~ InOldHalf(w)
      /\ \A w : Value(w, O) => (Is_block_in_dynamic_heap(w) => InOldHalf(w))
      /\ \A w : w.kind = "code" => ~ Is_block_in_dynamic_heap(w)
  BY <1>2, HalfOfValue
<1>5. \A i \in 1 .. Len(Roots) : Load(Roots[i]) = At(Roots[i])
  BY <1>3, RootsOnce, SeqElements, LoadAt
<1>6. ASSUME NEW i \in 1 .. root - 1 PROVE Settled(Roots[i])
  <2>1. i \in 1 .. Len(Roots) /\ i \notin RootsAhead
    BY <1>3 DEF RootsAhead
  <2>2. Value(At(Roots[i]), N)
    BY <2>1, <1>3 DEF RootsOK
  <2>. QED
    BY <2>1, <2>2, <1>4, <1>5 DEF Settled
<1>7. ASSUME NEW i \in root + 1 .. Len(Roots) PROVE Pending(Roots[i])
  <2>1. i \in 1 .. Len(Roots) /\ i \in RootsAhead
    BY <1>3 DEF RootsAhead
  <2>2. Value(At(Roots[i]), O)
    BY <2>1, <1>3 DEF RootsOK
  <2>. QED
    BY <2>1, <2>2, <1>4, <1>5 DEF Pending
<1>8. InHand = IF Top.at = "start" THEN {Top.ptr} ELSE {}
  <2>1. InHand = {frames[i].ptr : i \in {k \in {1} : frames[k].at # "next"}}
    <3>1. 1 .. Depth = {1}
      BY <1>3
    <3>. QED
      BY <3>1 DEF InHand
  <2>2. Top = frames[1]
    BY <1>3 DEF Top
  <2>. QED
    BY <2>1, <2>2, <1>3
<1>9. ASSUME NEW a \in CopiedFields
      PROVE  IF a > heap_todo \/ a \in InHand THEN Pending(a) ELSE Settled(a)
  <2>1. BlocksOK(mem, new_start, heap_ptr, N) /\ Covered(mem, new_start, heap_ptr, N)
    BY <1>3 DEF CopyOK
  <2>2. PICK n \in N : Tag_hd(mem[n]) < No_scan_tag /\ a \in n + 1 .. n + Wosize_hd(mem[n])
    BY <2>1, CopiedFieldsScanned DEF ScannedField
  <2>3. PICK z \in Nat : z = Wosize_hd(mem[n]) /\ n \in new_start .. heap_ptr - 1 /\ n + z < heap_ptr
    BY <2>1, HeaderParts DEF BlocksOK
  <2>4. new_start \in Nat /\ heap_ptr \in Nat /\ HeapWosize \in Nat /\ heap_ptr <= heap_end /\ heap_end <= HeapWosize
        /\ heap_end \in Nat
    BY Geometry
  <2>5. PICK i : i = a - n
    OBVIOUS
  <2>6. n \in Int /\ a \in Int /\ i \in 1 .. z /\ a = n + i /\ a \in 0 .. HeapWosize - 1 /\ a >= 0
    BY <2>2, <2>3, <2>4, <2>5
  <2>7. Load(a) = mem[a]
    BY <2>6, <1>3, LoadAt
  <2>8. FieldOK(mem, n, i, IF a \in Ahead THEN O ELSE N)
    BY <2>2, <2>3, <2>6, <1>3 DEF CopyOK, CopiesOK
  <2>9. mem[a].kind = "code" \/ Value(mem[a], IF a \in Ahead THEN O ELSE N)
    BY <2>6, <2>8 DEF FieldOK, IsCode
  <2>10. a \in Ahead <=> a > heap_todo \/ a \in InHand
    BY <2>6, <1>8 DEF Ahead
  <2>11. CASE a \in Ahead
    BY <2>7, <2>9, <2>10, <2>11, <1>4 DEF Pending
  <2>12. CASE a \notin Ahead
    <3>1. ~ InOldHalf(mem[a])
      BY <2>9, <2>12, <1>4 DEF InOldHalf
    <3>. QED
      BY <3>1, <2>7, <2>10, <2>12 DEF Settled
  <2>. QED
    BY <2>11, <2>12
<1>. QED
  BY <1>3, <1>6, <1>7, <1>9

\* Between any two steps of gc(), while a tidy program runs, what the collector
\* has passed (the roots before root, the words of the copies up to heap_todo but
\* for the one gc_one_val has in hand) refers to nothing in the half being
\* emptied, and what is ahead of it to nothing in the half in use: no word is
\* treated twice, and none is forgotten when the half is abandoned.
THEOREM Cheney == TidyProgram /\ Spec => []CheneyInvariant
<1>1. SUFFICES ASSUME TidyProgram PROVE Spec => []CheneyInvariant
  OBVIOUS
<1>2. Init => HeapInv
  BY <1>1, InitTidy
<1>3. TypeOK /\ HeapInv /\ [Next]_vars => HeapInv'
  BY <1>1, NextTidy
<1>4. TypeOK /\ HeapInv => CheneyInvariant
  BY CheneyHolds
<1>. QED
  BY <1>2, <1>3, <1>4, TypeCorrect, PTL DEF Spec
=============================================================================
