---------------------------- MODULE MutatorProofs ----------------------------
(***************************************************************************)
(* What Mutator's instructions do to the collectors' invariants.           *)
(*                                                                         *)
(* Every instruction keeps VMTypeOK: words stay words, the stack and the   *)
(* blocks stay in their bounds, and an instruction interrupted by gc()     *)
(* finds its operands afterwards (InstructionType).                        *)
(*                                                                         *)
(* Every instruction of a tidy program also keeps MachineOK: the headers   *)
(* lead from block to block, and every variable, field and static field is *)
(* a value that points, if it points, to the first field of one of the     *)
(* blocks (InstructionTidy).                                               *)
(***************************************************************************)
EXTENDS Mutator, SequenceTheorems, WellFoundedInduction, FiniteSetTheorems, TLAPS

\* The heap is as long as its two parts.
LEMMA HeapWosizeNat == StaticWosize \in Nat /\ HeapWosize \in Nat
  BY WordsAssumption, SizesAssumption DEF StaticWosize, HeapWosize

-----------------------------------------------------------------------------
(* Words.                                                                   *)

\* A header made with Make_header is a word.
LEMMA HeaderWord ==
  ASSUME NEW size \in Nat, NEW tag \in Nat, NEW id \in Int
  PROVE  Make_header(size, tag, id) \in Word
  BY DEF Make_header, Word, Color_white

\* A pointer made with Val_dynamic_block is a word, and has its address.
LEMMA PointerWord ==
  ASSUME NEW a \in Int
  PROVE  Val_dynamic_block(a) \in Word /\ Val_dynamic_block(a).at = a
  BY DEF Val_dynamic_block, Word

\* (), a word nothing has written yet and code pointers are words.
LEMMA ImmediateWord ==
  /\ Val_unit \in Word /\ Undef \in Word
  /\ \A n \in Int : Code(n) \in Word
  BY DEF Val_unit, Val_int, Undef, Code, Val_codeptr, Word

\* A word that is a header has all the fields of one.
LEMMA IdOfHeader ==
  ASSUME NEW w \in Word, IsHd(w)
  PROVE  w \in [kind : {"hd"}, tag : Nat, size : Nat, low : 0 .. 3, id : Int]
  BY DEF Word, IsHd

\* A word that is a pointer has an address.
LEMMA BlockAddress ==
  ASSUME NEW w \in Word, Is_block(w)
  PROVE  w.at \in Int /\ w \in [kind : {"dyn", "static"}, at : Int, low : 0 .. 3]
  BY DEF Word, Is_block

\* The identity of a new block, history of its header, is an integer.
LEMMA FreshIdInt == FreshId \in Int
<1>1. CASE \E n \in 1 .. DynamicWosize : Smallest(n)
  BY <1>1, SizesAssumption DEF FreshId
<1>2. CASE ~ \E n \in 1 .. DynamicWosize : Smallest(n)
  BY <1>2 DEF FreshId
<1>3. QED BY <1>1, <1>2

-----------------------------------------------------------------------------
(* Sequences.                                                               *)

\* What sp += n leaves of the stack.
LEMMA DropSeq ==
  ASSUME NEW S, NEW s \in Seq(S), NEW n \in 0 .. Len(s)
  PROVE  Drop(s, n) \in Seq(S) /\ Len(Drop(s, n)) = Len(s) - n
  BY DEF Drop

\* The n words on top of the stack.
LEMMA TakeSeq ==
  ASSUME NEW S, NEW s \in Seq(S), NEW n \in 0 .. Len(s)
  PROVE  Take(s, n) \in Seq(S) /\ Len(Take(s, n)) = n
  BY DEF Take

\* A function on 1 .. n is a sequence of length n.
LEMMA FunctionSeq ==
  ASSUME NEW S, NEW n \in Nat, NEW f \in [1 .. n -> S]
  PROVE  f \in Seq(S) /\ Len(f) = n
  OBVIOUS

\* Concatenation keeps the set of elements and adds the lengths.
LEMMA ConcatSeq ==
  ASSUME NEW S, NEW s \in Seq(S), NEW t \in Seq(S)
  PROVE  s \o t \in Seq(S) /\ Len(s \o t) = Len(s) + Len(t)
  OBVIOUS

\* Pushing a word on the stack.
LEMMA PushSeq ==
  ASSUME NEW S, NEW s \in Seq(S), NEW x \in S
  PROVE  <<x>> \o s \in Seq(S) /\ Len(<<x>> \o s) = Len(s) + 1
  OBVIOUS

-----------------------------------------------------------------------------
(* Blocks.                                                                  *)

\* The fields of a block that is no infix header are words of the heap.
LEMMA BlockFields ==
  ASSUME VMTypeOK, NEW w \in Word, IsBlockPtr(mem, w), Tag_hd(Hd_val(mem, w)) # Infix_tag
  PROVE  /\ w.at \in Nat \ {0} /\ Wosize_hd(Hd_val(mem, w)) \in Nat
         /\ w.at + Wosize_hd(Hd_val(mem, w)) <= HeapWosize
         /\ \A i \in 0 .. Wosize_hd(Hd_val(mem, w)) - 1 : Field(mem, w, i) \in Word
         /\ Hd_val(mem, w) \in Word /\ IsHd(Hd_val(mem, w))
<1>1. w.at \in Int
  BY BlockAddress DEF IsBlockPtr
<1>2. w.at - 1 \in 0 .. HeapWosize - 1 /\ Hd_val(mem, w) \in Word /\ IsHd(Hd_val(mem, w))
  BY <1>1 DEF IsBlockPtr, InHeap, Hd_val, VMTypeOK
<1>3. Wosize_hd(Hd_val(mem, w)) \in Nat
  BY <1>2, IdOfHeader DEF Wosize_hd
<1>4. StartOf(mem, w) = w
  BY DEF StartOf
<1>5. w.at + Wosize_hd(Hd_val(mem, w)) <= HeapWosize
  BY <1>4 DEF IsBlockPtr, Hd_val
<1>6. \A i \in 0 .. Wosize_hd(Hd_val(mem, w)) - 1 : Field(mem, w, i) \in Word
  <2> TAKE i \in 0 .. Wosize_hd(Hd_val(mem, w)) - 1
  <2>1. w.at + i \in 0 .. HeapWosize - 1
    BY <1>1, <1>2, <1>3, <1>5, HeapWosizeNat
  <2>2. QED BY <2>1 DEF Field, VMTypeOK
<1>7. QED BY <1>1, <1>2, <1>3, <1>5, <1>6

\* What GETFIELD and the primitives read of a block of data: all its fields
\* are words, in the heap.
LEMMA DataFields ==
  ASSUME VMTypeOK, NEW w \in Word, IsData(w)
  PROVE  /\ w.at \in Nat \ {0} /\ Wosize_hd(Hd_val(mem, w)) \in Nat
         /\ w.at + Wosize_hd(Hd_val(mem, w)) <= HeapWosize
         /\ \A i \in 0 .. Wosize_hd(Hd_val(mem, w)) - 1 : Field(mem, w, i) \in Word
         /\ w.kind \in {"dyn", "static"}
         /\ Hd_val(mem, w) \in Word /\ IsHd(Hd_val(mem, w))
<1>1. IsBlockPtr(mem, w) /\ Tag_hd(Hd_val(mem, w)) # Infix_tag
  BY DEF IsData, Infix_tag
<1>2. w.kind \in {"dyn", "static"}
  BY <1>1 DEF IsBlockPtr, Is_block
<1>3. QED BY <1>1, <1>2, BlockFields

-----------------------------------------------------------------------------
(* The steps the instructions share.                                        *)

HeapKept == heap_end' = heap_end /\ heap_ptr' >= heap_ptr

\* The heap's part of the type invariant.
HeapTyped ==
  /\ mem \in [0 .. HeapWosize - 1 -> Word]
  /\ heap_ptr \in Nat /\ heap_end \in 0 .. HeapWosize /\ heap_ptr <= heap_end

\* Stack_overflow and Out_of_memory, caught or not, leave the registers and the
\* stack typed; what the instruction did to the heap is up to it.
LEMMA RaiseRegsType ==
  ASSUME VMTypeOK, NEW st \in Seq(Word), Len(st) <= StackWosize, Raise(st), HeapTyped'
  PROVE  VMTypeOK'
<1>1. acc' \in Word /\ env' \in Word
  BY ImmediateWord DEF Raise, Exn, VMTypeOK
<1>2. stack' \in Seq(Word) /\ Len(stack') <= StackWosize
  <2>1. << >> \in Seq(Word) /\ Len(<< >>) <= StackWosize
    BY SizesAssumption
  <2>2. stack' = << >> \/ stack' = st
    BY DEF Raise
  <2>3. QED BY <2>1, <2>2
<1>3. PendOK'
  BY DEF Raise, NoPend, PendOK
<1>4. QED
  BY <1>1, <1>2, <1>3 DEF Raise, NoPend, VMTypeOK, HeapTyped

\* An instruction that raises before it touches the heap disturbs nothing.
LEMMA RaiseType ==
  ASSUME VMTypeOK, Raise(stack), UNCHANGED heap
  PROVE  VMTypeOK' /\ HeapKept
<1>1. HeapTyped' /\ HeapKept
  BY DEF VMTypeOK, HeapTyped, HeapKept, heap, HeapWosize, StaticWosize
<1>2. stack \in Seq(Word) /\ Len(stack) <= StackWosize
  BY DEF VMTypeOK
<1>3. QED BY <1>1, <1>2, RaiseRegsType

\* Loading a word in acc disturbs nothing.
LEMMA SetAccType ==
  ASSUME VMTypeOK, NEW w \in Word, SetAcc(w)
  PROVE  VMTypeOK' /\ HeapKept
  BY DEF VMTypeOK, SetAcc, PendOK, heap, HeapKept, Readable, HeapWosize, StaticWosize

\* Nothing inside OCamlAlloc: pend says nothing about the stack.
LEMMA NoPendOK ==
  ASSUME VMTypeOK, pend.op = "none", UNCHANGED pend
  PROVE  PendOK'
  BY DEF VMTypeOK, PendOK

\* Reaching OCamlAlloc with a stack that fits, and with operands that the
\* instruction will find after gc().
LEMMA BeginType ==
  ASSUME VMTypeOK, NEW op, NEW size, NEW tag, NEW n, NEW args, NEW st \in Seq(Word),
         Begin(op, size, tag, n, args, st), op # "none",
         Len(st) <= StackWosize /\ stack' = st
           /\ pend' = [op |-> op, size |-> size, tag |-> tag, n |-> n, args |-> args]
           => PendOK'
  PROVE  VMTypeOK' /\ HeapKept
<1>1. CASE Len(st) > StackWosize
  BY <1>1, RaiseType DEF Begin
<1>2. CASE ~ (Len(st) > StackWosize)
  <2>1. Len(st) <= StackWosize
    BY <1>2, SizesAssumption
  <2>2. PendOK'
    BY <1>2, <2>1 DEF Begin
  <2>3. QED BY <1>2, <2>1, <2>2 DEF Begin, VMTypeOK, heap, HeapKept, HeapWosize, StaticWosize
<1>3. QED BY <1>1, <1>2

\* Writing a block for which the test of OCamlAlloc found room: it ends at or
\* before heap_end, so every word of it is in the heap.
LEMMA WriteType ==
  ASSUME VMTypeOK, ~ Full(pend.size), NEW fs \in Seq(Word), Write(fs)
  PROVE  HeapTyped' /\ HeapKept
<1> DEFINE hd == Make_header(pend.size, pend.tag, FreshId)
<1>1. hd \in Word
  BY FreshIdInt, HeaderWord DEF VMTypeOK, PendOK
<1>2. mem' \in [0 .. HeapWosize - 1 -> Word]
  <2> HIDE DEF hd
  <2>1. mem' = [a \in 0 .. HeapWosize - 1 |->
                 IF a = heap_ptr THEN hd
                 ELSE IF a - heap_ptr \in DOMAIN fs THEN fs[a - heap_ptr] ELSE mem[a]]
    BY DEF Write, hd, VMTypeOK
  <2>2. \A i \in DOMAIN fs : fs[i] \in Word
    OBVIOUS
  <2>3. QED BY <1>1, <2>1, <2>2 DEF VMTypeOK
<1>3. heap_ptr' \in Nat /\ heap_ptr' <= heap_end /\ heap_ptr' >= heap_ptr
  <2>1. heap_ptr \in Nat /\ heap_end \in Nat /\ pend.size \in Nat
    BY HeapWosizeNat DEF VMTypeOK, PendOK
  <2>2. heap_ptr' = heap_ptr + 1 + pend.size
    BY DEF Write
  <2>3. heap_ptr + pend.size + 1 <= heap_end
    BY <2>1 DEF Full
  <2>4. QED BY <2>1, <2>2, <2>3
<1>4. QED
  BY <1>2, <1>3 DEF Write, VMTypeOK, HeapTyped, HeapKept, HeapWosize, StaticWosize

\* The instruction that wrote it ends with it in acc.
LEMMA BuildType ==
  ASSUME VMTypeOK, ~ Full(pend.size), NEW fs \in Seq(Word), NEW st \in Seq(Word),
         Len(st) <= StackWosize, Build(fs, st)
  PROVE  VMTypeOK' /\ HeapKept
<1>1. HeapTyped' /\ HeapKept
  BY WriteType DEF Build
<1>2. acc' \in Word
  BY PointerWord DEF Build, VMTypeOK
<1>3. PendOK'
  BY DEF Build, NoPend, PendOK
<1>4. QED
  BY <1>1, <1>2, <1>3 DEF Build, NoPend, VMTypeOK, HeapTyped

-----------------------------------------------------------------------------
(* Instructions that do not allocate.                                       *)

\* Instructions that move words between acc, env, stack and globals.
LEMMA RegisterInstructionsType ==
  ASSUME VMTypeOK, ACC \/ PUSH \/ POP \/ ASSIGN \/ CONST \/ GETGLOBAL \/ SETGLOBAL \/ APPTERM1
  PROVE  VMTypeOK' /\ HeapKept
<1> USE DEF VMTypeOK
<1>1. CASE ACC
  BY <1>1, SetAccType DEF ACC
<1>2. CASE PUSH
  <2>1. CASE Len(stack) >= StackWosize
    BY <1>2, <2>1, RaiseType DEF PUSH
  <2>2. CASE ~ (Len(stack) >= StackWosize)
    <3>1. stack' = <<acc>> \o stack /\ UNCHANGED <<heap, acc, env, globals, pend, ctl>> /\ ctl = "run"
      BY <1>2, <2>2 DEF PUSH, Running
    <3>2. PendOK'
      BY <3>1 DEF PendOK
    <3>3. stack' \in Seq(Word) /\ Len(stack') <= StackWosize
      BY <2>2, <3>1, PushSeq, SizesAssumption
    <3>4. QED BY <3>1, <3>2, <3>3 DEF heap, HeapKept, HeapWosize, StaticWosize
  <2>3. QED BY <2>1, <2>2
<1>3. CASE POP
  <2>1. PICK n \in 1 .. Len(stack) : stack' = Drop(stack, n)
    BY <1>3 DEF POP
  <2>2. stack' \in Seq(Word) /\ Len(stack') <= StackWosize
    BY <2>1, DropSeq, SizesAssumption
  <2>3. UNCHANGED <<heap, acc, env, globals, pend, ctl>> /\ ctl = "run"
    BY <1>3 DEF POP, Running
  <2>4. PendOK'
    BY <2>3 DEF PendOK
  <2>5. QED BY <2>2, <2>3, <2>4 DEF heap, HeapKept, HeapWosize, StaticWosize
<1>4. CASE ASSIGN
  <2>1. UNCHANGED <<heap, env, globals, pend, ctl>> /\ ctl = "run" /\ acc' = Val_unit
    BY <1>4 DEF ASSIGN, Running
  <2>2. stack' \in Seq(Word) /\ Len(stack') = Len(stack)
    BY <1>4 DEF ASSIGN
  <2>3. PendOK'
    BY <2>1 DEF PendOK
  <2>4. QED BY <2>1, <2>2, <2>3, ImmediateWord DEF heap, HeapKept, HeapWosize, StaticWosize
<1>5. CASE CONST
  BY <1>5, SetAccType, WordsAssumption DEF CONST
<1>6. CASE GETGLOBAL
  BY <1>6, SetAccType DEF GETGLOBAL
<1>7. CASE SETGLOBAL
  <2>1. UNCHANGED <<heap, env, stack, pend, ctl>> /\ acc' = Val_unit
    BY <1>7 DEF SETGLOBAL
  <2>2. globals' \in Seq(Word) /\ Len(globals') = Len(globals)
    BY <1>7 DEF SETGLOBAL
  <2>3. PendOK'
    BY <1>7, <2>1 DEF PendOK, SETGLOBAL, Running
  <2>4. QED BY <2>1, <2>2, <2>3, ImmediateWord DEF heap, HeapKept, HeapWosize, StaticWosize
<1>8. CASE APPTERM1
  <2>1. /\ UNCHANGED <<heap, acc, globals, pend, ctl>> /\ env' = acc /\ ctl = "run"
        /\ stack # << >>
    BY <1>8 DEF APPTERM1, Running
  <2>2. PICK n \in 1 .. Len(stack) : stack' = <<Head(stack)>> \o Drop(stack, n)
    BY <1>8 DEF APPTERM1
  <2>3. Drop(stack, n) \in Seq(Word) /\ Len(Drop(stack, n)) = Len(stack) - n /\ Head(stack) \in Word
    BY <2>1, DropSeq
  <2>4. stack' \in Seq(Word) /\ Len(stack') <= StackWosize
    BY <2>2, <2>3, PushSeq, SizesAssumption
  <2>5. PendOK'
    BY <2>1 DEF PendOK
  <2>6. QED BY <2>1, <2>4, <2>5 DEF heap, HeapKept, HeapWosize, StaticWosize
<1>9. QED BY <1>1, <1>2, <1>3, <1>4, <1>5, <1>6, <1>7, <1>8

\* Instructions that read or write a field of a block.
LEMMA FieldInstructionsType ==
  ASSUME VMTypeOK, GETFIELD \/ SETFIELD \/ ENVACC \/ OFFSETCLOSURE
  PROVE  VMTypeOK' /\ HeapKept
<1>1. CASE GETFIELD
  <2>1. PICK i \in 0 .. Wosize_hd(Hd_val(mem, acc)) - 1 : SetAcc(Field(mem, acc, i))
    BY <1>1 DEF GETFIELD
  <2>2. Field(mem, acc, i) \in Word
    BY <1>1, DataFields DEF GETFIELD, VMTypeOK
  <2>3. QED BY <2>1, <2>2, SetAccType
<1>2. CASE SETFIELD
  <2>1. /\ UNCHANGED <<heap_ptr, heap_end, env, globals, pend, ctl>> /\ ctl = "run"
        /\ acc' = Val_unit /\ stack' = Tail(stack) /\ stack # << >>
    BY <1>2 DEF SETFIELD, Running
  <2>2. PICK i \in 0 .. Wosize_hd(Hd_val(mem, acc)) - 1 :
          mem' = [mem EXCEPT ![acc.at + i] = Head(stack)]
    BY <1>2 DEF SETFIELD
  <2>3. Head(stack) \in Word
    BY <2>1 DEF VMTypeOK
  <2>4. mem' \in [0 .. HeapWosize - 1 -> Word]
    BY <2>2, <2>3 DEF VMTypeOK
  <2>5. Tail(stack) \in Seq(Word) /\ Len(Tail(stack)) <= StackWosize
    BY <2>1, SizesAssumption DEF VMTypeOK
  <2>6. PendOK'
    BY <2>1 DEF PendOK, VMTypeOK
  <2>7. QED
    BY <2>1, <2>4, <2>5, <2>6, ImmediateWord DEF VMTypeOK, HeapKept, HeapWosize, StaticWosize
<1>3. CASE ENVACC
  <2>1. PICK i \in EnvOffsets : SetAcc(Field(mem, env, i))
    BY <1>3 DEF ENVACC
  <2>2. Field(mem, env, i) \in Word
    <3> DEFINE s == StartOf(mem, env)
    <3>1. IsBlockPtr(mem, env)
      BY <1>3 DEF ENVACC, IsClosure
    <3>2. env.at \in Int /\ env.at - 1 \in 0 .. HeapWosize - 1
      BY <3>1, BlockAddress DEF IsBlockPtr, InHeap, VMTypeOK
    <3>3. /\ s.at + Wosize_hd(mem[s.at - 1]) <= HeapWosize
          /\ s.at \in Int /\ Wosize_hd(mem[s.at - 1]) \in Nat
      <4>1. s = env \/ s = [env EXCEPT !.at = @ - Wosize_hd(Hd_val(mem, env))]
        BY DEF StartOf
      <4>2. Wosize_hd(Hd_val(mem, env)) \in Nat
        BY <3>1, <3>2, IdOfHeader DEF IsBlockPtr, Hd_val, VMTypeOK, Wosize_hd
      <4>3. s.at \in Int
        BY <3>1, <3>2, <4>1, <4>2, BlockAddress DEF IsBlockPtr, VMTypeOK
      <4>4. InHeap(s.at - 1) /\ IsHd(mem[s.at - 1])
        BY <3>1 DEF IsBlockPtr
      <4>5. Wosize_hd(mem[s.at - 1]) \in Nat
        BY <4>4, IdOfHeader DEF InHeap, VMTypeOK, Wosize_hd
      <4>6. QED BY <3>1, <4>3, <4>5 DEF IsBlockPtr
    <3>4. env.at + i \in 0 .. HeapWosize - 1
      <4>1. i \in 0 .. s.at + Wosize_hd(mem[s.at - 1]) - env.at - 1
        BY <2>1 DEF EnvOffsets, Hd_val
      <4>2. QED BY <3>2, <3>3, <4>1, HeapWosizeNat
    <3>5. QED BY <3>4 DEF Field, VMTypeOK
  <2>3. QED BY <2>1, <2>2, SetAccType
<1>4. CASE OFFSETCLOSURE
  <2>1. PICK a \in StartOf(mem, env).at .. env.at + 2 : SetAcc(Val_dynamic_block(a))
    BY <1>4 DEF OFFSETCLOSURE
  <2>2. a \in Int
    BY <2>1
  <2>3. QED BY <2>1, <2>2, PointerWord, SetAccType
<1>5. QED BY <1>1, <1>2, <1>3, <1>4

-----------------------------------------------------------------------------
(* Instructions up to OCamlAlloc.                                           *)

\* A part of a block of data may be copied later: its words are in the heap.
LEMMA DataReadable ==
  ASSUME VMTypeOK, NEW w \in Word, IsData(w),
         NEW ofs \in Nat, NEW n \in Nat, ofs + n <= Wosize_hd(Hd_val(mem, w))
  PROVE  Readable(w, ofs, n)
  BY DataFields, HeapWosizeNat DEF Readable

\* MAKEBLOCK, CLOSURE, CLOSUREREC and the primitives that make a block, up
\* to OCamlAlloc.
LEMMA BlockInstructionsType ==
  ASSUME VMTypeOK, MAKEBLOCK \/ CLOSURE \/ CLOSUREREC \/ CreateBytes \/ AllocDummy \/ MakeVect
  PROVE  VMTypeOK' /\ HeapKept
<1> stack \in Seq(Word) /\ acc \in Word
  BY DEF VMTypeOK
<1>1. CASE MAKEBLOCK
  <2>1. PICK n \in MakeSizes :
          n - 1 <= Len(stack) /\ Begin("MAKEBLOCK", n, 0, n, << >>, stack)
    BY <1>1 DEF MAKEBLOCK
  <2>2. n \in Nat \ {0}
    BY SizesAssumption
  <2>3. QED BY <2>1, <2>2, BeginType DEF PendOK
<1>2. CASE CLOSURE
  <2>1. PICK n \in EnvSizes :
          /\ n - 1 <= Len(stack)
          /\ Begin("CLOSURE", n + 1, Closure_tag, n, << >>,
                   IF n # 0 THEN <<acc>> \o stack ELSE stack)
    BY <1>2 DEF CLOSURE
  <2> DEFINE st == IF n # 0 THEN <<acc>> \o stack ELSE stack
  <2>2. n \in Nat
    BY SizesAssumption
  <2>3. st \in Seq(Word) /\ n <= Len(st)
    BY <2>1, <2>2, PushSeq
  <2> HIDE DEF st
  <2>4. Begin("CLOSURE", n + 1, Closure_tag, n, << >>, st)
    BY <2>1 DEF st
  <2>5. QED BY <2>2, <2>3, <2>4, BeginType DEF PendOK, Closure_tag
<1>3. CASE CLOSUREREC
  <2>1. PICK f \in RecFuns, v \in EnvSizes :
          /\ v - 1 <= Len(stack)
          /\ Begin("CLOSUREREC", 2 * f - 1 + v, Closure_tag, f, << >>,
                   IF v > 0 THEN <<acc>> \o stack ELSE stack)
    BY <1>3 DEF CLOSUREREC
  <2> DEFINE st == IF v > 0 THEN <<acc>> \o stack ELSE stack
  <2>2. v \in Nat /\ f \in Nat \ {0}
    BY SizesAssumption
  <2>3. st \in Seq(Word) /\ v <= Len(st)
    BY <2>1, <2>2, PushSeq
  <2> HIDE DEF st
  <2>4. Begin("CLOSUREREC", 2 * f - 1 + v, Closure_tag, f, << >>, st)
    BY <2>1 DEF st
  <2>5. 2 * f - 1 + v \in Nat /\ (2 * f - 1 + v) - (2 * f - 1) = v
    BY <2>2
  <2>6. QED BY <2>2, <2>3, <2>4, <2>5, BeginType DEF PendOK, Closure_tag
<1>4. CASE CreateBytes
  BY <1>4, BeginType DEF CreateBytes, PendOK, String_tag
<1>5. CASE AllocDummy
  <2>1. PICK n \in MakeSizes : Begin("caml_alloc_dummy", n, 0, n, << >>, stack)
    BY <1>5 DEF AllocDummy
  <2>2. n \in Nat
    BY SizesAssumption
  <2>3. QED BY <2>1, <2>2, BeginType DEF PendOK
<1>6. CASE MakeVect
  <2>1. PICK n \in MakeSizes : Begin("caml_make_vect", n, 0, n, <<Head(stack)>>, stack)
    BY <1>6 DEF MakeVect
  <2>2. n \in Nat /\ stack # << >> /\ Head(stack) \in Word
    BY <1>6, SizesAssumption DEF MakeVect
  <2>3. QED BY <2>1, <2>2, BeginType DEF PendOK
<1>7. QED BY <1>1, <1>2, <1>3, <1>4, <1>5, <1>6

\* The primitives that copy blocks, up to OCamlAlloc: what they will read lies
\* in the heap; and a call of gc().
LEMMA CopyInstructionsType ==
  ASSUME VMTypeOK, ObjDup \/ ArraySub \/ ArrayAppend \/ GcRun
  PROVE  VMTypeOK' /\ HeapKept
<1> stack \in Seq(Word) /\ acc \in Word
  BY DEF VMTypeOK
<1>1. CASE ObjDup
  <2> DEFINE n == Wosize_hd(Hd_val(mem, acc))
  <2>1. n \in Nat /\ Readable(acc, 0, n)
    BY <1>1, DataFields, DataReadable DEF ObjDup
  <2>2. Begin("caml_obj_dup", n, 0, 1, <<acc>>, stack)
    BY <1>1 DEF ObjDup
  <2> HIDE DEF n
  <2>3. QED BY <2>1, <2>2, BeginType DEF PendOK, Readable, HeapWosize, StaticWosize
<1>2. CASE ArraySub
  <2>1. PICK ofs \in 0 .. Wosize_hd(Hd_val(mem, acc)) :
          \E len \in 0 .. Wosize_hd(Hd_val(mem, acc)) - ofs :
            Begin("caml_array_sub", len, 0, ofs, <<acc>>, stack)
    BY <1>2 DEF ArraySub
  <2>2. PICK len \in 0 .. Wosize_hd(Hd_val(mem, acc)) - ofs :
          Begin("caml_array_sub", len, 0, ofs, <<acc>>, stack)
    BY <2>1
  <2>3. IsData(acc) /\ Wosize_hd(Hd_val(mem, acc)) \in Nat
    BY <1>2, DataFields DEF ArraySub
  <2>4. ofs \in Nat /\ len \in Nat /\ Readable(acc, ofs, len)
    BY <2>3, DataReadable
  <2>5. QED BY <2>2, <2>4, BeginType DEF PendOK, Readable, HeapWosize, StaticWosize
<1>3. CASE ArrayAppend
  <2> DEFINE m == Wosize_hd(Hd_val(mem, acc))
             n == Wosize_hd(Hd_val(mem, Head(stack)))
  <2>1. stack # << >> /\ Head(stack) \in Word
    BY <1>3 DEF ArrayAppend
  <2>2. m \in Nat /\ n \in Nat /\ Readable(acc, 0, m) /\ Readable(Head(stack), 0, n)
    BY <1>3, <2>1, DataFields, DataReadable DEF ArrayAppend
  <2>3. Begin("caml_array_append", m + n, 0, m, <<acc, Head(stack)>>, stack)
    BY <1>3 DEF ArrayAppend
  <2> HIDE DEF m, n
  <2>4. m + n \in Nat /\ m <= m + n /\ (m + n) - m = n
    BY <2>2
  <2>5. ASSUME stack' = stack,
               pend' = [op |-> "caml_array_append", size |-> m + n, tag |-> 0, n |-> m,
                        args |-> <<acc, Head(stack)>>]
        PROVE  PendOK'
    <3>1. Readable(pend'.args[1], 0, pend'.n) /\ Readable(pend'.args[2], 0, pend'.size - pend'.n)
      BY <2>2, <2>4, <2>5
    <3>2. QED BY <2>1, <2>2, <2>4, <2>5, <3>1 DEF PendOK, Readable, HeapWosize, StaticWosize
  <2>6. QED BY <2>3, <2>4, <2>5, BeginType
<1>4. CASE GcRun
  BY <1>4 DEF GcRun, VMTypeOK, PendOK, NoPend, heap, regs, HeapKept, HeapWosize, StaticWosize
<1>5. QED BY <1>1, <1>2, <1>3, <1>4

\* caml_update_dummy writes only inside the dummy block.
LEMMA UpdateDummyType ==
  ASSUME VMTypeOK, UpdateDummy
  PROVE  VMTypeOK' /\ HeapKept
<1> DEFINE w == Head(stack)
           h == Hd_val(mem, w)
<1>1. /\ stack # << >> /\ IsData(acc) /\ IsData(w) /\ ctl = "run"
      /\ acc' = Val_unit /\ stack' = Tail(stack)
      /\ UNCHANGED <<heap_ptr, heap_end, env, globals, pend, ctl>>
      /\ mem' = [a \in DOMAIN mem |->
                   IF a = acc.at - 1 THEN [h EXCEPT !.id = mem[a].id]
                   ELSE IF a \in acc.at .. acc.at + Wosize_hd(h) - 1
                     THEN Field(mem, w, a - acc.at)
                   ELSE mem[a]]
  BY DEF UpdateDummy, Running
<1>2. w \in Word /\ Tail(stack) \in Seq(Word) /\ Len(Tail(stack)) <= StackWosize
  BY <1>1, SizesAssumption DEF VMTypeOK
<1>3. /\ h \in Word /\ IsHd(h) /\ Wosize_hd(h) \in Nat
      /\ \A i \in 0 .. Wosize_hd(h) - 1 : Field(mem, w, i) \in Word
  BY <1>1, <1>2, DataFields
<1>4. /\ acc \in Word /\ acc.at \in Nat \ {0}
      /\ mem[acc.at - 1] \in Word /\ IsHd(mem[acc.at - 1])
  BY <1>1, DataFields DEF VMTypeOK, Hd_val
<1>5. [h EXCEPT !.id = mem[acc.at - 1].id] \in Word
  BY <1>3, <1>4, IdOfHeader DEF Word
<1> HIDE DEF w, h
<1>6. mem' \in [0 .. HeapWosize - 1 -> Word]
  <2>1. \A a \in acc.at .. acc.at + Wosize_hd(h) - 1 : Field(mem, w, a - acc.at) \in Word
    BY <1>3, <1>4
  <2>2. QED BY <1>1, <1>5, <2>1 DEF VMTypeOK
<1>7. PendOK'
  BY <1>1 DEF PendOK, VMTypeOK
<1>8. QED
  BY <1>1, <1>2, <1>6, <1>7, ImmediateWord DEF VMTypeOK, HeapKept, HeapWosize, StaticWosize

-----------------------------------------------------------------------------
(* Instructions from OCamlAlloc on.                                         *)

\* The words that a primitive copies from a C local are words of the heap.
LEMMA CopiedWords ==
  ASSUME VMTypeOK, NEW w, NEW ofs \in Nat, NEW n \in Nat, Readable(w, ofs, n)
  PROVE  Copied(w, ofs, n) \in Seq(Word)
<1>1. \A i \in 1 .. n : w.at + (ofs + i - 1) \in 0 .. HeapWosize - 1
  BY HeapWosizeNat DEF Readable
<1>2. \A i \in 1 .. n : Field(mem, w, ofs + i - 1) \in Word
  BY <1>1 DEF Field, VMTypeOK
<1>3. QED BY <1>2 DEF Copied

\* The n words an instruction takes from the stack, and the rest of it, which
\* still fits in ocaml_stack.
LEMMA SplitStack ==
  ASSUME stack \in Seq(Word), Len(stack) <= StackWosize, NEW n \in 0 .. Len(stack)
  PROVE  /\ Take(stack, n) \in Seq(Word) /\ Drop(stack, n) \in Seq(Word)
         /\ Len(Drop(stack, n)) <= StackWosize
<1>1. Take(stack, n) \in Seq(Word)
  BY TakeSeq
<1>2. Drop(stack, n) \in Seq(Word) /\ Len(Drop(stack, n)) = Len(stack) - n
  BY DropSeq
<1>3. Len(stack) - n <= StackWosize
  BY SizesAssumption
<1>4. QED BY <1>1, <1>2, <1>3

\* The instructions that build a block from acc and the stack, from OCamlAlloc
\* on: the operands are still there after gc().
LEMMA BuildBlocksType ==
  ASSUME VMTypeOK, ~ Full(pend.size),
         \/ pend.op = "MAKEBLOCK" /\ BuildBlock
         \/ pend.op = "CLOSURE" /\ BuildClosure
         \/ pend.op = "CLOSUREREC" /\ BuildClosureRec
         \/ BuildBytes \/ BuildDummy
  PROVE  VMTypeOK' /\ HeapKept
<1> stack \in Seq(Word) /\ acc \in Word /\ Len(stack) <= StackWosize /\ pend.n \in Nat
  BY DEF VMTypeOK, PendOK
<1>1. CASE pend.op = "MAKEBLOCK" /\ BuildBlock
  <2>1. pend.n - 1 \in 0 .. Len(stack)
    BY <1>1 DEF VMTypeOK, PendOK
  <2>2. /\ Take(stack, pend.n - 1) \in Seq(Word) /\ Drop(stack, pend.n - 1) \in Seq(Word)
        /\ Len(Drop(stack, pend.n - 1)) <= StackWosize
    BY <2>1, SplitStack
  <2>3. <<acc>> \o Take(stack, pend.n - 1) \in Seq(Word)
    BY <2>2, PushSeq
  <2>4. QED BY <1>1, <2>2, <2>3, BuildType DEF BuildBlock
<1>2. CASE pend.op = "CLOSURE" /\ BuildClosure
  <2>1. pend.n \in 0 .. Len(stack)
    BY <1>2 DEF VMTypeOK, PendOK
  <2>2. /\ Take(stack, pend.n) \in Seq(Word) /\ Drop(stack, pend.n) \in Seq(Word)
        /\ Len(Drop(stack, pend.n)) <= StackWosize
    BY <2>1, SplitStack
  <2>3. <<Code(0)>> \o Take(stack, pend.n) \in Seq(Word)
    BY <2>2, PushSeq, ImmediateWord
  <2>4. QED BY <1>2, <2>2, <2>3, BuildType DEF BuildClosure
<1>3. CASE pend.op = "CLOSUREREC" /\ BuildClosureRec
  <2> DEFINE f    == pend.n
             v    == pend.size - (2 * f - 1)
             code == [k \in 1 .. 2 * f - 1 |->
                        IF k % 2 = 1 THEN Code(k \div 2) ELSE Make_header(k, Infix_tag, 0)]
             new  == [i \in 1 .. f |-> Val_dynamic_block(heap_ptr + 1 + 2 * (f - i))]
             st   == new \o Drop(stack, v)
  <2>1. f \in Nat \ {0} /\ v \in 0 .. Len(stack) /\ heap_ptr \in Nat
    BY <1>3 DEF VMTypeOK, PendOK
  <2>2. code \in Seq(Word)
    <3>1. 2 * f - 1 \in Nat
      BY <2>1
    <3>2. \A k \in 1 .. 2 * f - 1 : Make_header(k, Infix_tag, 0) \in Word
      BY HeaderWord DEF Infix_tag
    <3>3. \A k \in 1 .. 2 * f - 1 : Code(k \div 2) \in Word
      BY ImmediateWord
    <3>4. code \in [1 .. 2 * f - 1 -> Word]
      BY <3>2, <3>3
    <3> HIDE DEF code
    <3>5. QED BY <3>1, <3>4, FunctionSeq
  <2>3. new \in Seq(Word)
    <3>1. \A i \in 1 .. f : Val_dynamic_block(heap_ptr + 1 + 2 * (f - i)) \in Word
      BY <2>1, PointerWord
    <3>2. new \in [1 .. f -> Word]
      BY <3>1
    <3> HIDE DEF new
    <3>3. QED BY <2>1, <3>2, FunctionSeq
  <2>4. Take(stack, v) \in Seq(Word) /\ Drop(stack, v) \in Seq(Word)
    BY <2>1, TakeSeq, DropSeq
  <2>5. st \in Seq(Word) /\ code \o Take(stack, v) \in Seq(Word)
    <3> HIDE DEF f, v, code, new
    <3>1. QED BY <2>2, <2>3, <2>4, ConcatSeq
  <2>6. IF Len(st) > StackWosize
          THEN Write(code \o Take(stack, v)) /\ Raise(Drop(st, Len(st) - StackWosize))
          ELSE Build(code \o Take(stack, v), st)
    BY <1>3 DEF BuildClosureRec
  <2> HIDE DEF f, v, code, new, st
  <2>7. CASE Len(st) > StackWosize
    <3>1. HeapTyped' /\ HeapKept
      BY <2>5, <2>6, <2>7, WriteType
    <3>2. Len(st) - StackWosize \in 0 .. Len(st) /\ Len(st) - (Len(st) - StackWosize) = StackWosize
      BY <2>5, <2>7, SizesAssumption
    <3>3. /\ Drop(st, Len(st) - StackWosize) \in Seq(Word)
          /\ Len(Drop(st, Len(st) - StackWosize)) <= StackWosize
      BY <2>5, <3>2, DropSeq, SizesAssumption
    <3>4. QED BY <2>6, <2>7, <3>1, <3>3, RaiseRegsType
  <2>8. CASE ~ (Len(st) > StackWosize)
    <3>1. Build(code \o Take(stack, v), st)
      BY <2>6, <2>8
    <3>2. Len(st) <= StackWosize
      BY <2>5, <2>8, SizesAssumption
    <3>3. QED BY <2>5, <3>1, <3>2, BuildType
  <2>9. QED BY <2>7, <2>8
<1>4. CASE BuildBytes
  <2>1. PICK w \in RawWords : Build(<<w>>, stack)
    BY <1>4 DEF BuildBytes
  <2>2. <<w>> \in Seq(Word)
    BY WordsAssumption
  <2>3. QED BY <2>1, <2>2, BuildType
<1>5. CASE BuildDummy
  <2>1. [i \in 1 .. pend.n |-> Make_header(0, 0, 0)] \in Seq(Word)
    BY HeaderWord
  <2>2. QED BY <1>5, <2>1, BuildType DEF BuildDummy
<1>6. QED BY <1>1, <1>2, <1>3, <1>4, <1>5

\* The primitives that build a block from their C locals, from OCamlAlloc on.
LEMMA BuildCopiesType ==
  ASSUME VMTypeOK, ~ Full(pend.size),
         \/ pend.op = "caml_obj_dup" /\ BuildDup
         \/ pend.op = "caml_make_vect" /\ BuildVect
         \/ pend.op = "caml_array_sub" /\ BuildSub
         \/ pend.op = "caml_array_append" /\ BuildAppend
  PROVE  VMTypeOK' /\ HeapKept
<1> stack \in Seq(Word) /\ Len(stack) <= StackWosize /\ pend.n \in Nat /\ pend.size \in Nat
  BY DEF VMTypeOK, PendOK
<1>1. CASE pend.op = "caml_obj_dup" /\ BuildDup
  <2>1. Readable(pend.args[1], 0, pend.size)
    BY <1>1 DEF VMTypeOK, PendOK
  <2>2. Copied(pend.args[1], 0, pend.size) \in Seq(Word)
    BY <2>1, CopiedWords
  <2>3. QED BY <1>1, <2>2, BuildType DEF BuildDup
<1>2. CASE pend.op = "caml_make_vect" /\ BuildVect
  <2>1. pend.args[1] \in Word /\ stack # << >>
    BY <1>2 DEF VMTypeOK, PendOK
  <2>2. [i \in 1 .. pend.n |-> pend.args[1]] \in Seq(Word)
    BY <2>1
  <2>3. Tail(stack) \in Seq(Word) /\ Len(Tail(stack)) <= StackWosize
    BY <2>1, SizesAssumption
  <2>4. QED BY <1>2, <2>2, <2>3, BuildType DEF BuildVect
<1>3. CASE pend.op = "caml_array_sub" /\ BuildSub
  <2>1. Readable(pend.args[1], pend.n, pend.size)
    BY <1>3 DEF VMTypeOK, PendOK
  <2>2. Copied(pend.args[1], pend.n, pend.size) \in Seq(Word)
    BY <2>1, CopiedWords
  <2>3. QED BY <1>3, <2>2, BuildType DEF BuildSub
<1>4. CASE pend.op = "caml_array_append" /\ BuildAppend
  <2>1. /\ stack # << >> /\ pend.n <= pend.size
        /\ Readable(pend.args[1], 0, pend.n) /\ Readable(pend.args[2], 0, pend.size - pend.n)
    BY <1>4 DEF VMTypeOK, PendOK
  <2>2. /\ Copied(pend.args[1], 0, pend.n) \in Seq(Word)
        /\ Copied(pend.args[2], 0, pend.size - pend.n) \in Seq(Word)
    BY <2>1, CopiedWords
  <2>3. Tail(stack) \in Seq(Word) /\ Len(Tail(stack)) <= StackWosize
    BY <2>1, SizesAssumption
  <2>4. Copied(pend.args[1], 0, pend.n) \o Copied(pend.args[2], 0, pend.size - pend.n)
          \in Seq(Word)
    BY <2>2, ConcatSeq
  <2>5. QED BY <1>4, <2>3, <2>4, BuildType DEF BuildAppend
<1>5. QED BY <1>1, <1>2, <1>3, <1>4

\* Out_of_memory or the block, and the return from caml_gc_run.
LEMMA AllocateType ==
  ASSUME VMTypeOK, OCamlAlloc \/ GcRunReturns
  PROVE  VMTypeOK' /\ HeapKept
<1>1. CASE OCamlAlloc /\ Full(pend.size)
  BY <1>1, RaiseType DEF OCamlAlloc
<1>2. CASE OCamlAlloc /\ ~ Full(pend.size)
  BY <1>2, BuildBlocksType, BuildCopiesType DEF OCamlAlloc, Allocate
<1>3. CASE GcRunReturns
  <2>1. PendOK'
    BY <1>3 DEF GcRunReturns, NoPend, PendOK
  <2>2. QED
    BY <1>3, <2>1, ImmediateWord
    DEF GcRunReturns, NoPend, VMTypeOK, heap, HeapKept, HeapWosize, StaticWosize
<1>4. QED BY <1>1, <1>2, <1>3

-----------------------------------------------------------------------------
\* Every instruction keeps the types and the bounds of the machine, leaves
\* heap_end alone and frees nothing.
THEOREM InstructionType ==
  ASSUME VMTypeOK, Instruction
  PROVE  VMTypeOK' /\ HeapKept
<1>1. CASE ACC \/ PUSH \/ POP \/ ASSIGN \/ CONST \/ GETGLOBAL \/ SETGLOBAL \/ APPTERM1
  BY <1>1, RegisterInstructionsType
<1>2. CASE GETFIELD \/ SETFIELD \/ ENVACC \/ OFFSETCLOSURE
  BY <1>2, FieldInstructionsType
<1>3. CASE MAKEBLOCK \/ CLOSURE \/ CLOSUREREC \/ CreateBytes \/ AllocDummy \/ MakeVect
  BY <1>3, BlockInstructionsType
<1>4. CASE ObjDup \/ ArraySub \/ ArrayAppend \/ GcRun
  BY <1>4, CopyInstructionsType
<1>5. CASE UpdateDummy
  BY <1>5, UpdateDummyType
<1>6. CASE OCamlAlloc \/ GcRunReturns
  BY <1>6, AllocateType
<1>7. QED BY <1>1, <1>2, <1>3, <1>4, <1>5, <1>6 DEF Instruction

-----------------------------------------------------------------------------
(* A heap whose blocks have their headers at the addresses B.               *)

\* The words but pointers that a program handles: those it starts with, (), and
\* what caml_alloc_dummy puts in a field, the header of an empty block.
Immediate ==
  Constants \cup ToSet(InitialGlobals) \cup {StaticHeap[a + 1] : a \in ToSet(StaticFields)}
    \cup {Val_unit, Make_header(0, 0, 0)}

\* w may be in a variable or a field: a pointer to one of the blocks or to a
\* static block, or an immediate; code pointers are only in closures.
Value(w, B) ==
  /\ w \in Word /\ w.kind # "code"
  /\ w.kind \notin {"dyn", "static"} => w \in Immediate
  /\ w.kind = "dyn" => w.low = 0 /\ w.at - 1 \in B
  /\ w.kind = "static" => w.low = 0 /\ w.at \in ToSet(StaticBlocks)

\* A header a block may have between two collections.
BlockHeader(h) ==
  h \in Word /\ IsHd(h) /\ h.low = Color_white /\ Tag_hd(h) # Infix_tag /\ Wosize_hd(h) > 0

\* The blocks lie between lo and hi, and none in another.
BlocksOK(m, lo, hi, B) ==
  \A b \in B :
    /\ b \in lo .. hi - 1 /\ BlockHeader(m[b]) /\ b + Wosize_hd(m[b]) < hi
    /\ \A c \in B : c <= b \/ c > b + Wosize_hd(m[b])

\* A code pointer is odd.
IsCode(w) == w.kind = "code" /\ w.low # Color_black

\* Field i of the block at b: the code of a closure or a value.
FieldOK(m, b, i, B) ==
  IF Tag_hd(m[b]) = Closure_tag /\ i = 1 THEN IsCode(m[b + i]) ELSE Value(m[b + i], B)

FieldsOK(m, B) ==
  \A b \in B : Tag_hd(m[b]) < No_scan_tag =>
    \A i \in 1 .. Wosize_hd(m[b]) : FieldOK(m, b, i, B)

\* The fields of static blocks are values; nothing else changes there.
StaticOK(m, B) ==
  \A a \in 0 .. StaticWosize - 1 :
    IF a \in ToSet(StaticFields) THEN Value(m[a], B) ELSE m[a] = StaticHeap[a + 1]

\* Nothing lies between the blocks but what caml_update_dummy leaves of a dummy
\* block: headers of empty blocks.
Filled(m, lo, hi, B) ==
  \A a \in lo .. hi - 1 :
    (\E b \in B : a \in b .. b + Wosize_hd(m[b])) \/ m[a] = Make_header(0, 0, 0)

HeapOK(m, lo, hi, B) ==
  BlocksOK(m, lo, hi, B) /\ FieldsOK(m, B) /\ StaticOK(m, B) /\ Filled(m, lo, hi, B)

Values(B) == {w \in Word : Value(w, B)}

RegsOK(a, e, s, g, B) ==
  /\ Value(a, B) /\ Value(e, B) /\ s \in Seq(Values(B)) /\ g \in Seq(Values(B))

MachineOK(lo, B) ==
  lo >= StaticWosize /\ HeapOK(mem, lo, heap_ptr, B) /\ RegsOK(acc, env, stack, globals, B)

(* A tidy program keeps clear of the three constructs that break what the   *)
(* collectors assume: a primitive that keeps a pointer in a C local over    *)
(* OCamlAlloc (obj.c, array.c), a block without a field (caml_make_vect,    *)
(* caml_array_sub and caml_array_append make those as well), and a pointer  *)
(* to an infix header of mutually recursive closures.  What it starts from  *)
(* is what bc2c emits: static data refers to static blocks only, and static *)
(* headers are Color_white.                                                 *)
TidyProgram ==
  /\ Opcodes \cap {"caml_obj_dup", "caml_make_vect", "caml_array_sub", "caml_array_append"} = {}
  /\ "CLOSUREREC" \in Opcodes => RecFuns \subseteq {1}
  /\ \A w \in Constants \cup ToSet(InitialGlobals) : Value(w, {}) /\ ~ IsHd(w)
  /\ \A a \in ToSet(StaticFields) : Value(StaticHeap[a + 1], {}) /\ ~ IsHd(StaticHeap[a + 1])
  /\ \A b \in ToSet(StaticBlocks) :
       Tag_hd(StaticHeap[b]) = 0 => Wosize_hd(StaticHeap[b]) > 0 /\ StaticHeap[b].low = Color_white

\* What an instruction of such a program is about to build.
PendTidy ==
  \/ pend.op \in {"none", "caml_gc_run"}
  \/ pend.op = "MAKEBLOCK" /\ pend.size = pend.n /\ pend.n > 0 /\ pend.tag = 0
  \/ pend.op = "CLOSURE" /\ pend.size = pend.n + 1 /\ pend.tag = Closure_tag
  \/ pend.op = "CLOSUREREC" /\ pend.n = 1 /\ pend.size > 0 /\ pend.tag = Closure_tag
  \/ pend.op = "caml_create_bytes" /\ pend.size = 1 /\ pend.tag = String_tag
  \/ pend.op = "caml_alloc_dummy" /\ pend.size = pend.n /\ pend.n > 0 /\ pend.tag = 0

\* What an instruction leaves: a machine that is well formed.
Tidied(lo) == PendTidy' /\ \E C : MachineOK(lo, C)'

-----------------------------------------------------------------------------
(* Recursion along blocks.                                                  *)

\* Induction on the natural numbers, without an operator parameter.
LEMMA Induction ==
  ASSUME NEW S \in SUBSET Nat, 0 \in S, \A n \in S : n + 1 \in S
  PROVE  S = Nat
<1> DEFINE Below == {ss \in Nat \X Nat : ss[1] < ss[2]}
           T == Nat \ S
<1>1. IsWellFoundedOn(Below, Nat)
  BY NatLessThanWellFounded DEF OpToRel
<1>2. \A x, y \in Nat : x < y => <<x, y>> \in Below
  OBVIOUS
<1> HIDE DEF Below
<1>3. SUFFICES ASSUME T # {} PROVE FALSE
  OBVIOUS
<1>4. PICK x \in T : \A y \in T : ~ (<<y, x>> \in Below)
  BY <1>1, <1>3, WFMin
<1>5. x # 0 /\ x - 1 \in Nat /\ x - 1 < x
  BY <1>4
<1>6. x - 1 \in S
  BY <1>2, <1>4, <1>5
<1>. QED
  BY <1>4, <1>5, <1>6

\* A recursive function that goes up from an address to the next block exists:
\* one that concatenates what it reads at each block ...
LEMMA UpwardConcat ==
  ASSUME NEW lo \in Int, NEW hi \in Int, lo <= hi, NEW nx, NEW e
  PROVE  \E f : f = [a \in lo .. hi |-> IF a < hi /\ nx[a] \in a + 1 .. hi
                                          THEN e[a] \o f[nx[a]] ELSE << >>]
<1>. DEFINE F(f, a) == IF a < hi /\ nx[a] \in a + 1 .. hi THEN e[a] \o f[nx[a]] ELSE << >>
            Q(n) == \E f : f = [a \in hi - n .. hi |-> F(f, a)]
            S == {n \in Nat : Q(n)}
<1>1. 0 \in S
  <2>. DEFINE f0 == [a \in hi - 0 .. hi |-> << >>]
  <2>1. \A a \in hi - 0 .. hi : F(f0, a) = << >>
    OBVIOUS
  <2>2. f0 = [a \in hi - 0 .. hi |-> F(f0, a)]
    BY <2>1
  <2>. HIDE DEF f0, F
  <2>3. Q(0)
    BY <2>2
  <2>. QED
    BY <2>3
<1>2. ASSUME NEW n \in S PROVE n + 1 \in S
  <2>1. n \in Nat /\ Q(n)
    OBVIOUS
  <2>2. PICK f : f = [a \in hi - n .. hi |-> F(f, a)]
    BY <2>1
  <2>. DEFINE g == [a \in hi - (n + 1) .. hi |-> IF a = hi - (n + 1) THEN F(f, a) ELSE f[a]]
  <2>3. \A a \in hi - n .. hi : g[a] = f[a]
    BY <2>1
  <2>4. \A a \in hi - (n + 1) .. hi : a + 1 .. hi \subseteq hi - n .. hi
    BY <2>1
  <2>5. \A a \in hi - (n + 1) .. hi : F(g, a) = F(f, a)
    BY <2>3, <2>4
  <2>6. \A a \in hi - (n + 1) .. hi : a = hi - (n + 1) \/ (a # hi - (n + 1) /\ a \in hi - n .. hi)
    BY <2>1
  <2>7. \A a \in hi - (n + 1) .. hi : g[a] = F(f, a)
    BY <2>2, <2>6
  <2>8. g = [a \in hi - (n + 1) .. hi |-> F(g, a)]
    BY <2>5, <2>7
  <2>. HIDE DEF g, F
  <2>9. Q(n + 1)
    BY <2>8
  <2>. HIDE DEF Q
  <2>. QED
    BY <2>1, <2>9
<1>3. S = Nat
  <2>1. S \in SUBSET Nat
    OBVIOUS
  <2>. HIDE DEF S
  <2>. QED
    BY <1>1, <1>2, <2>1, Induction
<1>4. PICK n \in Nat : hi - n = lo
  <2>1. hi - lo \in Nat /\ hi - (hi - lo) = lo
    OBVIOUS
  <2>. QED
    BY <2>1
<1>5. Q(n)
  <2>. HIDE DEF Q
  <2>. QED
    BY <1>3
<1>. QED
  BY <1>4, <1>5

\* f takes the union of e along nx, upwards from every address of lo .. hi.
Upward(f, lo, hi, nx, e) ==
  f = [a \in lo .. hi |-> IF a < hi /\ nx[a] \in a + 1 .. hi THEN f[nx[a]] \cup e[a] ELSE {}]

\* ... and one that takes their union.
LEMMA UpwardUnion ==
  ASSUME NEW lo \in Int, NEW hi \in Int, lo <= hi, NEW nx, NEW e
  PROVE  \E f : Upward(f, lo, hi, nx, e)
<1>. DEFINE F(f, a) == IF a < hi /\ nx[a] \in a + 1 .. hi THEN f[nx[a]] \cup e[a] ELSE {}
            Q(n) == \E f : f = [a \in hi - n .. hi |-> F(f, a)]
            S == {n \in Nat : Q(n)}
<1>1. 0 \in S
  <2>. DEFINE f0 == [a \in hi - 0 .. hi |-> {}]
  <2>1. \A a \in hi - 0 .. hi : F(f0, a) = {}
    OBVIOUS
  <2>2. f0 = [a \in hi - 0 .. hi |-> F(f0, a)]
    BY <2>1
  <2>. HIDE DEF f0, F
  <2>3. Q(0)
    BY <2>2
  <2>. QED
    BY <2>3
<1>2. ASSUME NEW n \in S PROVE n + 1 \in S
  <2>1. n \in Nat /\ Q(n)
    OBVIOUS
  <2>2. PICK f : f = [a \in hi - n .. hi |-> F(f, a)]
    BY <2>1
  <2>. DEFINE g == [a \in hi - (n + 1) .. hi |-> IF a = hi - (n + 1) THEN F(f, a) ELSE f[a]]
  <2>3. \A a \in hi - n .. hi : g[a] = f[a]
    BY <2>1
  <2>4. \A a \in hi - (n + 1) .. hi : a + 1 .. hi \subseteq hi - n .. hi
    BY <2>1
  <2>5. \A a \in hi - (n + 1) .. hi : F(g, a) = F(f, a)
    BY <2>3, <2>4
  <2>6. \A a \in hi - (n + 1) .. hi : a = hi - (n + 1) \/ (a # hi - (n + 1) /\ a \in hi - n .. hi)
    BY <2>1
  <2>7. \A a \in hi - (n + 1) .. hi : g[a] = F(f, a)
    BY <2>2, <2>6
  <2>8. g = [a \in hi - (n + 1) .. hi |-> F(g, a)]
    BY <2>5, <2>7
  <2>. HIDE DEF g, F
  <2>9. Q(n + 1)
    BY <2>8
  <2>. HIDE DEF Q
  <2>. QED
    BY <2>1, <2>9
<1>3. S = Nat
  <2>1. S \in SUBSET Nat
    OBVIOUS
  <2>. HIDE DEF S
  <2>. QED
    BY <1>1, <1>2, <2>1, Induction
<1>4. PICK n \in Nat : hi - n = lo
  <2>1. hi - lo \in Nat /\ hi - (hi - lo) = lo
    OBVIOUS
  <2>. QED
    BY <2>1
<1>5. Q(n)
  <2>. HIDE DEF Q
  <2>. QED
    BY <1>3
<1>6. PICK f : f = [a \in lo .. hi |-> F(f, a)]
  <2>. HIDE DEF F
  <2>. QED
    BY <1>4, <1>5
<1>7. Upward(f, lo, hi, nx, e)
  BY <1>6 DEF Upward
<1>. QED
  BY <1>7

-----------------------------------------------------------------------------
(* The static heap.                                                         *)

\* No element twice.
Distinct(s) == \A i, j \in 1 .. Len(s) : s[i] = s[j] => i = j

\* The elements of a sequence.
LEMMA SeqElements ==
  ASSUME NEW S, NEW s \in Seq(S)
  PROVE  /\ Len(s) \in Nat /\ DOMAIN s = 1 .. Len(s) /\ ToSet(s) \subseteq S
         /\ \A i \in 1 .. Len(s) : s[i] \in S /\ s[i] \in ToSet(s)
         /\ \A x \in ToSet(s) : \E i \in 1 .. Len(s) : x = s[i]
<1>1. Len(s) \in Nat /\ DOMAIN s = 1 .. Len(s) /\ \A i \in 1 .. Len(s) : s[i] \in S
  OBVIOUS
<1>2. ToSet(s) = {s[i] : i \in 1 .. Len(s)}
  BY <1>1 DEF ToSet
<1>. QED
  BY <1>1, <1>2

\* The sequence of one element.
LEMMA OneElement ==
  ASSUME NEW x, NEW S, x \in S
  PROVE  <<x>> \in Seq(S) /\ ToSet(<<x>>) = {x} /\ Len(<<x>>) = 1 /\ <<x>>[1] = x
<1>1. <<x>> \in Seq(S) /\ Len(<<x>>) = 1 /\ <<x>>[1] = x
  OBVIOUS
<1>2. ToSet(<<x>>) = {x}
  <2>1. DOMAIN <<x>> = {1}
    OBVIOUS
  <2>. QED
    BY <1>1, <2>1 DEF ToSet
<1>. QED
  BY <1>1, <1>2

\* A sequence over a set is one over any larger set.
LEMMA WiderSequence ==
  ASSUME NEW S, NEW T, S \subseteq T, NEW s \in Seq(S)
  PROVE  s \in Seq(T)
OBVIOUS

\* What a concatenation holds.
LEMMA ConcatElements ==
  ASSUME NEW S, NEW s \in Seq(S), NEW t \in Seq(S)
  PROVE  /\ ToSet(s \o t) = ToSet(s) \cup ToSet(t)
         /\ \A i \in 1 .. Len(s \o t) :
              \/ i \in 1 .. Len(s) /\ (s \o t)[i] = s[i]
              \/ i - Len(s) \in 1 .. Len(t) /\ (s \o t)[i] = t[i - Len(s)]
<1>1. /\ s \o t \in Seq(S) /\ Len(s \o t) = Len(s) + Len(t)
      /\ Len(s) \in Nat /\ Len(t) \in Nat
      /\ \A i \in 1 .. Len(s) : (s \o t)[i] = s[i]
      /\ \A i \in Len(s) + 1 .. Len(s) + Len(t) : (s \o t)[i] = t[i - Len(s)]
  OBVIOUS
<1>2. \A i \in 1 .. Len(s \o t) :
        \/ i \in 1 .. Len(s) /\ (s \o t)[i] = s[i]
        \/ i - Len(s) \in 1 .. Len(t) /\ (s \o t)[i] = t[i - Len(s)]
  BY <1>1
<1>3. /\ DOMAIN (s \o t) = 1 .. Len(s \o t) /\ DOMAIN s = 1 .. Len(s) /\ DOMAIN t = 1 .. Len(t)
  BY <1>1
<1>4. ASSUME NEW x \in ToSet(s \o t) PROVE x \in ToSet(s) \cup ToSet(t)
  <2>1. PICK i \in 1 .. Len(s \o t) : x = (s \o t)[i]
    BY <1>3, <1>4 DEF ToSet
  <2>. QED
    BY <2>1, <1>2, <1>3 DEF ToSet
<1>5. ASSUME NEW x \in ToSet(s) PROVE x \in ToSet(s \o t)
  <2>1. PICK i \in 1 .. Len(s) : x = s[i]
    BY <1>3, <1>5 DEF ToSet
  <2>2. i \in 1 .. Len(s \o t) /\ (s \o t)[i] = x
    BY <2>1, <1>1
  <2>. QED
    BY <2>2, <1>3 DEF ToSet
<1>6. ASSUME NEW x \in ToSet(t) PROVE x \in ToSet(s \o t)
  <2>1. PICK i \in 1 .. Len(t) : x = t[i]
    BY <1>3, <1>6 DEF ToSet
  <2>2. Len(s) + i \in 1 .. Len(s \o t) /\ (s \o t)[Len(s) + i] = x
    BY <2>1, <1>1
  <2>. QED
    BY <2>2, <1>3 DEF ToSet
<1>. QED
  BY <1>2, <1>4, <1>5, <1>6

\* Sequences without repetition and with no common element, one after the other.
LEMMA ConcatDistinct ==
  ASSUME NEW S, NEW s \in Seq(S), NEW t \in Seq(S), Distinct(s), Distinct(t),
         \A i \in 1 .. Len(s), j \in 1 .. Len(t) : s[i] # t[j]
  PROVE  Distinct(s \o t)
<1>1. SUFFICES ASSUME NEW i \in 1 .. Len(s \o t), NEW j \in 1 .. Len(s \o t), (s \o t)[i] = (s \o t)[j]
               PROVE  i = j
  BY DEF Distinct
<1>2. \A k \in 1 .. Len(s \o t) :
        \/ k \in 1 .. Len(s) /\ (s \o t)[k] = s[k]
        \/ k - Len(s) \in 1 .. Len(t) /\ (s \o t)[k] = t[k - Len(s)]
  BY ConcatElements
<1>3. Len(s) \in Nat /\ Len(t) \in Nat
  OBVIOUS
<1>. QED
  BY <1>1, <1>2, <1>3 DEF Distinct

\* The fields of the static block whose header is at a.
StaticFieldsAt(a) ==
  IF Tag_hd(StaticHeap[a + 1]) < No_scan_tag
    THEN [k \in 1 .. Wosize_hd(StaticHeap[a + 1]) |-> a + k] ELSE << >>

\* StaticFields and StaticBlocks go along the static heap.
LEMMA StaticEquations ==
  /\ \E f : /\ StaticFields = f[0]
            /\ f = [a \in 0 .. StaticWosize |->
                      IF a < StaticWosize /\ StaticNext(a) \in a + 1 .. StaticWosize
                        THEN StaticFieldsAt(a) \o f[StaticNext(a)] ELSE << >>]
  /\ \E f : /\ StaticBlocks = f[0]
            /\ f = [a \in 0 .. StaticWosize |->
                      IF a < StaticWosize /\ StaticNext(a) \in a + 1 .. StaticWosize
                        THEN <<a + 1>> \o f[StaticNext(a)] ELSE << >>]
<1>. DEFINE W == StaticWosize
            nx == [a \in 0 .. W |-> StaticNext(a)]
            ef == [a \in 0 .. W |-> StaticFieldsAt(a)]
            eb == [a \in 0 .. W |-> <<a + 1>>]
            EqF(f) == f = [a \in 0 .. W |-> IF a < W /\ StaticNext(a) \in a + 1 .. W
                                              THEN StaticFieldsAt(a) \o f[StaticNext(a)] ELSE << >>]
            EqB(f) == f = [a \in 0 .. W |-> IF a < W /\ StaticNext(a) \in a + 1 .. W
                                              THEN <<a + 1>> \o f[StaticNext(a)] ELSE << >>]
            Eq(e, f) == f = [a \in 0 .. W |-> IF a < W /\ nx[a] \in a + 1 .. W
                                                THEN e[a] \o f[nx[a]] ELSE << >>]
<1>1. W \in Nat /\ 0 \in Int /\ W \in Int /\ 0 <= W
  BY HeapWosizeNat
<1>2. \A e : \E f : Eq(e, f)
  BY <1>1, UpwardConcat
<1>3. \A a \in 0 .. W : nx[a] = StaticNext(a) /\ ef[a] = StaticFieldsAt(a) /\ eb[a] = <<a + 1>>
  OBVIOUS
<1>4. \A f : Eq(ef, f) => EqF(f)
  <2>. TAKE f
  <2>1. \A a \in 0 .. W : (IF a < W /\ nx[a] \in a + 1 .. W THEN ef[a] \o f[nx[a]] ELSE << >>)
                = IF a < W /\ StaticNext(a) \in a + 1 .. W THEN StaticFieldsAt(a) \o f[StaticNext(a)] ELSE << >>
    BY <1>3
  <2>. HIDE DEF nx, ef
  <2>. QED
    BY <2>1
<1>5. \A f : Eq(eb, f) => EqB(f)
  <2>. TAKE f
  <2>1. \A a \in 0 .. W : (IF a < W /\ nx[a] \in a + 1 .. W THEN eb[a] \o f[nx[a]] ELSE << >>)
                = IF a < W /\ StaticNext(a) \in a + 1 .. W THEN <<a + 1>> \o f[StaticNext(a)] ELSE << >>
    BY <1>3
  <2>. HIDE DEF nx, eb
  <2>. QED
    BY <2>1
<1>6. (\E f : EqF(f)) /\ (\E f : EqB(f))
  <2>. HIDE DEF Eq, EqF, EqB, ef, eb
  <2>. QED
    BY <1>2, <1>4, <1>5
<1>7. StaticFields = (CHOOSE f : EqF(f))[0]
  BY DEF StaticFields, StaticFieldsAt
<1>8. StaticBlocks = (CHOOSE f : EqB(f))[0]
  BY DEF StaticBlocks
<1>9. EqF(CHOOSE f : EqF(f)) /\ EqB(CHOOSE f : EqB(f))
  <2>. HIDE DEF EqF, EqB
  <2>. QED
    BY <1>6
<1>10. (\E f : StaticFields = f[0] /\ EqF(f)) /\ (\E f : StaticBlocks = f[0] /\ EqB(f))
  <2>. HIDE DEF EqF, EqB
  <2>. QED
    BY Zenon, <1>7, <1>8, <1>9
<1>. QED
  BY <1>10

\* What a part of the static heap from address a on, whose blocks are bs, has
\* as fields fs.
StaticPart(a, fs, bs) ==
  /\ fs \in Seq(a + 1 .. StaticWosize - 1) /\ Distinct(fs)
  /\ \A b \in ToSet(bs) :
       /\ b \in a + 1 .. StaticWosize /\ IsHd(StaticHeap[b])
       /\ StaticHeap[b] \in Word /\ Wosize_hd(StaticHeap[b]) \in Nat
       /\ b + Wosize_hd(StaticHeap[b]) <= StaticWosize
       /\ b - 1 \notin ToSet(fs)
       /\ Tag_hd(StaticHeap[b]) < No_scan_tag =>
            \A i \in 1 .. Wosize_hd(StaticHeap[b]) : b + i - 1 \in ToSet(fs)
  /\ bs \in Seq(Int)

\* The fields of one block.
LEMMA StaticFieldsOfBlock ==
  ASSUME NEW a \in 0 .. StaticWosize - 1, IsHd(StaticHeap[a + 1]), StaticNext(a) \in a + 1 .. StaticWosize
  PROVE  LET size == Wosize_hd(StaticHeap[a + 1])
             fs == StaticFieldsAt(a)
         IN /\ size \in Nat /\ StaticNext(a) = a + size + 1 /\ StaticHeap[a + 1] \in Word
            /\ fs \in Seq(a + 1 .. StaticNext(a) - 1) /\ Distinct(fs)
            /\ ToSet(fs) \subseteq a + 1 .. StaticNext(a) - 1
            /\ Tag_hd(StaticHeap[a + 1]) < No_scan_tag => \A i \in 1 .. size : a + i \in ToSet(fs)
<1>. DEFINE size == Wosize_hd(StaticHeap[a + 1])
            fs == StaticFieldsAt(a)
            S == a + 1 .. StaticNext(a) - 1
<1>1. StaticWosize \in Nat
  BY HeapWosizeNat
<1>2. StaticHeap[a + 1] \in Word
  <2>1. a + 1 \in 1 .. Len(StaticHeap)
    BY <1>1 DEF StaticWosize
  <2>. QED
    BY <2>1, WordsAssumption
<1>3. size \in Nat /\ StaticNext(a) = a + size + 1
  BY <1>2, IdOfHeader DEF StaticNext, Wosize_hd
<1>4. CASE Tag_hd(StaticHeap[a + 1]) < No_scan_tag
  <2>1. fs = [k \in 1 .. size |-> a + k]
    BY <1>4 DEF StaticFieldsAt
  <2>2. \A k \in 1 .. size : a + k \in S
    BY <1>3
  <2>3. fs \in [1 .. size -> S]
    BY <2>1, <2>2
  <2>. HIDE DEF S, size
  <2>4. fs \in Seq(S) /\ Len(fs) = size
    <3>. HIDE DEF fs
    <3>. QED
      BY <2>3, <1>3, FunctionSeq
  <2>5. DOMAIN fs = 1 .. size /\ \A k \in 1 .. size : fs[k] = a + k
    BY <2>1
  <2>. HIDE DEF fs
  <2>6. Distinct(fs)
    BY <2>4, <2>5, <1>3 DEF Distinct
  <2>7. \A i \in 1 .. size : a + i \in ToSet(fs)
    BY <2>5 DEF ToSet
  <2>8. ToSet(fs) \subseteq S
    BY <2>5, <2>2 DEF ToSet
  <2>. QED
    BY <2>4, <2>6, <2>7, <2>8, <1>2, <1>3 DEF fs, size, S
<1>5. CASE ~ (Tag_hd(StaticHeap[a + 1]) < No_scan_tag)
  <2>1. fs = << >>
    BY <1>5 DEF StaticFieldsAt
  <2>2. fs \in Seq(S) /\ Len(fs) = 0 /\ ToSet(fs) = {}
    BY <2>1 DEF ToSet
  <2>3. Distinct(fs)
    BY <2>2 DEF Distinct
  <2>. QED
    BY <2>2, <2>3, <1>2, <1>3, <1>5
<1>. QED
  BY <1>4, <1>5

\* A block, then the rest.
LEMMA StaticPartStep ==
  ASSUME NEW a \in 0 .. StaticWosize - 1, IsHd(StaticHeap[a + 1]), StaticNext(a) \in a + 1 .. StaticWosize,
         NEW fs, NEW bs, StaticPart(StaticNext(a), fs, bs)
  PROVE  StaticPart(a, StaticFieldsAt(a) \o fs, <<a + 1>> \o bs)
<1>. DEFINE size == Wosize_hd(StaticHeap[a + 1])
            gs == StaticFieldsAt(a)
            S == a + 1 .. StaticWosize - 1
            n == StaticNext(a)
<1>1. /\ size \in Nat /\ n = a + size + 1 /\ StaticHeap[a + 1] \in Word
      /\ gs \in Seq(a + 1 .. n - 1) /\ Distinct(gs) /\ ToSet(gs) \subseteq a + 1 .. n - 1
      /\ Tag_hd(StaticHeap[a + 1]) < No_scan_tag => \A i \in 1 .. size : a + i \in ToSet(gs)
  BY StaticFieldsOfBlock
<1>2. n \in a + 1 .. StaticWosize /\ a \in Nat /\ StaticWosize \in Nat
  BY HeapWosizeNat
<1>3. fs \in Seq(n + 1 .. StaticWosize - 1) /\ Distinct(fs) /\ bs \in Seq(Int)
  BY DEF StaticPart
<1>4. ToSet(fs) \subseteq n + 1 .. StaticWosize - 1
  BY <1>3, SeqElements
<1>. HIDE DEF n, gs, size
<1>5. a + 1 .. n - 1 \subseteq S /\ n + 1 .. StaticWosize - 1 \subseteq S
  BY <1>2
<1>6. gs \in Seq(S) /\ fs \in Seq(S)
  <2>. HIDE DEF S
  <2>. QED
    BY <1>1, <1>3, <1>5, WiderSequence
<1>7. \A i \in 1 .. Len(gs), j \in 1 .. Len(fs) : gs[i] # fs[j]
  <2>1. \A i \in 1 .. Len(gs) : gs[i] \in a + 1 .. n - 1
    BY <1>1, SeqElements
  <2>2. \A j \in 1 .. Len(fs) : fs[j] \in n + 1 .. StaticWosize - 1
    BY <1>3, SeqElements
  <2>. QED
    BY <2>1, <2>2, <1>2
<1>8. gs \o fs \in Seq(S) /\ Distinct(gs \o fs) /\ ToSet(gs \o fs) = ToSet(gs) \cup ToSet(fs)
  <2>. HIDE DEF S
  <2>. QED
    BY <1>1, <1>3, <1>6, <1>7, ConcatDistinct, ConcatElements, ConcatSeq
<1>9. <<a + 1>> \o bs \in Seq(Int) /\ ToSet(<<a + 1>> \o bs) = {a + 1} \cup ToSet(bs)
  <2>1. <<a + 1>> \in Seq(Int) /\ ToSet(<<a + 1>>) = {a + 1}
    <3>1. a + 1 \in Int
      BY <1>2
    <3>. QED
      BY <3>1, OneElement
  <2>2. bs \in Seq(Int)
    BY <1>3
  <2>3. ToSet(<<a + 1>> \o bs) = ToSet(<<a + 1>>) \cup ToSet(bs)
    <3>1. PICK one : one = <<a + 1>>
      OBVIOUS
    <3>2. one \in Seq(Int)
      BY <2>1, <3>1
    <3>3. ToSet(one \o bs) = ToSet(one) \cup ToSet(bs)
      BY <2>2, <3>2, ConcatElements
    <3>. QED
      BY <3>1, <3>3
  <2>4. <<a + 1>> \o bs \in Seq(Int)
    BY <2>1, <2>2, ConcatSeq
  <2>. QED
    BY <2>1, <2>3, <2>4
<1>10. ASSUME NEW b \in ToSet(<<a + 1>> \o bs)
       PROVE  /\ b \in a + 1 .. StaticWosize /\ IsHd(StaticHeap[b])
              /\ StaticHeap[b] \in Word /\ Wosize_hd(StaticHeap[b]) \in Nat
              /\ b + Wosize_hd(StaticHeap[b]) <= StaticWosize
              /\ b - 1 \notin ToSet(gs \o fs)
              /\ Tag_hd(StaticHeap[b]) < No_scan_tag =>
                   \A i \in 1 .. Wosize_hd(StaticHeap[b]) : b + i - 1 \in ToSet(gs \o fs)
  <2>1. CASE b = a + 1
    <3>1. \A i \in 1 .. size : b + i - 1 = a + i
      BY <2>1, <1>1, <1>2
    <3>2. b - 1 \notin ToSet(gs) /\ b - 1 \notin ToSet(fs)
      BY <2>1, <1>1, <1>2, <1>4
    <3>3. b + size <= StaticWosize
      BY <2>1, <1>1, <1>2
    <3>. QED
      BY <2>1, <3>1, <3>2, <3>3, <1>1, <1>2, <1>8 DEF size
  <2>2. CASE b \in ToSet(bs)
    <3>1. /\ b \in n + 1 .. StaticWosize /\ IsHd(StaticHeap[b])
          /\ StaticHeap[b] \in Word /\ Wosize_hd(StaticHeap[b]) \in Nat
          /\ b + Wosize_hd(StaticHeap[b]) <= StaticWosize
          /\ b - 1 \notin ToSet(fs)
          /\ Tag_hd(StaticHeap[b]) < No_scan_tag =>
               \A i \in 1 .. Wosize_hd(StaticHeap[b]) : b + i - 1 \in ToSet(fs)
      BY <2>2 DEF StaticPart, n
    <3>2. b - 1 \notin ToSet(gs) /\ b \in a + 1 .. StaticWosize
      BY <3>1, <1>1, <1>2
    <3>. QED
      BY <3>1, <3>2, <1>8
  <2>. QED
    BY <2>1, <2>2, <1>9
<1>. QED
  BY <1>8, <1>9, <1>10 DEF StaticPart, gs, S

\* The static heap's blocks are headers whose fields, in the heap, are roots, and no
\* header is one.
LEMMA StaticFacts == StaticPart(0, StaticFields, StaticBlocks)
<1>1. PICK f : /\ StaticFields = f[0]
               /\ f = [a \in 0 .. StaticWosize |->
                         IF a < StaticWosize /\ StaticNext(a) \in a + 1 .. StaticWosize
                           THEN StaticFieldsAt(a) \o f[StaticNext(a)] ELSE << >>]
  BY Zenon, StaticEquations
<1>2. PICK g : /\ StaticBlocks = g[0]
               /\ g = [a \in 0 .. StaticWosize |->
                         IF a < StaticWosize /\ StaticNext(a) \in a + 1 .. StaticWosize
                           THEN <<a + 1>> \o g[StaticNext(a)] ELSE << >>]
  BY Zenon, StaticEquations
<1>3. PICK starts \in SUBSET (0 .. StaticWosize) :
        /\ {0, StaticWosize} \subseteq starts
        /\ \A a \in starts \ {StaticWosize} : IsHd(StaticHeap[a + 1]) /\ StaticNext(a) \in starts
  BY StaticHeapAssumption
<1>4. StaticWosize \in Nat
  BY HeapWosizeNat
<1>. DEFINE Q(n) == \A a \in starts : StaticWosize - a <= n => StaticPart(a, f[a], g[a])
            S == {n \in Nat : Q(n)}
<1>5. StaticPart(StaticWosize, f[StaticWosize], g[StaticWosize])
  <2>1. f[StaticWosize] = << >> /\ g[StaticWosize] = << >>
    BY <1>1, <1>2, <1>4
  <2>. QED
    BY <2>1 DEF StaticPart, Distinct, ToSet
<1>6. 0 \in S
  <2>1. ASSUME NEW a \in starts, StaticWosize - a <= 0 PROVE a = StaticWosize
    BY <2>1, <1>3, <1>4
  <2>. QED
    BY <2>1, <1>5
<1>7. ASSUME NEW n \in S PROVE n + 1 \in S
  <2>1. SUFFICES ASSUME NEW a \in starts, StaticWosize - a <= n + 1
                 PROVE StaticPart(a, f[a], g[a])
    OBVIOUS
  <2>2. CASE a = StaticWosize
    BY <2>2, <1>5
  <2>3. CASE a # StaticWosize
    <3>1. a \in 0 .. StaticWosize - 1 /\ IsHd(StaticHeap[a + 1]) /\ StaticNext(a) \in starts
      BY <2>3, <1>3, <1>4
    <3>2. StaticHeap[a + 1] \in Word
      <4>1. a + 1 \in 1 .. Len(StaticHeap)
        BY <3>1, <1>4 DEF StaticWosize
      <4>. QED
        BY <4>1, WordsAssumption
    <3>3. Wosize_hd(StaticHeap[a + 1]) \in Nat
      BY <3>1, <3>2, IdOfHeader DEF Wosize_hd
    <3>4. StaticNext(a) \in a + 1 .. StaticWosize /\ StaticWosize - StaticNext(a) <= n
      BY <3>1, <3>3, <1>3, <1>4, <2>1 DEF StaticNext
    <3>5. StaticPart(StaticNext(a), f[StaticNext(a)], g[StaticNext(a)])
      BY <3>1, <3>4
    <3>6. StaticPart(a, StaticFieldsAt(a) \o f[StaticNext(a)], <<a + 1>> \o g[StaticNext(a)])
      BY <3>1, <3>4, <3>5, StaticPartStep
    <3>7. f[a] = StaticFieldsAt(a) \o f[StaticNext(a)] /\ g[a] = <<a + 1>> \o g[StaticNext(a)]
      <4>1. a \in 0 .. StaticWosize /\ a < StaticWosize
        BY <3>1, <1>4
      <4>2. f[a] = StaticFieldsAt(a) \o f[StaticNext(a)]
        BY <1>1, <3>4, <4>1
      <4>3. g[a] = <<a + 1>> \o g[StaticNext(a)]
        BY <1>2, <3>4, <4>1
      <4>. QED
        BY <4>2, <4>3
    <3>. QED
      BY <3>6, <3>7
  <2>. QED
    BY <2>2, <2>3
<1>8. S = Nat
  <2>1. S \in SUBSET Nat
    OBVIOUS
  <2>. HIDE DEF S
  <2>. QED
    BY <1>6, <1>7, <2>1, Induction
<1>9. Q(StaticWosize)
  <2>. HIDE DEF Q
  <2>. QED
    BY <1>4, <1>8
<1>10. StaticPart(0, f[0], g[0])
  BY <1>3, <1>4, <1>9
<1>. QED
  BY <1>1, <1>2, <1>10

\* Where the fields of static blocks are, and where their headers.
LEMMA StaticAddresses ==
  /\ ToSet(StaticFields) \subseteq 0 .. StaticWosize - 1
  /\ \A b \in ToSet(StaticBlocks) :
       /\ b \in Int /\ b - 1 \in (0 .. StaticWosize - 1) \ ToSet(StaticFields)
       /\ Wosize_hd(StaticHeap[b]) \in Nat /\ IsHd(StaticHeap[b]) /\ StaticHeap[b] \in Word
       /\ Tag_hd(StaticHeap[b]) < No_scan_tag =>
            \A i \in 1 .. Wosize_hd(StaticHeap[b]) : b + i - 1 \in ToSet(StaticFields)
<1>1. StaticWosize \in Nat
  BY HeapWosizeNat
<1>2. StaticPart(0, StaticFields, StaticBlocks)
  BY StaticFacts
<1>3. StaticFields \in Seq(0 + 1 .. StaticWosize - 1)
  BY <1>2 DEF StaticPart
<1>4. ToSet(StaticFields) \subseteq 0 + 1 .. StaticWosize - 1
  BY <1>3, SeqElements
<1>5. ToSet(StaticFields) \subseteq 0 .. StaticWosize - 1
  BY <1>1, <1>4
<1>6. ASSUME NEW b \in ToSet(StaticBlocks)
      PROVE /\ b \in 0 + 1 .. StaticWosize /\ b - 1 \notin ToSet(StaticFields)
            /\ Wosize_hd(StaticHeap[b]) \in Nat /\ IsHd(StaticHeap[b]) /\ StaticHeap[b] \in Word
            /\ Tag_hd(StaticHeap[b]) < No_scan_tag =>
                 \A i \in 1 .. Wosize_hd(StaticHeap[b]) : b + i - 1 \in ToSet(StaticFields)
  BY <1>2 DEF StaticPart
<1>7. \A b \in ToSet(StaticBlocks) : b \in Int /\ b - 1 \in 0 .. StaticWosize - 1
  BY <1>1, <1>6
<1>. QED
  BY <1>5, <1>6, <1>7

-----------------------------------------------------------------------------
(* Values and blocks.                                                       *)

\* More blocks, more values.
LEMMA ValueWider ==
  ASSUME NEW B, NEW C, B \subseteq C, NEW w, Value(w, B)
  PROVE  Value(w, C)
BY DEF Value

\* The parts of a block's header.
LEMMA HeaderParts ==
  ASSUME NEW h, BlockHeader(h)
  PROVE  /\ h \in [kind : {"hd"}, tag : Nat, size : Nat, low : 0 .. 3, id : Int]
         /\ Wosize_hd(h) \in Nat /\ Wosize_hd(h) > 0 /\ Tag_hd(h) \in Nat
BY IdOfHeader DEF BlockHeader, Wosize_hd, Tag_hd

\* An address that an instruction may write a value to: a field of a static
\* block or of a block of data.
Writable(m, a, B) ==
  \/ a \in ToSet(StaticFields)
  \/ \E b \in B : Tag_hd(m[b]) = 0 /\ a \in b + 1 .. b + Wosize_hd(m[b])

\* A tidy program has no headers to handle but those of caml_alloc_dummy.
LEMMA HeaderValue ==
  ASSUME TidyProgram, NEW B, NEW w, Value(w, B), IsHd(w)
  PROVE  w = Make_header(0, 0, 0)
<1>1. w \in Immediate
  BY DEF Value, IsHd
<1>2. ~ IsHd(Val_unit)
  BY DEF IsHd, Val_unit, Val_int
<1>3. \A v \in Constants \cup ToSet(InitialGlobals) : ~ IsHd(v)
  BY DEF TidyProgram
<1>4. \A a \in ToSet(StaticFields) : ~ IsHd(StaticHeap[a + 1])
  BY DEF TidyProgram
<1>. QED
  BY <1>1, <1>2, <1>3, <1>4 DEF Immediate

\* The fields of the block of data w points to are values and may be written.
LEMMA DataValues ==
  ASSUME NEW lo \in Int, NEW hi \in Int, NEW B, lo >= StaticWosize, HeapOK(mem, lo, hi, B),
         NEW w, Value(w, B), IsData(w)
  PROVE  /\ w.at \in Int /\ Wosize_hd(Hd_val(mem, w)) \in Nat
         /\ \A i \in 0 .. Wosize_hd(Hd_val(mem, w)) - 1 :
              Value(mem[w.at + i], B) /\ Writable(mem, w.at + i, B)
         /\ w.kind = "dyn" => w.at - 1 \in B
         /\ w.kind = "static" => w.at \in ToSet(StaticBlocks) /\ Hd_val(mem, w) = StaticHeap[w.at]
<1>. DEFINE size == Wosize_hd(Hd_val(mem, w))
<1>1. StaticWosize \in Nat
  BY HeapWosizeNat
<1>2. w \in Word /\ Is_block(w) /\ Tag_hd(Hd_val(mem, w)) = 0 /\ Hd_val(mem, w) = mem[w.at - 1]
  BY DEF IsData, IsBlockPtr, Value, Hd_val
<1>3. w.at \in Int /\ w.kind \in {"dyn", "static"}
  BY <1>2, BlockAddress DEF Is_block
<1>4. CASE w.kind = "dyn"
  <2>1. w.at - 1 \in B
    BY <1>4 DEF Value
  <2>2. BlockHeader(mem[w.at - 1])
    BY <2>1 DEF HeapOK, BlocksOK
  <2>3. size \in Nat
    BY <2>2, <1>2, HeaderParts
  <2>4. ASSUME NEW i \in 0 .. size - 1 PROVE Value(mem[w.at + i], B) /\ Writable(mem, w.at + i, B)
    <3>1. i + 1 \in 1 .. size /\ w.at - 1 + (i + 1) = w.at + i
      BY <1>3, <2>3
    <3>2. FieldOK(mem, w.at - 1, i + 1, B)
      <4>1. Tag_hd(mem[w.at - 1]) < No_scan_tag
        BY <1>2 DEF No_scan_tag
      <4>. QED
        BY <2>1, <3>1, <4>1, <1>2 DEF HeapOK, FieldsOK
    <3>3. Value(mem[w.at - 1 + (i + 1)], B)
      BY <3>2, <1>2 DEF FieldOK, Closure_tag
    <3>4. w.at + i \in (w.at - 1) + 1 .. (w.at - 1) + size
      BY <1>3, <2>3
    <3>. QED
      BY <3>1, <3>3, <3>4, <2>1, <1>2 DEF Writable
  <2>. QED
    BY <1>3, <1>4, <2>1, <2>3, <2>4
<1>5. CASE w.kind = "static"
  <2>1. w.at \in ToSet(StaticBlocks)
    BY <1>5 DEF Value
  <2>2. /\ w.at - 1 \in (0 .. StaticWosize - 1) \ ToSet(StaticFields)
        /\ Wosize_hd(StaticHeap[w.at]) \in Nat
        /\ Tag_hd(StaticHeap[w.at]) < No_scan_tag =>
             \A i \in 1 .. Wosize_hd(StaticHeap[w.at]) : w.at + i - 1 \in ToSet(StaticFields)
    BY <2>1, StaticAddresses
  <2>3. mem[w.at - 1] = StaticHeap[w.at]
    <3>1. mem[w.at - 1] = StaticHeap[(w.at - 1) + 1]
      BY <2>2 DEF HeapOK, StaticOK
    <3>2. (w.at - 1) + 1 = w.at
      BY <1>3
    <3>. QED
      BY <3>1, <3>2
  <2>4. ASSUME NEW i \in 0 .. size - 1 PROVE w.at + i \in ToSet(StaticFields)
    <3>1. i + 1 \in 1 .. size /\ w.at + (i + 1) - 1 = w.at + i
      BY <1>2, <1>3, <2>2, <2>3
    <3>. QED
      BY <3>1, <2>2, <2>3, <1>2 DEF No_scan_tag
  <2>5. ASSUME NEW i \in 0 .. size - 1 PROVE Value(mem[w.at + i], B) /\ Writable(mem, w.at + i, B)
    BY <2>4, StaticAddresses DEF HeapOK, StaticOK, Writable
  <2>. QED
    BY <1>2, <1>3, <1>5, <2>1, <2>2, <2>3, <2>5
<1>. QED
  BY <1>3, <1>4, <1>5

\* A value written where a value is keeps the heap.
LEMMA WriteKeepsHeap ==
  ASSUME NEW lo \in Int, NEW hi \in Int, NEW B, lo >= StaticWosize,
         NEW m, HeapOK(m, lo, hi, B),
         NEW a \in Int, Writable(m, a, B), NEW v, Value(v, B), NEW m2,
         \A c \in 0 .. HeapWosize - 1 : m2[c] = IF c = a THEN v ELSE m[c],
         hi <= HeapWosize
  PROVE  HeapOK(m2, lo, hi, B)
<1>1. StaticWosize \in Nat /\ HeapWosize \in Nat /\ StaticWosize <= HeapWosize
  BY HeapWosizeNat, SizesAssumption DEF HeapWosize
<1>2. \A b \in B : /\ b \in lo .. hi - 1 /\ Wosize_hd(m[b]) \in Nat /\ b + Wosize_hd(m[b]) < hi
                   /\ \A c \in B : c <= b \/ c > b + Wosize_hd(m[b])
  BY HeaderParts DEF HeapOK, BlocksOK
<1>3. \A b \in B : b # a
  <2>1. CASE a \in ToSet(StaticFields)
    BY <2>1, <1>1, <1>2, StaticAddresses
  <2>2. CASE \E b \in B : Tag_hd(m[b]) = 0 /\ a \in b + 1 .. b + Wosize_hd(m[b])
    <3>1. PICK d \in B : a \in d + 1 .. d + Wosize_hd(m[d])
      BY <2>2
    <3>. QED
      BY <3>1, <1>2
  <2>. QED
    BY <2>1, <2>2 DEF Writable
<1>4. \A b \in B : m2[b] = m[b]
  BY <1>1, <1>2, <1>3
<1>5. BlocksOK(m2, lo, hi, B)
  BY <1>4 DEF HeapOK, BlocksOK
<1>6. FieldsOK(m2, B)
  <2>1. SUFFICES ASSUME NEW b \in B, Tag_hd(m[b]) < No_scan_tag, NEW i \in 1 .. Wosize_hd(m[b])
                 PROVE  FieldOK(m2, b, i, B)
    BY <1>4 DEF FieldsOK
  <2>2. FieldOK(m, b, i, B) /\ b + i \in 0 .. HeapWosize - 1
    BY <2>1, <1>1, <1>2 DEF HeapOK, FieldsOK
  <2>3. CASE b + i # a
    <3>1. m2[b + i] = m[b + i]
      BY <2>2, <2>3
    <3>. QED
      BY <1>4, <2>2, <3>1 DEF FieldOK
  <2>4. CASE b + i = a
    <3>1. m2[b + i] = v
      BY <2>2, <2>4
    <3>2. Tag_hd(m[b]) # Closure_tag
      <4>1. PICK d \in B : Tag_hd(m[d]) = 0 /\ a \in d + 1 .. d + Wosize_hd(m[d])
        BY <2>4, <2>1, <1>1, <1>2, StaticAddresses DEF Writable
      <4>2. d = b
        BY <4>1, <2>4, <2>1, <1>2
      <4>. QED
        BY <4>1, <4>2 DEF Closure_tag
    <3>. QED
      BY <1>4, <3>1, <3>2 DEF FieldOK
  <2>. QED
    BY <2>3, <2>4
<1>7. StaticOK(m2, B)
  <2>1. SUFFICES ASSUME NEW c \in 0 .. StaticWosize - 1
                 PROVE  IF c \in ToSet(StaticFields) THEN Value(m2[c], B) ELSE m2[c] = StaticHeap[c + 1]
    BY DEF StaticOK
  <2>2. c \in 0 .. HeapWosize - 1
    BY <1>1
  <2>3. IF c \in ToSet(StaticFields) THEN Value(m[c], B) ELSE m[c] = StaticHeap[c + 1]
    BY DEF HeapOK, StaticOK
  <2>4. c = a => c \in ToSet(StaticFields)
    <3>1. \A b \in B : ~ (c \in b + 1 .. b + Wosize_hd(m[b]))
      BY <1>1, <1>2
    <3>. QED
      BY <3>1 DEF Writable
  <2>. QED
    BY <2>2, <2>3, <2>4
<1>8. Filled(m2, lo, hi, B)
  <2>1. SUFFICES ASSUME NEW c \in lo .. hi - 1, \A b \in B : c \notin b .. b + Wosize_hd(m[b])
                 PROVE  m2[c] = Make_header(0, 0, 0)
    BY <1>4 DEF Filled
  <2>2. m[c] = Make_header(0, 0, 0) /\ c \in 0 .. HeapWosize - 1 /\ c >= StaticWosize
    BY <2>1, <1>1 DEF HeapOK, Filled
  <2>3. c # a
    <3>1. \A b \in B : c \notin b + 1 .. b + Wosize_hd(m[b])
      BY <2>1, <1>2
    <3>. QED
      BY <3>1, <2>2, <1>1, StaticAddresses DEF Writable
  <2>. QED
    BY <2>2, <2>3
<1>. QED
  BY <1>5, <1>6, <1>7, <1>8 DEF HeapOK

-----------------------------------------------------------------------------
(* Instructions that do not allocate.                                       *)

\* Immediates are values.
LEMMA ImmediateValue ==
  ASSUME NEW B
  PROVE  /\ Value(Val_unit, B)
         /\ Value(Make_header(0, 0, 0), B)
         /\ \A w \in RawWords : w \in Word
<1>1. Value(Val_unit, B)
  BY ImmediateWord DEF Value, Val_unit, Val_int, Immediate
<1>2. Value(Make_header(0, 0, 0), B)
  <2>1. Make_header(0, 0, 0) \in Word
    BY HeaderWord
  <2>. QED
    BY <2>1 DEF Value, Make_header, Immediate
<1>. QED
  BY <1>1, <1>2, WordsAssumption

\* Membership in the set of values, as a predicate.
LEMMA ValueMember == ASSUME NEW B, NEW w PROVE w \in Values(B) <=> Value(w, B)
BY DEF Values, Value

\* An instruction that moves values between the variables.
LEMMA MovesValues ==
  ASSUME NEW lo, NEW B, MachineOK(lo, B), pend.op = "none", UNCHANGED <<heap, pend>>,
         RegsOK(acc', env', stack', globals', B)
  PROVE  Tidied(lo)
<1>1. HeapOK(mem', lo, heap_ptr', B)
  BY DEF MachineOK, heap
<1>2. MachineOK(lo, B)'
  BY <1>1 DEF MachineOK
<1>3. PendTidy'
  BY DEF PendTidy
<1>. QED
  BY <1>2, <1>3 DEF Tidied

\* Loading a value in acc.
LEMMA LoadsValue ==
  ASSUME NEW lo, NEW B, MachineOK(lo, B), pend.op = "none", NEW w, Value(w, B), SetAcc(w)
  PROVE  Tidied(lo)
<1>1. acc' = w /\ UNCHANGED <<heap, env, stack, globals, pend>>
  BY DEF SetAcc
<1>2. RegsOK(acc', env', stack', globals', B)
  BY <1>1 DEF MachineOK, RegsOK
<1>. QED
  BY <1>1, <1>2, MovesValues

\* A handler, or a program that ends, has values in its variables over a
\* well-formed heap.
LEMMA RaiseTidy ==
  ASSUME NEW lo, lo >= StaticWosize, NEW B, HeapOK(mem', lo, heap_ptr', B),
         Value(env, B), globals \in Seq(Values(B)), NEW st \in Seq(Values(B)), Raise(st)
  PROVE  Tidied(lo)
<1>1. acc' = Val_unit /\ UNCHANGED globals /\ pend' = NoPend
  BY DEF Raise, Exn
<1>2. Value(env', B)
  BY ImmediateValue DEF Raise
<1>3. stack' \in Seq(Values(B))
  <2>1. << >> \in Seq(Values(B))
    OBVIOUS
  <2>. QED
    BY <2>1 DEF Raise
<1>4. RegsOK(acc', env', stack', globals', B)
  BY <1>1, <1>2, <1>3, ImmediateValue DEF RegsOK
<1>5. MachineOK(lo, B)'
  BY <1>4 DEF MachineOK, StaticWosize
<1>6. PendTidy'
  BY <1>1 DEF PendTidy, NoPend
<1>. QED
  BY <1>5, <1>6 DEF Tidied

\* An instruction that raises before it touches the heap.
LEMMA RaiseAtOnceTidy ==
  ASSUME NEW lo, NEW B, MachineOK(lo, B), Raise(stack), UNCHANGED heap
  PROVE  Tidied(lo)
<1>1. /\ HeapOK(mem', lo, heap_ptr', B) /\ lo >= StaticWosize
      /\ Value(env, B) /\ stack \in Seq(Values(B)) /\ globals \in Seq(Values(B))
  BY DEF MachineOK, RegsOK, heap
<1>. QED
  BY <1>1, RaiseTidy

\* The instructions that move values between acc, the stack and the globals.
LEMMA RegisterInstructionsTidy ==
  ASSUME VMTypeOK, TidyProgram, NEW lo, NEW B, MachineOK(lo, B),
         ACC \/ PUSH \/ POP \/ ASSIGN \/ CONST \/ GETGLOBAL \/ SETGLOBAL \/ APPTERM1
  PROVE  Tidied(lo)
<1>. DEFINE V == Values(B)
<1>1. /\ acc \in V /\ env \in V /\ stack \in Seq(V) /\ globals \in Seq(V) /\ Len(stack) \in Nat
      /\ DOMAIN globals = 1 .. Len(globals) /\ Len(globals) \in Nat /\ Val_unit \in V
  BY ValueMember, ImmediateValue DEF MachineOK, RegsOK
<1>2. pend.op = "none"
  BY DEF VMTypeOK, Running, ACC, PUSH, POP, ASSIGN, CONST, GETGLOBAL, SETGLOBAL, APPTERM1
<1>. HIDE DEF V
<1>3. \A n \in 1 .. Len(stack) : stack[n] \in V
  BY <1>1
<1>4. SUFFICES ASSUME ~ (PUSH /\ Len(stack) >= StackWosize) PROVE Tidied(lo)
  BY RaiseAtOnceTidy DEF PUSH
<1>5. ASSUME acc' \in V, env' \in V, stack' \in Seq(V), globals' \in Seq(V), UNCHANGED <<heap, pend>>
      PROVE Tidied(lo)
  BY <1>2, <1>5, MovesValues, ValueMember DEF RegsOK, V
<1>6. CASE ACC
  BY <1>1, <1>3, <1>5, <1>6 DEF ACC, SetAcc
<1>7. CASE PUSH
  <2>1. stack' = <<acc>> \o stack /\ UNCHANGED <<heap, acc, env, globals, pend, ctl>>
    BY <1>4, <1>7 DEF PUSH
  <2>2. <<acc>> \o stack \in Seq(V)
    BY <1>1, PushSeq
  <2>. QED
    BY <1>1, <1>5, <2>1, <2>2
<1>8. CASE POP
  <2>1. PICK n \in 1 .. Len(stack) : stack' = Drop(stack, n)
    BY <1>8 DEF POP
  <2>2. n \in 0 .. Len(stack)
    BY <1>1, <2>1
  <2>3. Drop(stack, n) \in Seq(V)
    BY <1>1, <2>2, DropSeq
  <2>. QED
    BY <1>1, <1>5, <1>8, <2>1, <2>3 DEF POP
<1>9. CASE ASSIGN
  <2>1. PICK n \in 1 .. Len(stack) : stack' = [stack EXCEPT ![n] = acc]
    BY <1>9 DEF ASSIGN
  <2>2. [stack EXCEPT ![n] = acc] \in Seq(V)
    BY <1>1, <2>1
  <2>. QED
    BY <1>1, <1>5, <1>9, <2>1, <2>2 DEF ASSIGN
<1>10. CASE CONST
  <2>1. PICK w \in Constants : SetAcc(w)
    BY <1>10 DEF CONST
  <2>2. Value(w, {})
    BY <2>1 DEF TidyProgram
  <2>3. {} \subseteq B
    OBVIOUS
  <2>4. Value(w, B)
    BY <2>2, <2>3, ValueWider
  <2>. QED
    BY <2>1, <2>4, <1>2, LoadsValue
<1>11. CASE GETGLOBAL
  BY <1>1, <1>5, <1>11 DEF GETGLOBAL, SetAcc
<1>12. CASE SETGLOBAL
  <2>1. PICK i \in DOMAIN globals : globals' = [globals EXCEPT ![i] = acc]
    BY <1>12 DEF SETGLOBAL
  <2>2. [globals EXCEPT ![i] = acc] \in Seq(V)
    BY <1>1, <2>1
  <2>. QED
    BY <1>1, <1>5, <1>12, <2>1, <2>2 DEF SETGLOBAL
<1>13. CASE APPTERM1
  <2>1. PICK n \in 1 .. Len(stack) : stack' = <<Head(stack)>> \o Drop(stack, n)
    BY <1>13 DEF APPTERM1
  <2>2. n \in 0 .. Len(stack) /\ Head(stack) \in V
    BY <1>1, <2>1
  <2>3. Drop(stack, n) \in Seq(V)
    BY <1>1, <2>2, DropSeq
  <2>4. <<Head(stack)>> \o Drop(stack, n) \in Seq(V)
    BY <2>2, <2>3, PushSeq
  <2>. QED
    BY <1>1, <1>5, <1>13, <2>1, <2>4 DEF APPTERM1
<1>. QED
  BY <1>6, <1>7, <1>8, <1>9, <1>10, <1>11, <1>12, <1>13

\* The closure that env points to: its code, then values.
LEMMA ClosureFields ==
  ASSUME NEW lo \in Int, NEW hi \in Int, NEW B, HeapOK(mem, lo, hi, B), NEW w, Value(w, B), IsClosure(w)
  PROVE  /\ w.at \in Int /\ w.at - 1 \in B /\ StartOf(mem, w) = w
         /\ Wosize_hd(Hd_val(mem, w)) \in Nat
         /\ \A i \in 0 .. Wosize_hd(Hd_val(mem, w)) - 1 :
              IF i = 0 THEN mem[w.at + i].kind = "code" ELSE Value(mem[w.at + i], B)
<1>1. /\ w \in Word /\ w.kind = "dyn" /\ Is_block(w) /\ Tag_hd(Hd_val(mem, w)) \in {Closure_tag, Infix_tag}
      /\ Hd_val(mem, w) = mem[w.at - 1]
  BY DEF IsClosure, IsBlockPtr, Is_block_in_dynamic_heap, Value, Hd_val
<1>2. w.at \in Int /\ w.at - 1 \in B
  BY <1>1, BlockAddress DEF Value
<1>3. BlockHeader(mem[w.at - 1])
  BY <1>2 DEF HeapOK, BlocksOK
<1>4. Tag_hd(mem[w.at - 1]) = Closure_tag /\ Wosize_hd(mem[w.at - 1]) \in Nat
  BY <1>1, <1>3, HeaderParts DEF BlockHeader
<1>5. StartOf(mem, w) = w
  BY <1>1, <1>4 DEF StartOf, Closure_tag, Infix_tag
<1>6. ASSUME NEW i \in 0 .. Wosize_hd(Hd_val(mem, w)) - 1
      PROVE IF i = 0 THEN mem[w.at + i].kind = "code" ELSE Value(mem[w.at + i], B)
  <2>1. /\ i + 1 \in 1 .. Wosize_hd(mem[w.at - 1]) /\ w.at - 1 + (i + 1) = w.at + i
        /\ i + 1 = 1 <=> i = 0
    BY <1>1, <1>2, <1>4
  <2>2. FieldOK(mem, w.at - 1, i + 1, B)
    <3>1. Tag_hd(mem[w.at - 1]) < No_scan_tag
      BY <1>4 DEF Closure_tag, No_scan_tag
    <3>. QED
      BY <1>2, <2>1, <3>1 DEF HeapOK, FieldsOK
  <2>. QED
    BY <2>1, <2>2, <1>4 DEF FieldOK, IsCode
<1>. QED
  BY <1>1, <1>2, <1>4, <1>5, <1>6

\* The instructions that read a field of a block, or move env within a closure.
LEMMA FieldReadsTidy ==
  ASSUME VMTypeOK, TidyProgram, NEW lo \in Int, NEW B, MachineOK(lo, B), GETFIELD \/ ENVACC \/ OFFSETCLOSURE
  PROVE  Tidied(lo)
<1>1. /\ HeapOK(mem, lo, heap_ptr, B) /\ lo >= StaticWosize /\ heap_ptr \in Int
      /\ Value(acc, B) /\ Value(env, B)
  BY DEF MachineOK, RegsOK, VMTypeOK
<1>2. pend.op = "none"
  BY DEF VMTypeOK, Running, GETFIELD, ENVACC, OFFSETCLOSURE
<1>3. CASE GETFIELD
  <2>1. PICK i \in 0 .. Wosize_hd(Hd_val(mem, acc)) - 1 : SetAcc(Field(mem, acc, i))
    BY <1>3 DEF GETFIELD
  <2>2. Value(mem[acc.at + i], B)
    BY <1>1, <1>3, <2>1, DataValues DEF GETFIELD
  <2>3. Value(Field(mem, acc, i), B)
    BY <2>2 DEF Field
  <2>. QED
    BY <1>2, <2>1, <2>3, LoadsValue
<1>4. CASE ENVACC \/ OFFSETCLOSURE
  <2>1. IsClosure(env)
    BY <1>4 DEF ENVACC, OFFSETCLOSURE
  <2>2. /\ env.at \in Int /\ env.at - 1 \in B /\ StartOf(mem, env) = env
        /\ Wosize_hd(Hd_val(mem, env)) \in Nat
        /\ \A i \in 0 .. Wosize_hd(Hd_val(mem, env)) - 1 :
             IF i = 0 THEN mem[env.at + i].kind = "code" ELSE Value(mem[env.at + i], B)
    BY <1>1, <2>1, ClosureFields
  <2>3. CASE ENVACC
    <3>1. PICK i \in EnvOffsets : Field(mem, env, i).kind # "code" /\ SetAcc(Field(mem, env, i))
      BY <2>3 DEF ENVACC
    <3>2. i \in 0 .. Wosize_hd(Hd_val(mem, env)) - 1
      BY <3>1, <2>2 DEF EnvOffsets
    <3>3. Value(Field(mem, env, i), B)
      BY <3>1, <3>2, <2>2 DEF Field
    <3>. QED
      BY <1>2, <3>1, <3>3, LoadsValue
  <2>4. CASE OFFSETCLOSURE
    <3>1. PICK a \in env.at .. env.at + 2 :
            a - env.at < Wosize_hd(Hd_val(mem, env)) /\ mem[a].kind = "code" /\ SetAcc(Val_dynamic_block(a))
      BY <2>2, <2>4 DEF OFFSETCLOSURE
    <3>2. a - env.at \in 0 .. Wosize_hd(Hd_val(mem, env)) - 1 /\ env.at + (a - env.at) = a
      BY <3>1, <2>2
    <3>3. a = env.at
      <4>1. a - env.at = 0
        BY <3>1, <3>2, <2>2 DEF Value
      <4>. QED
        BY <4>1, <3>1, <2>2
    <3>4. Value(Val_dynamic_block(a), B)
      <4>1. Val_dynamic_block(a) \in Word
        BY <3>3, <2>2, PointerWord
      <4>. QED
        BY <4>1, <3>3, <2>2 DEF Value, Val_dynamic_block
    <3>. QED
      BY <1>2, <3>1, <3>4, LoadsValue
  <2>. QED
    BY <1>4, <2>3, <2>4
<1>. QED
  BY <1>3, <1>4

\* SETFIELD writes the field of a block or of a static block.
LEMMA SetFieldTidy ==
  ASSUME VMTypeOK, TidyProgram, NEW lo \in Int, NEW B, MachineOK(lo, B), SETFIELD
  PROVE  Tidied(lo)
<1>1. /\ HeapOK(mem, lo, heap_ptr, B) /\ lo >= StaticWosize /\ heap_ptr \in Int /\ heap_ptr <= HeapWosize
      /\ Value(acc, B) /\ Value(env, B) /\ stack \in Seq(Values(B)) /\ globals \in Seq(Values(B))
      /\ mem \in [0 .. HeapWosize - 1 -> Word] /\ HeapWosize \in Nat
  BY HeapWosizeNat DEF MachineOK, RegsOK, VMTypeOK
<1>2. PICK i \in 0 .. Wosize_hd(Hd_val(mem, acc)) - 1 : mem' = [mem EXCEPT ![acc.at + i] = Head(stack)]
  BY DEF SETFIELD
<1>3. /\ IsData(acc) /\ stack # << >> /\ stack' = Tail(stack) /\ acc' = Val_unit
      /\ UNCHANGED <<heap_ptr, env, globals, pend>> /\ pend.op = "none"
  BY DEF SETFIELD, Running, VMTypeOK
<1>4. Writable(mem, acc.at + i, B) /\ acc.at + i \in Int
  <2>1. acc.at \in Int /\ Wosize_hd(Hd_val(mem, acc)) \in Nat /\ Writable(mem, acc.at + i, B)
    BY <1>1, <1>2, <1>3, DataValues
  <2>. QED
    BY <2>1
<1>5. Head(stack) \in Values(B) /\ Tail(stack) \in Seq(Values(B))
  BY <1>1, <1>3
<1>6. Value(Head(stack), B)
  BY <1>5, ValueMember
<1>7. HeapOK(mem', lo, heap_ptr, B)
  <2>1. PICK a : a = acc.at + i
    OBVIOUS
  <2>2. PICK m2 : m2 = mem'
    OBVIOUS
  <2>3. PICK v : v = Head(stack)
    OBVIOUS
  <2>4. a \in Int /\ Writable(mem, a, B) /\ Value(v, B)
    BY <2>1, <2>3, <1>4, <1>6
  <2>5. \A c \in 0 .. HeapWosize - 1 : m2[c] = IF c = a THEN v ELSE mem[c]
    BY <2>1, <2>2, <2>3, <1>1, <1>2
  <2>6. HeapOK(m2, lo, heap_ptr, B)
    BY <2>4, <2>5, <1>1, WriteKeepsHeap
  <2>. QED
    BY <2>2, <2>6
<1>8. RegsOK(acc', env', stack', globals', B)
  BY <1>1, <1>3, <1>5, ImmediateValue DEF RegsOK
<1>9. MachineOK(lo, B)'
  BY <1>1, <1>3, <1>7, <1>8 DEF MachineOK
<1>10. PendTidy'
  BY <1>3 DEF PendTidy
<1>. QED
  BY <1>9, <1>10 DEF Tidied

\* caml_update_dummy turns the dummy into a block of the size of newval.
LEMMA UpdateDummyTidy ==
  ASSUME VMTypeOK, TidyProgram, NEW lo \in Int, NEW B, MachineOK(lo, B), UpdateDummy
  PROVE  Tidied(lo)
<1>. DEFINE nv == Head(stack)
            h == Hd_val(mem, nv)
            d == acc.at - 1
<1>1. /\ HeapOK(mem, lo, heap_ptr, B) /\ lo >= StaticWosize /\ heap_ptr \in Int /\ heap_ptr <= HeapWosize
      /\ Value(acc, B) /\ Value(env, B) /\ stack \in Seq(Values(B)) /\ globals \in Seq(Values(B))
      /\ mem \in [0 .. HeapWosize - 1 -> Word] /\ HeapWosize \in Nat /\ StaticWosize \in Nat
      /\ StaticWosize <= HeapWosize
  BY HeapWosizeNat, SizesAssumption DEF MachineOK, RegsOK, VMTypeOK, HeapWosize
<1>2. /\ IsData(acc) /\ IsData(nv) /\ acc.kind = "dyn" /\ Wosize_hd(h) <= Wosize_hd(Hd_val(mem, acc))
      /\ mem' = [a \in DOMAIN mem |->
                  IF a = acc.at - 1 THEN [h EXCEPT !.id = mem[a].id]
                  ELSE IF a \in acc.at .. acc.at + Wosize_hd(h) - 1
                    THEN Field(mem, nv, a - acc.at)
                  ELSE mem[a]]
      /\ stack # << >> /\ stack' = Tail(stack) /\ acc' = Val_unit
      /\ UNCHANGED <<heap_ptr, env, globals, pend>> /\ pend.op = "none"
  BY DEF UpdateDummy, Running, VMTypeOK, Is_block_in_dynamic_heap
<1>3. nv \in Values(B) /\ Tail(stack) \in Seq(Values(B))
  BY <1>1, <1>2
<1>4. Value(nv, B)
  BY <1>3, ValueMember
<1>5. /\ nv.at \in Int /\ Wosize_hd(h) \in Nat
      /\ \A i \in 0 .. Wosize_hd(h) - 1 : Value(mem[nv.at + i], B)
      /\ nv.kind = "dyn" => nv.at - 1 \in B
      /\ nv.kind = "static" => nv.at \in ToSet(StaticBlocks) /\ h = StaticHeap[nv.at]
  BY <1>1, <1>2, <1>4, DataValues
<1>6. acc.at \in Int /\ d \in B /\ Wosize_hd(Hd_val(mem, acc)) \in Nat
  BY <1>1, <1>2, DataValues
<1>7. BlockHeader(h)
  <2>1. Tag_hd(h) = 0 /\ nv.kind \in {"dyn", "static"}
    BY <1>2 DEF IsData, IsBlockPtr, Is_block
  <2>2. CASE nv.kind = "dyn"
    BY <2>2, <1>1, <1>5 DEF HeapOK, BlocksOK, Hd_val
  <2>3. CASE nv.kind = "static"
    <3>1. IsHd(h) /\ h \in Word
      BY <2>3, <1>5, StaticAddresses
    <3>2. Wosize_hd(h) > 0 /\ h.low = Color_white
      BY <2>1, <2>3, <1>5 DEF TidyProgram
    <3>. QED
      BY <2>1, <3>1, <3>2 DEF BlockHeader, Infix_tag
  <2>. QED
    BY <2>1, <2>2, <2>3
<1>8. Tag_hd(h) = 0 /\ Tag_hd(mem[d]) = 0
  BY <1>2 DEF IsData, Hd_val
<1>9. /\ h \in [kind : {"hd"}, tag : Nat, size : Nat, low : 0 .. 3, id : Int]
      /\ mem[d] \in [kind : {"hd"}, tag : Nat, size : Nat, low : 0 .. 3, id : Int]
  BY <1>1, <1>6, <1>7, HeaderParts DEF HeapOK, BlocksOK
<1>10. PICK nh : nh = [h EXCEPT !.id = mem[d].id]
  OBVIOUS
<1>11. BlockHeader(nh) /\ Tag_hd(nh) = 0 /\ Wosize_hd(nh) = Wosize_hd(h)
  <2>1. /\ nh.kind = h.kind /\ nh.tag = h.tag /\ nh.size = h.size /\ nh.low = h.low
        /\ nh \in [kind : {"hd"}, tag : Nat, size : Nat, low : 0 .. 3, id : Int]
    BY <1>9, <1>10
  <2>2. nh \in Word
    BY <2>1 DEF Word
  <2>. QED
    BY <2>1, <2>2, <1>7, <1>8 DEF BlockHeader, IsHd, Tag_hd, Wosize_hd
<1>12. PICK size \in Nat : size = Wosize_hd(h)
  BY <1>5
<1>13. PICK old \in Nat : old = Wosize_hd(mem[d])
  BY <1>6 DEF Hd_val
<1>14. size <= old /\ size > 0 /\ acc.at = d + 1
  BY <1>2, <1>6, <1>7, <1>12, <1>13 DEF Hd_val, BlockHeader
<1>15. PICK m2 : m2 = mem'
  OBVIOUS
<1>16. PICK fields : fields = [i \in 1 .. size |-> mem[nv.at + (i - 1)]]
  OBVIOUS
<1>17. \A i \in 1 .. size : Value(fields[i], B)
  <2>. TAKE i \in 1 .. size
  <2>1. i - 1 \in 0 .. Wosize_hd(h) - 1
    BY <1>12
  <2>. QED
    BY <2>1, <1>5, <1>16
<1>18. d \in Int
  BY <1>6
<1>19. \A a \in 0 .. HeapWosize - 1 :
         m2[a] = IF a = d THEN nh ELSE IF a \in d + 1 .. d + size THEN fields[a - d] ELSE mem[a]
  <2>. TAKE a \in 0 .. HeapWosize - 1
  <2>1. m2[a] = IF a = d THEN [h EXCEPT !.id = mem[a].id]
                ELSE IF a \in acc.at .. acc.at + Wosize_hd(h) - 1 THEN Field(mem, nv, a - acc.at) ELSE mem[a]
    BY <1>1, <1>2, <1>15
  <2>2. (a \in acc.at .. acc.at + Wosize_hd(h) - 1) = (a \in d + 1 .. d + size)
    BY <1>12, <1>14, <1>18
  <2>3. a \in d + 1 .. d + size => Field(mem, nv, a - acc.at) = fields[a - d]
    <3>1. SUFFICES ASSUME a \in d + 1 .. d + size PROVE Field(mem, nv, a - acc.at) = fields[a - d]
      OBVIOUS
    <3>2. a - d \in 1 .. size /\ (a - d) - 1 = a - acc.at
      BY <3>1, <1>14, <1>18
    <3>. QED
      BY <3>2, <1>16 DEF Field
  <2>. QED
    BY <2>1, <2>2, <2>3, <1>10
<1>. HIDE DEF d, h, nv
<1>20. \A b \in B : /\ b \in lo .. heap_ptr - 1 /\ Wosize_hd(mem[b]) \in Nat /\ b + Wosize_hd(mem[b]) < heap_ptr
                    /\ \A c \in B : c <= b \/ c > b + Wosize_hd(mem[b])
  BY <1>1, HeaderParts DEF HeapOK, BlocksOK
<1>21. \A b \in B : m2[b] = IF b = d THEN nh ELSE mem[b]
  <2>. TAKE b \in B
  <2>1. b \in 0 .. HeapWosize - 1
    BY <1>1, <1>20
  <2>2. b # d => b \notin d + 1 .. d + size
    <3>1. d \in B /\ (b <= d \/ b > d + old) /\ b \in Int
      BY <1>6, <1>13, <1>20
    <3>. QED
      BY <3>1, <1>14, <1>18
  <2>. QED
    BY <2>1, <2>2, <1>19
<1>22. \A b \in B : Wosize_hd(m2[b]) \in Nat /\ Wosize_hd(m2[b]) <= Wosize_hd(mem[b])
                    /\ Tag_hd(m2[b]) = Tag_hd(mem[b]) /\ BlockHeader(m2[b])
  <2>1. \A b \in B : BlockHeader(mem[b])
    BY <1>1 DEF HeapOK, BlocksOK
  <2>. QED
    BY <2>1, <1>8, <1>11, <1>12, <1>13, <1>14, <1>20, <1>21
<1>23. BlocksOK(m2, lo, heap_ptr, B)
  BY <1>1, <1>20, <1>22 DEF BlocksOK
<1>24. FieldsOK(m2, B)
  <2>1. SUFFICES ASSUME NEW b \in B, Tag_hd(mem[b]) < No_scan_tag, NEW i \in 1 .. Wosize_hd(m2[b])
                 PROVE  FieldOK(m2, b, i, B)
    BY <1>22 DEF FieldsOK
  <2>2. i \in 1 .. Wosize_hd(mem[b]) /\ b + i \in 0 .. HeapWosize - 1 /\ b \in Int
    BY <1>1, <1>20, <1>22
  <2>3. FieldOK(mem, b, i, B)
    BY <2>1, <2>2, <1>1 DEF HeapOK, FieldsOK
  <2>4. CASE b = d
    <3>1. Wosize_hd(m2[b]) = size
      BY <2>4, <1>6, <1>11, <1>12, <1>21
    <3>2. i \in 1 .. size /\ b + i \in d + 1 .. d + size /\ b + i # d /\ b + i - d = i
      BY <2>2, <2>4, <3>1
    <3>3. m2[b + i] = fields[i]
      <4>1. PICK a \in 0 .. HeapWosize - 1 : a = b + i
        BY <2>2
      <4>2. a # d /\ a \in d + 1 .. d + size /\ a - d = i
        <5>1. a = d + i /\ i \in 1 .. size
          BY <4>1, <3>2, <2>4
        <5>. QED
          BY <5>1, <1>18
      <4>3. m2[a] = fields[a - d]
        BY <4>2, <1>19
      <4>. QED
        BY <4>1, <4>2, <4>3
    <3>. QED
      BY <3>2, <3>3, <2>4, <1>6, <1>8, <1>11, <1>17, <1>21 DEF FieldOK, Closure_tag
  <2>5. CASE b # d
    <3>1. b + i # d /\ b + i \notin d + 1 .. d + size
      BY <2>2, <2>5, <1>6, <1>13, <1>14, <1>18, <1>20
    <3>2. m2[b + i] = mem[b + i] /\ m2[b] = mem[b]
      BY <2>2, <2>5, <3>1, <1>19, <1>21
    <3>. QED
      BY <2>3, <3>2 DEF FieldOK
  <2>. QED
    BY <2>4, <2>5
<1>25. StaticOK(m2, B)
  <2>1. \A a \in 0 .. StaticWosize - 1 : m2[a] = mem[a]
    BY <1>1, <1>6, <1>18, <1>19, <1>20
  <2>. QED
    BY <2>1, <1>1 DEF HeapOK, StaticOK
<1>26. \A i \in 0 .. old - 1 : mem[acc.at + i] = Make_header(0, 0, 0)
  <2>. TAKE i \in 0 .. old - 1
  <2>1. i \in 0 .. Wosize_hd(Hd_val(mem, acc)) - 1
    BY <1>13 DEF d, Hd_val
  <2>2. IsHd(mem[acc.at + i])
    BY <2>1 DEF UpdateDummy, Field
  <2>3. Value(mem[acc.at + i], B)
    BY <2>1, <1>1, <1>2, DataValues
  <2>. QED
    BY <2>2, <2>3, HeaderValue
<1>27. Filled(m2, lo, heap_ptr, B)
  <2>1. SUFFICES ASSUME NEW a \in lo .. heap_ptr - 1, \A b \in B : a \notin b .. b + Wosize_hd(m2[b])
                 PROVE  m2[a] = Make_header(0, 0, 0)
    BY DEF Filled
  <2>2. a \in 0 .. HeapWosize - 1 /\ a \in Int
    BY <1>1
  <2>3. Wosize_hd(m2[d]) = size /\ a \notin d .. d + size
    BY <2>1, <1>6, <1>11, <1>12, <1>21
  <2>4. m2[a] = mem[a]
    BY <2>2, <2>3, <1>18, <1>19
  <2>5. CASE a \in d .. d + old
    <3>1. a - acc.at \in 0 .. old - 1 /\ acc.at + (a - acc.at) = a
      BY <2>2, <2>3, <2>5, <1>14, <1>18
    <3>. QED
      BY <3>1, <2>4, <1>26
  <2>6. CASE a \notin d .. d + old
    <3>1. \A b \in B : a \notin b .. b + Wosize_hd(mem[b])
      BY <2>1, <2>6, <1>13, <1>21
    <3>. QED
      BY <3>1, <2>4, <1>1 DEF HeapOK, Filled
  <2>. QED
    BY <2>5, <2>6
<1>28. HeapOK(mem', lo, heap_ptr', B)
  BY <1>2, <1>15, <1>23, <1>24, <1>25, <1>27 DEF HeapOK
<1>29. RegsOK(acc', env', stack', globals', B)
  BY <1>1, <1>2, <1>3, ImmediateValue DEF RegsOK
<1>30. MachineOK(lo, B)'
  BY <1>1, <1>28, <1>29 DEF MachineOK
<1>31. PendTidy'
  BY <1>2 DEF PendTidy
<1>. QED
  BY <1>30, <1>31 DEF Tidied

-----------------------------------------------------------------------------
(* Instructions that allocate.                                              *)

\* Reaching OCamlAlloc, with values on the stack and a block to build.
LEMMA BeginTidy ==
  ASSUME NEW lo, NEW B, MachineOK(lo, B),
         NEW op, NEW size, NEW tag, NEW n, NEW args, NEW st \in Seq(Values(B)),
         Begin(op, size, tag, n, args, st),
         pend' = [op |-> op, size |-> size, tag |-> tag, n |-> n, args |-> args] => PendTidy'
  PROVE  Tidied(lo)
<1>1. CASE Len(st) > StackWosize
  BY <1>1, RaiseAtOnceTidy DEF Begin
<1>2. CASE ~ (Len(st) > StackWosize)
  <2>1. PendTidy' /\ stack' = st /\ UNCHANGED <<heap, acc, env, globals>>
    BY <1>2 DEF Begin
  <2>2. RegsOK(acc', env', stack', globals', B) /\ HeapOK(mem', lo, heap_ptr', B)
    BY <2>1 DEF MachineOK, RegsOK, heap
  <2>3. MachineOK(lo, B)'
    BY <2>2 DEF MachineOK
  <2>. QED
    BY <2>1, <2>3 DEF Tidied
<1>. QED
  BY <1>1, <1>2

\* The instructions of a tidy program that allocate, up to OCamlAlloc.
LEMMA BeginInstructionsTidy ==
  ASSUME VMTypeOK, TidyProgram, NEW lo, NEW B, MachineOK(lo, B),
         MAKEBLOCK \/ CLOSURE \/ CLOSUREREC \/ CreateBytes \/ AllocDummy \/ GcRun
  PROVE  Tidied(lo)
<1>1. stack \in Seq(Values(B)) /\ acc \in Values(B)
  BY ValueMember DEF MachineOK, RegsOK
<1>2. <<acc>> \o stack \in Seq(Values(B))
  BY <1>1, PushSeq
<1>3. CASE MAKEBLOCK
  <2>1. PICK n \in MakeSizes : Begin("MAKEBLOCK", n, 0, n, << >>, stack)
    BY <1>3 DEF MAKEBLOCK
  <2>2. ASSUME pend' = [op |-> "MAKEBLOCK", size |-> n, tag |-> 0, n |-> n, args |-> << >>]
        PROVE PendTidy'
    BY <2>1, <2>2, SizesAssumption DEF PendTidy
  <2>. QED
    BY <1>1, <2>1, <2>2, BeginTidy
<1>4. CASE CLOSURE
  <2>1. PICK n \in EnvSizes : Begin("CLOSURE", n + 1, Closure_tag, n, << >>,
                                    IF n # 0 THEN <<acc>> \o stack ELSE stack)
    BY <1>4 DEF CLOSURE
  <2>2. PICK st : st = IF n # 0 THEN <<acc>> \o stack ELSE stack
    OBVIOUS
  <2>3. st \in Seq(Values(B)) /\ Begin("CLOSURE", n + 1, Closure_tag, n, << >>, st)
    BY <1>1, <1>2, <2>1, <2>2
  <2>4. ASSUME pend' = [op |-> "CLOSURE", size |-> n + 1, tag |-> Closure_tag, n |-> n, args |-> << >>]
        PROVE PendTidy'
    BY <2>4 DEF PendTidy
  <2>. QED
    BY <2>3, <2>4, BeginTidy
<1>5. CASE CLOSUREREC
  <2>1. PICK f \in RecFuns, v \in EnvSizes :
          Begin("CLOSUREREC", 2 * f - 1 + v, Closure_tag, f, << >>, IF v > 0 THEN <<acc>> \o stack ELSE stack)
    BY <1>5 DEF CLOSUREREC
  <2>2. f = 1
    BY <1>5 DEF TidyProgram, CLOSUREREC, Running
  <2>3. PICK st : st = IF v > 0 THEN <<acc>> \o stack ELSE stack
    OBVIOUS
  <2>4. PICK size : size = 2 * f - 1 + v
    OBVIOUS
  <2>5. size > 0
    BY <2>1, <2>2, <2>4, SizesAssumption
  <2>6. st \in Seq(Values(B)) /\ Begin("CLOSUREREC", size, Closure_tag, f, << >>, st)
    BY <1>1, <1>2, <2>1, <2>3, <2>4
  <2>7. ASSUME pend' = [op |-> "CLOSUREREC", size |-> size, tag |-> Closure_tag, n |-> f, args |-> << >>]
        PROVE PendTidy'
    BY <2>2, <2>5, <2>7 DEF PendTidy
  <2>. QED
    BY <2>6, <2>7, BeginTidy
<1>6. CASE CreateBytes
  <2>1. Begin("caml_create_bytes", 1, String_tag, 1, << >>, stack)
    BY <1>6 DEF CreateBytes
  <2>2. ASSUME pend' = [op |-> "caml_create_bytes", size |-> 1, tag |-> String_tag, n |-> 1, args |-> << >>]
        PROVE PendTidy'
    BY <2>2 DEF PendTidy
  <2>. QED
    BY <1>1, <2>1, <2>2, BeginTidy
<1>7. CASE AllocDummy
  <2>1. PICK n \in MakeSizes : Begin("caml_alloc_dummy", n, 0, n, << >>, stack)
    BY <1>7 DEF AllocDummy
  <2>2. ASSUME pend' = [op |-> "caml_alloc_dummy", size |-> n, tag |-> 0, n |-> n, args |-> << >>]
        PROVE PendTidy'
    BY <2>1, <2>2, SizesAssumption DEF PendTidy
  <2>. QED
    BY <1>1, <2>1, <2>2, BeginTidy
<1>8. CASE GcRun
  <2>1. UNCHANGED <<heap, regs>> /\ pend'.op = "caml_gc_run"
    BY <1>8 DEF GcRun, NoPend
  <2>2. MachineOK(lo, B)'
    BY <2>1 DEF MachineOK, heap, regs
  <2>3. PendTidy'
    BY <2>1 DEF PendTidy
  <2>. QED
    BY <2>2, <2>3 DEF Tidied
<1>. QED
  BY <1>3, <1>4, <1>5, <1>6, <1>7, <1>8

\* What the fields of a new block are made of.
Fresh(fs, size, tag, B) ==
  /\ fs \in Seq(Word) /\ Len(fs) = size
  /\ tag < No_scan_tag =>
       \A i \in 1 .. size : IF tag = Closure_tag /\ i = 1 THEN IsCode(fs[i]) ELSE Value(fs[i], B)

\* OCamlAlloc, then the instruction, add a block at heap_ptr.
LEMMA WriteTidy ==
  ASSUME VMTypeOK, NEW lo \in Int, lo <= heap_ptr, NEW B, MachineOK(lo, B), ~ Full(pend.size),
         pend.size > 0, pend.tag # Infix_tag,
         NEW fs, Fresh(fs, pend.size, pend.tag, B), Write(fs)
  PROVE  HeapOK(mem', lo, heap_ptr', B \cup {heap_ptr})
<1>1. /\ HeapOK(mem, lo, heap_ptr, B) /\ lo >= StaticWosize /\ heap_ptr \in Nat /\ heap_end <= HeapWosize
      /\ heap_end \in Int
      /\ mem \in [0 .. HeapWosize - 1 -> Word] /\ HeapWosize \in Nat /\ StaticWosize \in Nat
      /\ StaticWosize <= HeapWosize /\ pend.size \in Nat /\ pend.tag \in Nat
  BY HeapWosizeNat, SizesAssumption DEF MachineOK, RegsOK, VMTypeOK, HeapWosize, PendOK
<1>2. PICK p \in Nat : p = heap_ptr
  BY <1>1
<1>3. PICK size \in Nat : size = pend.size
  BY <1>1
<1>4. PICK nh : nh = Make_header(pend.size, pend.tag, FreshId)
  OBVIOUS
<1>5. PICK m2 : m2 = mem'
  OBVIOUS
<1>6. size > 0 /\ p + size < HeapWosize /\ lo <= p
  BY <1>1, <1>2, <1>3 DEF Full
<1>7. BlockHeader(nh) /\ Wosize_hd(nh) = size /\ Tag_hd(nh) = pend.tag
  <2>1. nh \in Word
    BY <1>1, <1>4, FreshIdInt, HeaderWord
  <2>. QED
    BY <2>1, <1>3, <1>4, <1>6 DEF BlockHeader, Make_header, IsHd, Tag_hd, Wosize_hd
<1>8. DOMAIN fs = 1 .. size
  BY <1>3, SeqElements DEF Fresh
<1>9. \A a \in 0 .. HeapWosize - 1 :
        m2[a] = IF a = p THEN nh ELSE IF a \in p + 1 .. p + size THEN fs[a - p] ELSE mem[a]
  <2>. TAKE a \in 0 .. HeapWosize - 1
  <2>1. m2[a] = IF a = heap_ptr THEN nh ELSE IF a - heap_ptr \in DOMAIN fs THEN fs[a - heap_ptr] ELSE mem[a]
    BY <1>1, <1>4, <1>5 DEF Write
  <2>2. (a - p \in 1 .. size) = (a \in p + 1 .. p + size)
    OBVIOUS
  <2>. QED
    BY <2>1, <2>2, <1>2, <1>8
<1>10. heap_ptr' = p + 1 + size
  BY <1>2, <1>3 DEF Write
<1>11. \A b \in B : /\ b \in lo .. p - 1 /\ Wosize_hd(mem[b]) \in Nat /\ b + Wosize_hd(mem[b]) < p
                    /\ \A c \in B : c <= b \/ c > b + Wosize_hd(mem[b])
  BY <1>1, <1>2, HeaderParts DEF HeapOK, BlocksOK
<1>12. \A b \in B : m2[b] = mem[b] /\ BlockHeader(mem[b]) /\ b # p
  <2>1. \A b \in B : b \in 0 .. HeapWosize - 1 /\ b < p /\ b \in Int
    BY <1>1, <1>6, <1>11
  <2>2. \A b \in B : m2[b] = mem[b]
    BY <2>1, <1>9
  <2>. QED
    BY <2>1, <2>2, <1>1 DEF HeapOK, BlocksOK
<1>13. m2[p] = nh
  <2>1. p \in 0 .. HeapWosize - 1
    BY <1>6, <1>1
  <2>. QED
    BY <2>1, <1>9
<1>14. PICK C : C = B \cup {p}
  OBVIOUS
<1>15. BlocksOK(m2, lo, p + 1 + size, C)
  <2>1. SUFFICES ASSUME NEW b \in C
                 PROVE  /\ b \in lo .. (p + 1 + size) - 1 /\ BlockHeader(m2[b])
                        /\ b + Wosize_hd(m2[b]) < p + 1 + size
                        /\ \A c \in C : c <= b \/ c > b + Wosize_hd(m2[b])
    BY DEF BlocksOK
  <2>2. CASE b = p
    <3>1. \A c \in C : c <= b
      BY <2>2, <1>11, <1>14
    <3>. QED
      BY <2>2, <3>1, <1>6, <1>7, <1>13
  <2>3. CASE b \in B
    <3>1. b \in lo .. p - 1 /\ Wosize_hd(mem[b]) \in Nat /\ b + Wosize_hd(mem[b]) < p
          /\ \A c \in B : c <= b \/ c > b + Wosize_hd(mem[b])
      BY <2>3, <1>11
    <3>2. m2[b] = mem[b] /\ BlockHeader(mem[b])
      BY <2>3, <1>12
    <3>. QED
      BY <3>1, <3>2, <1>6, <1>14
  <2>. QED
    BY <2>1, <2>2, <2>3, <1>14
<1>16. \A w : Value(w, B) => Value(w, C)
  BY <1>14, ValueWider
<1>17. FieldsOK(m2, C)
  <2>1. SUFFICES ASSUME NEW b \in C, Tag_hd(m2[b]) < No_scan_tag, NEW i \in 1 .. Wosize_hd(m2[b])
                 PROVE  FieldOK(m2, b, i, C)
    BY DEF FieldsOK
  <2>2. CASE b = p
    <3>1. i \in 1 .. size /\ Tag_hd(m2[b]) = pend.tag
      BY <2>2, <1>7, <1>13
    <3>2. m2[b + i] = fs[i]
      <4>1. p + i \in 0 .. HeapWosize - 1 /\ p + i # p /\ p + i \in p + 1 .. p + size /\ (p + i) - p = i
        BY <3>1, <1>1, <1>6
      <4>2. m2[p + i] = fs[(p + i) - p]
        BY <4>1, <1>9
      <4>. QED
        BY <2>2, <4>1, <4>2
    <3>3. IF pend.tag = Closure_tag /\ i = 1 THEN IsCode(fs[i]) ELSE Value(fs[i], B)
      BY <2>1, <3>1, <1>3 DEF Fresh
    <3>. QED
      BY <3>1, <3>2, <3>3, <1>16 DEF FieldOK
  <2>3. CASE b \in B
    <3>1. m2[b] = mem[b]
      BY <2>3, <1>12
    <3>2. FieldOK(mem, b, i, B)
      BY <2>1, <2>3, <3>1, <1>1 DEF HeapOK, FieldsOK
    <3>3. b + i \in 0 .. HeapWosize - 1 /\ b + i < p /\ b + i \in Int
      <4>1. b \in lo .. p - 1 /\ Wosize_hd(mem[b]) \in Nat /\ b + Wosize_hd(mem[b]) < p
            /\ i \in 1 .. Wosize_hd(mem[b])
        BY <2>1, <2>3, <3>1, <1>11
      <4>. QED
        BY <4>1, <1>1, <1>6
    <3>4. m2[b + i] = mem[b + i]
      BY <3>3, <1>9
    <3>. QED
      BY <3>1, <3>2, <3>4, <1>16 DEF FieldOK
  <2>. QED
    BY <2>1, <2>2, <2>3, <1>14
<1>18. StaticOK(m2, C)
  <2>1. \A a \in 0 .. StaticWosize - 1 : m2[a] = mem[a]
    <3>1. \A a \in 0 .. StaticWosize - 1 : a \in 0 .. HeapWosize - 1 /\ a < p /\ a \in Int
      BY <1>1, <1>6
    <3>. QED
      BY <3>1, <1>9
  <2>. QED
    BY <2>1, <1>1, <1>16 DEF HeapOK, StaticOK
<1>19. Filled(m2, lo, p + 1 + size, C)
  <2>1. SUFFICES ASSUME NEW a \in lo .. (p + 1 + size) - 1, \A b \in C : a \notin b .. b + Wosize_hd(m2[b])
                 PROVE  m2[a] = Make_header(0, 0, 0)
    BY DEF Filled
  <2>2. a \notin p .. p + size /\ \A b \in B : a \notin b .. b + Wosize_hd(mem[b])
    BY <2>1, <1>7, <1>12, <1>13, <1>14
  <2>3. a \in lo .. p - 1 /\ a \in 0 .. HeapWosize - 1 /\ a # p
    BY <2>2, <1>1, <1>6
  <2>4. m2[a] = mem[a]
    BY <2>2, <2>3, <1>9
  <2>. QED
    BY <2>2, <2>3, <2>4, <1>1, <1>2 DEF HeapOK, Filled
<1>20. HeapOK(mem', lo, heap_ptr', C)
  BY <1>5, <1>10, <1>15, <1>17, <1>18, <1>19 DEF HeapOK
<1>. QED
  BY <1>2, <1>14, <1>20

\* The instruction ends with the new block in acc.
LEMMA BuildTidy ==
  ASSUME VMTypeOK, NEW lo \in Int, lo <= heap_ptr, NEW B, MachineOK(lo, B), ~ Full(pend.size),
         pend.size > 0, pend.tag # Infix_tag,
         NEW fs, Fresh(fs, pend.size, pend.tag, B),
         NEW st, st \in Seq(Values(B \cup {heap_ptr})), Build(fs, st)
  PROVE  Tidied(lo)
<1>1. lo >= StaticWosize /\ heap_ptr \in Nat /\ Value(env, B) /\ globals \in Seq(Values(B))
  BY DEF MachineOK, RegsOK, VMTypeOK
<1>2. PICK p \in Nat : p = heap_ptr
  BY <1>1
<1>3. PICK C : C = B \cup {p}
  OBVIOUS
<1>4. HeapOK(mem', lo, heap_ptr', C)
  BY <1>2, <1>3, WriteTidy DEF Build
<1>5. acc' = Val_dynamic_block(p + 1) /\ stack' = st /\ UNCHANGED <<env, globals>> /\ pend' = NoPend
  BY <1>2 DEF Build
<1>6. \A w : Value(w, B) => Value(w, C)
  BY <1>3, ValueWider
<1>7. RegsOK(acc', env', stack', globals', C)
  <2>1. Value(acc', C)
    <3>1. Val_dynamic_block(p + 1) \in Word /\ (p + 1) - 1 = p
      BY PointerWord
    <3>. QED
      BY <3>1, <1>3, <1>5 DEF Value, Val_dynamic_block
  <2>2. Value(env', C)
    BY <1>1, <1>5, <1>6
  <2>3. stack' \in Seq(Values(C))
    BY <1>2, <1>3, <1>5
  <2>4. globals' \in Seq(Values(C))
    <3>1. Values(B) \subseteq Values(C)
      BY <1>6 DEF Values
    <3>. QED
      BY <3>1, <1>1, <1>5, WiderSequence
  <2>. QED
    BY <2>1, <2>2, <2>3, <2>4 DEF RegsOK
<1>8. MachineOK(lo, C)'
  BY <1>1, <1>4, <1>7 DEF MachineOK, StaticWosize
<1>9. PendTidy'
  BY <1>5 DEF PendTidy, NoPend
<1>. QED
  BY <1>8, <1>9 DEF Tidied

\* The n values on top of the stack, and those below.
LEMMA SplitValues ==
  ASSUME NEW V, NEW s \in Seq(V), NEW n \in 0 .. Len(s)
  PROVE  /\ Take(s, n) \in Seq(V) /\ Len(Take(s, n)) = n
         /\ Drop(s, n) \in Seq(V)
         /\ \A i \in 1 .. n : Take(s, n)[i] \in V
  BY TakeSeq, DropSeq

\* A first field, then values from the stack.
LEMMA FreshFields ==
  ASSUME NEW B, NEW size \in Nat, NEW tag, NEW w \in Word, NEW ws \in Seq(Values(B)), size = Len(ws) + 1,
         IF tag = Closure_tag THEN IsCode(w) ELSE Value(w, B)
  PROVE  Fresh(<<w>> \o ws, size, tag, B)
<1>1. ws \in Seq(Word)
  <2>1. Values(B) \subseteq Word
    BY DEF Values
  <2>. QED
    BY <2>1, WiderSequence
<1>2. <<w>> \o ws \in Seq(Word) /\ Len(<<w>> \o ws) = size
  BY <1>1, PushSeq
<1>3. ASSUME NEW i \in 1 .. size
      PROVE  IF tag = Closure_tag /\ i = 1 THEN IsCode((<<w>> \o ws)[i]) ELSE Value((<<w>> \o ws)[i], B)
  <2>1. CASE i = 1
    BY <2>1
  <2>2. CASE i # 1
    <3>1. i - 1 \in 1 .. Len(ws) /\ (<<w>> \o ws)[i] = ws[i - 1]
      BY <2>2
    <3>2. ws[i - 1] \in Values(B)
      BY <3>1
    <3>3. Value(ws[i - 1], B)
      BY <3>2, ValueMember
    <3>. QED
      BY <2>2, <3>1, <3>3
  <2>. QED
    BY <2>1, <2>2
<1>. QED
  BY <1>2, <1>3 DEF Fresh

\* The instructions of a tidy program that allocate, from OCamlAlloc on.
LEMMA AllocateTidy ==
  ASSUME VMTypeOK, TidyProgram, PendTidy, NEW lo \in Int, lo <= heap_ptr, NEW B, MachineOK(lo, B),
         OCamlAlloc \/ GcRunReturns
  PROVE  Tidied(lo)
<1>1. /\ acc \in Values(B) /\ Value(acc, B) /\ acc \in Word
      /\ stack \in Seq(Values(B)) /\ Len(stack) \in Nat /\ DOMAIN stack = 1 .. Len(stack)
      /\ pend.size \in Nat /\ pend.n \in Nat
  BY ValueMember, SeqElements DEF MachineOK, RegsOK, VMTypeOK, PendOK
<1>. DEFINE C == B \cup {heap_ptr}
<1>2. \A s \in Seq(Values(B)) : s \in Seq(Values(C))
  <2>1. Values(B) \subseteq Values(C)
    BY ValueWider DEF Values
  <2>. QED
    BY <2>1, WiderSequence
<1>3. ASSUME ~ Full(pend.size), pend.size > 0, pend.tag # Infix_tag,
             NEW fs, Fresh(fs, pend.size, pend.tag, B), NEW st \in Seq(Values(C)), Build(fs, st)
      PROVE  Tidied(lo)
  BY <1>3, BuildTidy
<1>. HIDE DEF C
<1>4. CASE GcRunReturns
  <2>1. acc' = Val_unit /\ UNCHANGED <<heap, env, stack, globals>> /\ pend' = NoPend
    BY <1>4 DEF GcRunReturns
  <2>2. RegsOK(acc', env', stack', globals', B) /\ HeapOK(mem', lo, heap_ptr', B)
    BY <2>1, ImmediateValue DEF MachineOK, RegsOK, heap
  <2>3. MachineOK(lo, B)'
    BY <2>2 DEF MachineOK
  <2>4. PendTidy'
    BY <2>1 DEF PendTidy, NoPend
  <2>. QED
    BY <2>3, <2>4 DEF Tidied
<1>5. CASE OCamlAlloc /\ Full(pend.size)
  BY <1>5, RaiseAtOnceTidy DEF OCamlAlloc
<1>6. CASE OCamlAlloc /\ ~ Full(pend.size)
  <2>1. Allocate /\ pend.op # "caml_gc_run"
    BY <1>6 DEF OCamlAlloc
  <2>2. CASE pend.op = "MAKEBLOCK" /\ BuildBlock
    <3>1. pend.size = pend.n /\ pend.n > 0 /\ pend.tag = 0 /\ pend.n - 1 \in 0 .. Len(stack)
      BY <2>2, <1>1 DEF PendTidy, VMTypeOK, PendOK
    <3>2. /\ Take(stack, pend.n - 1) \in Seq(Values(B)) /\ Len(Take(stack, pend.n - 1)) = pend.n - 1
          /\ Drop(stack, pend.n - 1) \in Seq(Values(B))
      BY <1>1, <3>1, SplitValues
    <3>3. pend.size = Len(Take(stack, pend.n - 1)) + 1
      BY <3>1, <3>2, <1>1
    <3>4. pend.tag # Closure_tag /\ pend.tag # Infix_tag
      BY <3>1 DEF Closure_tag, Infix_tag
    <3>5. Fresh(<<acc>> \o Take(stack, pend.n - 1), pend.size, pend.tag, B)
      BY <1>1, <3>2, <3>3, <3>4, FreshFields
    <3>6. Drop(stack, pend.n - 1) \in Seq(Values(C))
      BY <3>2, <1>2
    <3>7. Build(<<acc>> \o Take(stack, pend.n - 1), Drop(stack, pend.n - 1))
      BY <2>2 DEF BuildBlock
    <3>. QED
      BY <1>3, <1>6, <3>1, <3>4, <3>5, <3>6, <3>7
  <2>3. CASE pend.op = "CLOSURE" /\ BuildClosure
    <3>1. pend.size = pend.n + 1 /\ pend.tag = Closure_tag /\ pend.n \in 0 .. Len(stack)
      BY <2>3, <1>1 DEF PendTidy, VMTypeOK, PendOK
    <3>2. /\ Take(stack, pend.n) \in Seq(Values(B)) /\ Len(Take(stack, pend.n)) = pend.n
          /\ Drop(stack, pend.n) \in Seq(Values(B))
      BY <1>1, <3>1, SplitValues
    <3>3. pend.size = Len(Take(stack, pend.n)) + 1 /\ pend.size > 0
      BY <3>1, <3>2, <1>1
    <3>4. Code(0) \in Word /\ IsCode(Code(0))
      BY ImmediateWord DEF Code, Val_codeptr, IsCode, Color_black
    <3>5. Fresh(<<Code(0)>> \o Take(stack, pend.n), pend.size, pend.tag, B)
      BY <1>1, <3>1, <3>2, <3>3, <3>4, FreshFields
    <3>6. Drop(stack, pend.n) \in Seq(Values(C))
      BY <3>2, <1>2
    <3>7. Build(<<Code(0)>> \o Take(stack, pend.n), Drop(stack, pend.n))
      BY <2>3 DEF BuildClosure
    <3>8. pend.tag # Infix_tag
      BY <3>1 DEF Closure_tag, Infix_tag
    <3>. QED
      BY <1>3, <1>6, <3>3, <3>5, <3>6, <3>7, <3>8
  <2>4. CASE pend.op = "CLOSUREREC" /\ BuildClosureRec
    <3>. DEFINE v == pend.size - (2 * pend.n - 1)
                code == [k \in 1 .. 2 * pend.n - 1 |->
                           IF k % 2 = 1 THEN Code(k \div 2) ELSE Make_header(k, Infix_tag, 0)]
                new == [i \in 1 .. pend.n |-> Val_dynamic_block(heap_ptr + 1 + 2 * (pend.n - i))]
    <3>1. pend.n = 1 /\ pend.size > 0 /\ pend.tag = Closure_tag /\ v \in 0 .. Len(stack)
      BY <2>4, <1>1 DEF PendTidy, VMTypeOK, PendOK
    <3>2. v = pend.size - 1
      BY <3>1, <1>1
    <3>3. code = <<Code(0)>>
      <4>1. 2 * pend.n - 1 = 1
        BY <3>1
      <4>2. code = [k \in 1 .. 1 |-> IF k % 2 = 1 THEN Code(k \div 2) ELSE Make_header(k, Infix_tag, 0)]
        BY <4>1
      <4>3. \A k \in 1 .. 1 : k % 2 = 1 /\ k \div 2 = 0
        OBVIOUS
      <4>4. code = [k \in 1 .. 1 |-> Code(0)]
        BY <4>2, <4>3
      <4>. QED
        BY <4>4
    <3>4. new = <<Val_dynamic_block(heap_ptr + 1)>>
      <4>1. heap_ptr \in Int
        BY DEF VMTypeOK
      <4>2. new = [i \in 1 .. 1 |-> Val_dynamic_block(heap_ptr + 1 + 2 * (1 - i))]
        BY <3>1
      <4>3. \A i \in 1 .. 1 : heap_ptr + 1 + 2 * (1 - i) = heap_ptr + 1
        BY <4>1
      <4>4. new = [i \in 1 .. 1 |-> Val_dynamic_block(heap_ptr + 1)]
        BY <4>2, <4>3
      <4>. QED
        BY <4>4
    <3>5. /\ Take(stack, v) \in Seq(Values(B)) /\ Len(Take(stack, v)) = v
          /\ Drop(stack, v) \in Seq(Values(B))
      BY <1>1, <3>1, SplitValues
    <3>6. PICK st : st = new \o Drop(stack, v)
      OBVIOUS
    <3>7. \/ /\ Len(st) > StackWosize
             /\ Write(code \o Take(stack, v)) /\ Raise(Drop(st, Len(st) - StackWosize))
          \/ Build(code \o Take(stack, v), st)
      BY <2>4, <3>6 DEF BuildClosureRec
    <3>. HIDE DEF v, code, new
    <3>8. pend.size = Len(Take(stack, v)) + 1
      BY <3>2, <3>5, <1>1
    <3>9. Code(0) \in Word /\ IsCode(Code(0))
      BY ImmediateWord DEF Code, Val_codeptr, IsCode, Color_black
    <3>10. Fresh(<<Code(0)>> \o Take(stack, v), pend.size, pend.tag, B)
      BY <1>1, <3>1, <3>5, <3>8, <3>9, FreshFields
    <3>11. st \in Seq(Values(C))
      <4>1. Val_dynamic_block(heap_ptr + 1) \in Values(C)
        <5>1. heap_ptr \in Int
          BY DEF VMTypeOK
        <5>2. Val_dynamic_block(heap_ptr + 1) \in Word /\ (heap_ptr + 1) - 1 = heap_ptr
          BY <5>1, PointerWord
        <5>. QED
          BY <5>2 DEF Values, Value, Val_dynamic_block, C
      <4>2. Drop(stack, v) \in Seq(Values(C))
        BY <3>5, <1>2
      <4>. QED
        BY <3>4, <3>6, <4>1, <4>2, PushSeq
    <3>12. pend.tag # Infix_tag
      BY <3>1 DEF Closure_tag, Infix_tag
    <3>13. CASE /\ Len(st) > StackWosize
                /\ Write(code \o Take(stack, v)) /\ Raise(Drop(st, Len(st) - StackWosize))
      <4>1. Write(<<Code(0)>> \o Take(stack, v))
        BY <3>3, <3>13
      <4>2. HeapOK(mem', lo, heap_ptr', C)
        BY <1>6, <3>1, <3>10, <3>12, <4>1, WriteTidy DEF C
      <4>3. lo >= StaticWosize /\ Value(env, C) /\ globals \in Seq(Values(C))
        BY <1>2, ValueWider DEF MachineOK, RegsOK, C
      <4>4. Len(st) - StackWosize \in 0 .. Len(st)
        BY <3>11, <3>13, SizesAssumption
      <4>5. Drop(st, Len(st) - StackWosize) \in Seq(Values(C))
        BY <3>11, <4>4, DropSeq
      <4>. QED
        BY <3>13, <4>2, <4>3, <4>5, RaiseTidy
    <3>14. CASE Build(code \o Take(stack, v), st)
      <4>1. Build(<<Code(0)>> \o Take(stack, v), st)
        BY <3>3, <3>14
      <4>. QED
        BY <1>3, <1>6, <3>1, <3>10, <3>11, <3>12, <4>1
    <3>. QED
      BY <3>7, <3>13, <3>14
  <2>5. CASE pend.op = "caml_create_bytes" /\ BuildBytes
    <3>1. pend.size = 1 /\ pend.tag = String_tag
      BY <2>5 DEF PendTidy
    <3>2. PICK w \in RawWords : Build(<<w>>, stack)
      BY <2>5 DEF BuildBytes
    <3>3. Fresh(<<w>>, pend.size, pend.tag, B)
      BY <3>1, <3>2, WordsAssumption DEF Fresh, String_tag, No_scan_tag
    <3>4. pend.tag # Infix_tag /\ pend.size > 0 /\ stack \in Seq(Values(C))
      BY <3>1, <1>1, <1>2 DEF Infix_tag, String_tag
    <3>. QED
      BY <1>3, <1>6, <3>2, <3>3, <3>4
  <2>6. CASE pend.op = "caml_alloc_dummy" /\ BuildDummy
    <3>1. pend.size = pend.n /\ pend.n > 0 /\ pend.tag = 0
      BY <2>6 DEF PendTidy
    <3>2. PICK fs : fs = [i \in 1 .. pend.n |-> Make_header(0, 0, 0)]
      OBVIOUS
    <3>3. Build(fs, stack)
      BY <2>6, <3>2 DEF BuildDummy
    <3>4. Make_header(0, 0, 0) \in Word /\ Value(Make_header(0, 0, 0), B)
      BY HeaderWord, ImmediateValue
    <3>5. fs \in Seq(Word) /\ Len(fs) = pend.n
      <4>1. fs \in [1 .. pend.n -> Word]
        BY <3>2, <3>4
      <4>. QED
        BY <4>1, <1>1, FunctionSeq
    <3>6. Fresh(fs, pend.size, pend.tag, B)
      <4>1. \A i \in 1 .. pend.size : Value(fs[i], B)
        BY <3>1, <3>2, <3>4
      <4>2. pend.tag # Closure_tag /\ Len(fs) = pend.size
        BY <3>1, <3>5 DEF Closure_tag
      <4>. QED
        BY <4>1, <4>2, <3>5 DEF Fresh
    <3>7. pend.tag # Infix_tag /\ pend.size > 0 /\ stack \in Seq(Values(C))
      BY <3>1, <1>1, <1>2 DEF Infix_tag
    <3>. QED
      BY <1>3, <1>6, <3>3, <3>6, <3>7
  <2>. QED
    BY <2>1, <2>2, <2>3, <2>4, <2>5, <2>6 DEF PendTidy, Allocate
<1>. QED
  BY <1>4, <1>5, <1>6

\* Every instruction of a tidy program leaves a well-formed machine: each pointer, in a
\* variable or in a field, is to a block that is there.
THEOREM InstructionTidy ==
  ASSUME VMTypeOK, TidyProgram, PendTidy, NEW lo \in Int, lo <= heap_ptr, NEW B, MachineOK(lo, B), Instruction
  PROVE  Tidied(lo)
<1>1. ~ ObjDup /\ ~ MakeVect /\ ~ ArraySub /\ ~ ArrayAppend
  BY DEF TidyProgram, ObjDup, MakeVect, ArraySub, ArrayAppend, Running
<1>. QED
  BY <1>1, RegisterInstructionsTidy, FieldReadsTidy, SetFieldTidy, UpdateDummyTidy, BeginInstructionsTidy,
     AllocateTidy DEF Instruction

\* No instruction runs inside gc().
LEMMA InstructionControl == ASSUME Instruction PROVE ctl \in {"run", "alloc", "done"}
  BY DEF Instruction, Running, ACC, PUSH, POP, ASSIGN, CONST, GETGLOBAL, SETGLOBAL, GETFIELD,
         SETFIELD, ENVACC, OFFSETCLOSURE, APPTERM1, MAKEBLOCK, CLOSURE, CLOSUREREC, CreateBytes,
         AllocDummy, ObjDup, MakeVect, ArraySub, ArrayAppend, GcRun, UpdateDummy, OCamlAlloc,
         GcRunReturns

\* No instruction misreads memory.
LEMMA InstructionEnds == ASSUME Instruction, VMTypeOK PROVE ctl' # "wild"
<1>0. ASSUME NEW st, Raise(st) PROVE ctl' # "wild"
  BY <1>0 DEF Raise
<1>1. CASE ACC \/ PUSH \/ POP \/ ASSIGN \/ CONST \/ GETGLOBAL \/ SETGLOBAL \/ GETFIELD \/ SETFIELD
            \/ ENVACC \/ OFFSETCLOSURE \/ APPTERM1 \/ GcRun \/ UpdateDummy \/ GcRunReturns
  BY <1>0, <1>1 DEF ACC, PUSH, POP, ASSIGN, CONST, GETGLOBAL, SETGLOBAL, GETFIELD, SETFIELD, ENVACC,
              OFFSETCLOSURE, APPTERM1, GcRun, UpdateDummy, GcRunReturns, Running, SetAcc
<1>2. ASSUME NEW op, NEW size, NEW tag, NEW n, NEW args, NEW st, Begin(op, size, tag, n, args, st)
      PROVE  ctl' # "wild"
  BY <1>0, <1>2 DEF Begin
<1>3. CASE MAKEBLOCK \/ CLOSURE \/ CLOSUREREC \/ CreateBytes \/ AllocDummy \/ ObjDup \/ MakeVect
             \/ ArraySub \/ ArrayAppend
  BY <1>2, <1>3 DEF MAKEBLOCK, CLOSURE, CLOSUREREC, CreateBytes, AllocDummy, ObjDup, MakeVect,
                    ArraySub, ArrayAppend
<1>4. ASSUME NEW fs, NEW st, Build(fs, st) PROVE ctl' # "wild"
  BY <1>4 DEF Build
<1>5. CASE OCamlAlloc
  BY <1>0, <1>4, <1>5 DEF OCamlAlloc, Allocate, BuildBlock, BuildClosure, BuildClosureRec, BuildBytes,
                    BuildDummy, BuildDup, BuildVect, BuildSub, BuildAppend
<1>. QED
  BY <1>1, <1>3, <1>5 DEF Instruction

-----------------------------------------------------------------------------
(* Words at addresses, as the collectors see them.                        *)

Memories == [0 .. HeapWosize - 1 -> Word]

\* What a store leaves of the machine.
WordsKept ==
  /\ mem' \in Memories /\ acc' \in Word /\ env' \in Word
  /\ stack' \in Seq(Word) /\ Len(stack') = Len(stack)
  /\ globals' \in Seq(Word) /\ Len(globals') = Len(globals)

\* Storing a word at an address keeps every word a word.
LEMMA PutType ==
  ASSUME VMTypeOK, NEW a \in Int, NEW w \in Word, NEW m \in Memories, Put(a, w, m),
         a >= 0 => a \in 0 .. HeapWosize - 1
  PROVE  WordsKept
<1> USE DEF VMTypeOK
<1>1. mem' \in Memories
  BY DEF Put, Memories
<1>2. acc' \in Word /\ env' \in Word
  BY DEF Put
<1>3. stack' \in Seq(Word) /\ Len(stack') = Len(stack)
  <2>1. stack' \in [1 .. Len(stack) -> Word]
    BY DEF Put
  <2>2. Len(stack) \in Nat
    OBVIOUS
  <2>3. QED BY <2>1, <2>2, FunctionSeq
<1>4. globals' \in Seq(Word) /\ Len(globals') = Len(globals)
  <2>1. globals' \in [1 .. Len(globals) -> Word]
    BY DEF Put
  <2>2. Len(globals) \in Nat
    OBVIOUS
  <2>3. QED BY <2>1, <2>2, FunctionSeq
<1>5. QED BY <1>1, <1>2, <1>3, <1>4 DEF WordsKept

\* Whose addresses the roots are.
RootSet ==
  {stack_addr(i) : i \in 1 .. Len(stack)} \cup {global_addr(i) : i \in 1 .. Len(globals)}
    \cup ToSet(StaticFields) \cup {acc_addr, env_addr}

\* At, of any memory and variables.
WordAt(a, m, ac, en, st, gl) ==
  IF a >= 0 THEN m[a]
  ELSE IF a = acc_addr THEN ac
  ELSE IF a = env_addr THEN en
  ELSE IF a >= stack_addr(StackWosize) THEN st[stack_addr(0) - a]
  ELSE gl[global_addr(0) - a]

\* What is at each address.
AtCases(m, ac, en, st, gl) ==
  /\ WordAt(acc_addr, m, ac, en, st, gl) = ac /\ WordAt(env_addr, m, ac, en, st, gl) = en
  /\ \A i \in 1 .. Len(st) : WordAt(stack_addr(i), m, ac, en, st, gl) = st[i]
  /\ \A i \in Nat \ {0} : WordAt(global_addr(i), m, ac, en, st, gl) = gl[i]
  /\ \A a \in Nat : WordAt(a, m, ac, en, st, gl) = m[a]

\* A word looked up by its address, for each kind of address.
LEMMA WordAtCases ==
  ASSUME NEW m, NEW ac, NEW en, NEW st, NEW gl, Len(st) \in Nat, Len(st) <= StackWosize
  PROVE  AtCases(m, ac, en, st, gl)
<1>1. StackWosize \in Nat
  BY SizesAssumption
<1>2. WordAt(acc_addr, m, ac, en, st, gl) = ac /\ WordAt(env_addr, m, ac, en, st, gl) = en
  BY DEF WordAt, acc_addr, env_addr
<1>3. ASSUME NEW i \in 1 .. Len(st) PROVE WordAt(stack_addr(i), m, ac, en, st, gl) = st[i]
  <2>1. /\ ~ (stack_addr(i) >= 0) /\ stack_addr(i) # acc_addr /\ stack_addr(i) # env_addr
        /\ stack_addr(i) >= stack_addr(StackWosize) /\ stack_addr(0) - stack_addr(i) = i
    BY <1>1 DEF stack_addr, acc_addr, env_addr
  <2>. QED
    BY <2>1 DEF WordAt
<1>4. ASSUME NEW i \in Nat \ {0} PROVE WordAt(global_addr(i), m, ac, en, st, gl) = gl[i]
  <2>1. /\ ~ (global_addr(i) >= 0) /\ global_addr(i) # acc_addr /\ global_addr(i) # env_addr
        /\ ~ (global_addr(i) >= stack_addr(StackWosize)) /\ global_addr(0) - global_addr(i) = i
    BY <1>1 DEF stack_addr, global_addr, acc_addr, env_addr
  <2>. QED
    BY <2>1 DEF WordAt
<1>5. \A a \in Nat : WordAt(a, m, ac, en, st, gl) = m[a]
  BY DEF WordAt
<1>. QED
  BY <1>2, <1>3, <1>4, <1>5 DEF AtCases

\* At looks up the memory and the variables, before a step and after it.
LEMMA AtWord ==
  /\ \A a : At(a) = WordAt(a, mem, acc, env, stack, globals)
  /\ \A a : At(a)' = WordAt(a, mem', acc', env', stack', globals')
BY DEF At, WordAt, acc_addr, env_addr, stack_addr, global_addr

\* A store changes one word of memory and variables, beside what the memory was
\* changed to.
LEMMA PutAt ==
  ASSUME VMTypeOK, NEW a \in Int, a \in RootSet \/ a \in 0 .. HeapWosize - 1,
         NEW w, NEW m, m \in Memories, Put(a, w, m)
  PROVE  /\ \A b \in RootSet : At(b)' = IF b = a THEN w ELSE IF b >= 0 THEN m[b] ELSE At(b)
         /\ \A c \in 0 .. HeapWosize - 1 : mem'[c] = IF c = a THEN w ELSE m[c]
         /\ Len(stack') = Len(stack) /\ Len(globals') = Len(globals)
<1>1. /\ Len(stack) \in Nat /\ Len(globals) \in Nat /\ Len(stack) <= StackWosize /\ StackWosize \in Nat
      /\ DOMAIN stack = 1 .. Len(stack) /\ DOMAIN globals = 1 .. Len(globals)
  BY SizesAssumption DEF VMTypeOK
<1>2. /\ mem' = (IF a >= 0 THEN [m EXCEPT ![a] = w] ELSE m)
      /\ acc' = (IF a = acc_addr THEN w ELSE acc) /\ env' = (IF a = env_addr THEN w ELSE env)
      /\ stack' = [i \in 1 .. Len(stack) |-> IF a = stack_addr(i) THEN w ELSE stack[i]]
      /\ globals' = [i \in 1 .. Len(globals) |-> IF a = global_addr(i) THEN w ELSE globals[i]]
  BY <1>1 DEF Put
<1>3. \A c \in 0 .. HeapWosize - 1 : mem'[c] = IF c = a THEN w ELSE m[c]
  BY <1>2 DEF Memories
<1>4. Len(stack') = Len(stack) /\ Len(globals') = Len(globals)
  BY <1>1, <1>2
<1>5. /\ At(acc_addr)' = acc' /\ At(env_addr)' = env'
      /\ \A i \in 1 .. Len(stack) : At(stack_addr(i))' = stack'[i]
      /\ \A i \in 1 .. Len(globals) : At(global_addr(i))' = globals'[i]
      /\ \A c \in Nat : At(c)' = mem'[c]
  <2>1. PICK st : st = stack'
    OBVIOUS
  <2>2. Len(st) \in Nat /\ Len(st) <= StackWosize
    BY <1>1, <1>4, <2>1
  <2>3. PICK gl : gl = globals'
    OBVIOUS
  <2>4. PICK m2 : m2 = mem'
    OBVIOUS
  <2>5. PICK ac, en : ac = acc' /\ en = env'
    OBVIOUS
  <2>6. /\ WordAt(acc_addr, m2, ac, en, st, gl) = ac /\ WordAt(env_addr, m2, ac, en, st, gl) = en
        /\ \A i \in 1 .. Len(st) : WordAt(stack_addr(i), m2, ac, en, st, gl) = st[i]
        /\ \A i \in Nat \ {0} : WordAt(global_addr(i), m2, ac, en, st, gl) = gl[i]
        /\ \A c \in Nat : WordAt(c, m2, ac, en, st, gl) = m2[c]
    <3>1. AtCases(m2, ac, en, st, gl)
      BY <2>2, WordAtCases
    <3>. QED
      BY <3>1 DEF AtCases
  <2>7. \A c : At(c)' = WordAt(c, m2, ac, en, st, gl)
    BY <2>1, <2>3, <2>4, <2>5, AtWord
  <2>8. 1 .. Len(globals) \subseteq Nat \ {0}
    BY <1>1
  <2>9. At(acc_addr)' = acc' /\ At(env_addr)' = env'
    BY <2>5, <2>6, <2>7
  <2>10. \A i \in 1 .. Len(stack) : At(stack_addr(i))' = stack'[i]
    BY <1>4, <2>1, <2>6, <2>7
  <2>11. \A i \in 1 .. Len(globals) : At(global_addr(i))' = globals'[i]
    BY <2>3, <2>6, <2>7, <2>8
  <2>12. \A c \in Nat : At(c)' = mem'[c]
    BY <2>4, <2>6, <2>7
  <2>. QED
    BY <2>9, <2>10, <2>11, <2>12
<1>6. /\ At(acc_addr) = acc /\ At(env_addr) = env
      /\ \A i \in 1 .. Len(stack) : At(stack_addr(i)) = stack[i]
      /\ \A i \in 1 .. Len(globals) : At(global_addr(i)) = globals[i]
  <2>1. 1 .. Len(globals) \subseteq Nat \ {0}
    BY <1>1
  <2>2. /\ WordAt(acc_addr, mem, acc, env, stack, globals) = acc
        /\ WordAt(env_addr, mem, acc, env, stack, globals) = env
        /\ \A i \in 1 .. Len(stack) : WordAt(stack_addr(i), mem, acc, env, stack, globals) = stack[i]
        /\ \A i \in Nat \ {0} : WordAt(global_addr(i), mem, acc, env, stack, globals) = globals[i]
    <3>1. AtCases(mem, acc, env, stack, globals)
      BY <1>1, WordAtCases
    <3>. QED
      BY <3>1 DEF AtCases
  <2>. QED
    BY <2>1, <2>2, AtWord
<1>7. ASSUME NEW b \in RootSet PROVE At(b)' = IF b = a THEN w ELSE IF b >= 0 THEN m[b] ELSE At(b)
  <2>1. CASE b \in {acc_addr, env_addr}
    BY <2>1, <1>2, <1>5, <1>6 DEF acc_addr, env_addr
  <2>2. CASE \E i \in 1 .. Len(stack) : b = stack_addr(i)
    <3>1. PICK i \in 1 .. Len(stack) : b = stack_addr(i)
      BY <2>2
    <3>2. ~ (b >= 0)
      BY <3>1 DEF stack_addr
    <3>3. stack'[i] = IF a = b THEN w ELSE stack[i]
      BY <3>1, <1>2
    <3>. QED
      BY <3>1, <3>2, <3>3, <1>5, <1>6
  <2>3. CASE \E i \in 1 .. Len(globals) : b = global_addr(i)
    <3>1. PICK i \in 1 .. Len(globals) : b = global_addr(i)
      BY <2>3
    <3>2. ~ (b >= 0)
      BY <1>1, <3>1 DEF global_addr
    <3>3. globals'[i] = IF a = b THEN w ELSE globals[i]
      BY <3>1, <1>2
    <3>. QED
      BY <3>1, <3>2, <3>3, <1>5, <1>6
  <2>4. CASE b \in ToSet(StaticFields)
    <3>1. b \in Nat /\ b \in 0 .. HeapWosize - 1
      BY <2>4, StaticAddresses, HeapWosizeNat, SizesAssumption DEF HeapWosize
    <3>2. b >= 0
      BY <3>1
    <3>3. At(b)' = mem'[b] /\ mem'[b] = IF b = a THEN w ELSE m[b]
      BY <3>1, <1>3, <1>5
    <3>. QED
      BY <3>2, <3>3
  <2>. QED
    BY <2>1, <2>2, <2>3, <2>4 DEF RootSet
<1>. QED
  BY <1>3, <1>4, <1>7

\* The roots are values: the variables are, and the fields of static blocks.
LEMMA RootsValues ==
  ASSUME VMTypeOK, NEW B
  PROVE  (\A loc \in RootSet : Value(At(loc), B)) <=>
           RegsOK(acc, env, stack, globals, B) /\ \A a \in ToSet(StaticFields) : Value(mem[a], B)
<1>1. /\ Len(stack) \in Nat /\ Len(globals) \in Nat /\ Len(stack) <= StackWosize
      /\ stack \in Seq(Word) /\ globals \in Seq(Word)
  BY DEF VMTypeOK
<1>2. ToSet(StaticFields) \subseteq Nat
  BY StaticAddresses, HeapWosizeNat
<1>3. /\ At(acc_addr) = acc /\ At(env_addr) = env
      /\ \A i \in 1 .. Len(stack) : At(stack_addr(i)) = stack[i]
      /\ \A i \in 1 .. Len(globals) : At(global_addr(i)) = globals[i]
      /\ \A a \in ToSet(StaticFields) : At(a) = mem[a]
  <2>1. 1 .. Len(globals) \subseteq Nat \ {0}
    BY <1>1
  <2>2. /\ WordAt(acc_addr, mem, acc, env, stack, globals) = acc
        /\ WordAt(env_addr, mem, acc, env, stack, globals) = env
        /\ \A i \in 1 .. Len(stack) : WordAt(stack_addr(i), mem, acc, env, stack, globals) = stack[i]
        /\ \A i \in Nat \ {0} : WordAt(global_addr(i), mem, acc, env, stack, globals) = globals[i]
        /\ \A a \in Nat : WordAt(a, mem, acc, env, stack, globals) = mem[a]
    <3>1. AtCases(mem, acc, env, stack, globals)
      BY <1>1, WordAtCases
    <3>. QED
      BY <3>1 DEF AtCases
  <2>. QED
    BY <2>1, <2>2, <1>2, AtWord
<1>4. \A s \in Seq(Word) : s \in Seq(Values(B)) <=> \A i \in 1 .. Len(s) : Value(s[i], B)
  <2>1. ASSUME NEW s \in Seq(Word) PROVE s \in Seq(Values(B)) <=> \A i \in 1 .. Len(s) : Value(s[i], B)
    <3>1. ASSUME s \in Seq(Values(B)), NEW i \in 1 .. Len(s) PROVE Value(s[i], B)
      <4>1. s[i] \in Values(B)
        BY <3>1
      <4>. QED
        BY <4>1, ValueMember
    <3>2. ASSUME \A i \in 1 .. Len(s) : Value(s[i], B) PROVE s \in Seq(Values(B))
      <4>1. \A i \in 1 .. Len(s) : s[i] \in Values(B)
        BY <3>2, ValueMember
      <4>2. Len(s) \in Nat /\ s \in [1 .. Len(s) -> Values(B)]
        BY <4>1
      <4>. QED
        BY <4>2, FunctionSeq
    <3>. QED
      BY <3>1, <3>2
  <2>. QED
    BY <2>1
<1>5. (stack \in Seq(Values(B)) <=> \A i \in 1 .. Len(stack) : Value(stack[i], B))
      /\ (globals \in Seq(Values(B)) <=> \A i \in 1 .. Len(globals) : Value(globals[i], B))
  BY <1>1, <1>4
<1>. QED
  BY <1>3, <1>5 DEF RegsOK, RootSet
=============================================================================
