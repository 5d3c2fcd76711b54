------------------------------ MODULE Mutator ------------------------------
(***************************************************************************)
(* What a running OCaml program does to memory: the instructions of        *)
(* omicrob/src/byterun/vm/interp.c that move values between the registers, *)
(* the stack, the globals and the heap, the C primitives of obj.c, array.c *)
(* and str.c that allocate, and the macro OCamlAlloc (gc.h) they allocate  *)
(* through.  The collectors, StopCopy and MarkCompact, extend this module  *)
(* with gc().                                                              *)
(*                                                                         *)
(* `mem` is ocaml_ram_heap: the static heap, then the dynamic heap.  The   *)
(* stack is a sequence whose first element is sp[0]; words below sp are    *)
(* never read and are not kept.  interp.c compiles an instruction in only  *)
(* if the program uses it (#ifdef OCAML_...): `Opcodes` is that set.       *)
(*                                                                         *)
(* An instruction that allocates takes two steps: the first (Begin) pushes *)
(* its operands and reaches OCamlAlloc with its C locals in `pend`; the    *)
(* second (Allocate) writes the block and finishes the instruction.  When  *)
(* the heap is full gc() runs in between, on registers, stack, globals and *)
(* static heap, and never on the C locals of `pend`.                       *)
(***************************************************************************)
EXTENDS Words, Sequences, SequencesExt

CONSTANTS
  StackWosize,     \* OCAML_STACK_WOSIZE
  StaticHeap,      \* the initial static heap, a sequence of words
  DynamicWosize,   \* OCAML_DYNAMIC_HEAP_WOSIZE
  InitialGlobals,  \* ocaml_ram_global_data, a sequence of words
  Opcodes,         \* the instructions and primitives the program uses
  MakeSizes,       \* sizes of the blocks the program makes
  EnvSizes,        \* numbers of variables its closures capture
  RecFuns,         \* numbers of functions its recursive closures define together
  Constants,       \* immediates it loads
  RawWords         \* what it may write in a word of a string

ASSUME SizesAssumption ==
  /\ StackWosize \in Nat
  /\ DynamicWosize \in Nat
  /\ MakeSizes \subseteq Nat \ {0}
  /\ EnvSizes \subseteq Nat
  /\ RecFuns \subseteq Nat \ {0}

ASSUME WordsAssumption ==
  /\ StaticHeap \in Seq(Word)
  /\ InitialGlobals \in Seq(Word)
  /\ Constants \subseteq Word
  /\ RawWords \subseteq Word

VARIABLES
  mem,       \* ocaml_ram_heap
  heap_ptr,  \* first free word of the dynamic heap
  heap_end,  \* its end
  acc, env, stack, globals,
  pend,      \* the instruction inside OCamlAlloc, with its C locals
  ctl,       \* "run", "alloc" (inside OCamlAlloc), "gc", "done" (gc returned), "halt", "wild"
  abs        \* history: the object graph when the last instruction ended

regs    == <<acc, env, stack, globals>>
heap    == <<mem, heap_ptr, heap_end>>
vmvars  == <<mem, heap_ptr, heap_end, acc, env, stack, globals, pend, ctl>>

StaticWosize == Len(StaticHeap)
HeapWosize   == StaticWosize + DynamicWosize
Undef        == [kind |-> "undef", low |-> 0]
NoPend       == [op |-> "none", size |-> 0, tag |-> 0, n |-> 0, args |-> << >>]

-----------------------------------------------------------------------------
(* Blocks and pointers of a memory m.                                      *)

\* Field(val, i) and Ram_field(val, i).
Field(m, val, i) == m[val.at + i]

Hd_val(m, val) == m[val.at - 1]

InHeap(a) == a \in 0 .. HeapWosize - 1

\* The block a pointer points into: itself, or the closure an infix header
\* belongs to.
StartOf(m, w) ==
  LET h == Hd_val(m, w) IN
  IF Tag_hd(h) = Infix_tag THEN [w EXCEPT !.at = @ - Wosize_hd(h)] ELSE w

\* w points to a block that lies whole in the heap.
IsBlockPtr(m, w) ==
  /\ Is_block(w)
  /\ InHeap(w.at - 1) /\ IsHd(m[w.at - 1])
  /\ LET s == StartOf(m, w) IN
       /\ InHeap(s.at - 1) /\ IsHd(m[s.at - 1])
       /\ w # s => Tag_hd(m[s.at - 1]) = Closure_tag
       /\ s.at + Wosize_hd(m[s.at - 1]) <= HeapWosize

\* The fields of the block at address a.
FieldsAt(m, a) == [i \in 1 .. Wosize_hd(m[a - 1]) |-> m[a + i - 1]]

(* The addresses the collectors store to: those of the heap, and beyond it  *)
(* those of the variables acc and env, of ocaml_stack and of               *)
(* ocaml_ram_global_data, which are elsewhere in RAM.                      *)

acc_addr       == -1
env_addr       == -2
stack_addr(i)  == -2 - i
global_addr(i) == -2 - StackWosize - i

\* *a
At(a) ==
  IF a >= 0 THEN mem[a]
  ELSE IF a = acc_addr THEN acc
  ELSE IF a = env_addr THEN env
  ELSE IF a >= stack_addr(StackWosize) THEN stack[stack_addr(0) - a]
  ELSE globals[global_addr(0) - a]

\* *a = w, in memory m.
Put(a, w, m) ==
  /\ mem'     = IF a >= 0 THEN [m EXCEPT ![a] = w] ELSE m
  /\ acc'     = IF a = acc_addr THEN w ELSE acc
  /\ env'     = IF a = env_addr THEN w ELSE env
  /\ stack'   = [i \in DOMAIN stack |-> IF a = stack_addr(i) THEN w ELSE stack[i]]
  /\ globals' = [i \in DOMAIN globals |-> IF a = global_addr(i) THEN w ELSE globals[i]]

\* Where the block whose header is at address a of the static heap ends.
StaticNext(a) == a + Wosize_hd(StaticHeap[a + 1]) + 1

\* bc2c lays out the static heap as whole blocks.
ASSUME StaticHeapAssumption ==
  \E starts \in SUBSET (0 .. StaticWosize) :
    /\ {0, StaticWosize} \subseteq starts
    /\ \A a \in starts \ {StaticWosize} : IsHd(StaticHeap[a + 1]) /\ StaticNext(a) \in starts

\* The blocks of the static heap, by address, in order.
StaticBlocks ==
  LET from[a \in 0 .. StaticWosize] ==
        IF a < StaticWosize /\ StaticNext(a) \in a + 1 .. StaticWosize
          THEN <<a + 1>> \o from[StaticNext(a)] ELSE << >>
  IN  from[0]

\* The addresses of their fields, but of strings: roots of the collectors.
StaticFields ==
  LET fields(a) == IF Tag_hd(StaticHeap[a + 1]) < No_scan_tag
                     THEN [k \in 1 .. Wosize_hd(StaticHeap[a + 1]) |-> a + k] ELSE << >>
      from[a \in 0 .. StaticWosize] ==
        IF a < StaticWosize /\ StaticNext(a) \in a + 1 .. StaticWosize
          THEN fields(a) \o from[StaticNext(a)] ELSE << >>
  IN  from[0]

Drop(s, n) == SubSeq(s, n + 1, Len(s))
Take(s, n) == SubSeq(s, 1, n)

-----------------------------------------------------------------------------
(* The object graph that a memory and its roots denote: history for the    *)
(* properties, never read by the program.  Values are blocks' identities,  *)
(* so that moving a block changes nothing; unreachable blocks are left out.*)

Successors(m, a) ==
  IF Tag_hd(m[a - 1]) < No_scan_tag
    THEN {StartOf(m, w).at : w \in {v \in ToSet(FieldsAt(m, a)) : IsBlockPtr(m, v)}}
    ELSE {}

\* The addresses of the blocks reachable from the words ws and the static heap.
Reachable(m, ws) ==
  LET within[n \in 0 .. DynamicWosize] ==
        IF n = 0 THEN ToSet(StaticBlocks) \cup
                      {StartOf(m, w).at : w \in {v \in ws : IsBlockPtr(m, v)}}
        ELSE LET near == within[n - 1] IN near \cup UNION {Successors(m, a) : a \in near}
  IN  within[DynamicWosize \div 2]

\* The value a word denotes in a memory whose reachable blocks are `live`: two
\* copies of a block are not the same object.
AbsVal(m, live, w) ==
  IF IsBlockPtr(m, w)
    THEN LET b  == StartOf(m, w).at
             id == m[b - 1].id
         IN  [kind |-> IF b = CHOOSE c \in live : m[c - 1].id = id THEN "ref" ELSE "copy",
              id |-> id, ofs |-> w.at - b]
  ELSE IF IsHd(w) THEN [kind |-> "hd", size |-> w.size, tag |-> w.tag]
  ELSE IF w.kind = "dyn" THEN [kind |-> "wild"]
  ELSE w

\* The graph for memory m, registers a and e, stack s and globals g.
GraphOf(m, a, e, s, g) ==
  LET live     == Reachable(m, {a, e} \cup ToSet(s) \cup ToSet(g))
      Val(w)   == AbsVal(m, live, w)
      Vals(ws) == [i \in DOMAIN ws |-> Val(ws[i])]
      Object(b) == [tag    |-> Tag_hd(m[b - 1]),
                    fields |-> IF Tag_hd(m[b - 1]) < No_scan_tag
                                 THEN Vals(FieldsAt(m, b)) ELSE FieldsAt(m, b)]
  IN  [acc     |-> Val(a),
       env     |-> Val(e),
       stack   |-> Vals(s),
       globals |-> Vals(g),
       objs    |-> [id \in {m[b - 1].id : b \in live} |->
                      Object(CHOOSE b \in live : m[b - 1].id = id)]]

Graph == GraphOf(mem, acc, env, stack, globals)

\* History: the graph is recorded when an instruction ends.
Record == abs' = IF ctl' = "run" THEN GraphOf(mem', acc', env', stack', globals') ELSE abs

\* The words that the blocks of the dynamic heap reachable then take up.
LiveWords ==
  FoldSet(LAMBDA id, n : n + Len(abs.objs[id].fields) + 1, 0, {i \in DOMAIN abs.objs : i > 0})

\* The smallest identity no reachable block has.
Smallest(n) ==
  n \notin DOMAIN abs.objs /\ \A k \in 1 .. n - 1 : k \in DOMAIN abs.objs
FreshId ==
  IF \E n \in 1 .. DynamicWosize : Smallest(n)
    THEN CHOOSE n \in 1 .. DynamicWosize : Smallest(n) ELSE 0

-----------------------------------------------------------------------------
(* Steps shared by the instructions.                                       *)

Running(op) == ctl = "run" /\ op \in Opcodes

\* caml_raise_stack_overflow, caml_raise_out_of_memory, with stack st: acc is
\* the exception, the instruction is given up where it is, and RAISE resumes
\* the program at its handler.  A handler's frame lies under the words of
\* `stack`, and its env outside the heap; without a handler (trapSp = -1) the
\* program ends.
Raise(st) ==
  /\ acc' = Exn /\ pend' = NoPend /\ UNCHANGED globals
  /\ \/ ctl' = "run" /\ stack' = << >> /\ env' = Val_unit
     \/ ctl' = "halt" /\ stack' = st /\ UNCHANGED env

SetAcc(w) == acc' = w /\ UNCHANGED <<heap, env, stack, globals, pend, ctl>>

\* Mutant: the header is not counted.
FullButHeader(size) == heap_ptr + size > heap_end
\* No room for a block of this size: the test of OCamlAlloc.
Full(size) == heap_ptr + size + 1 > heap_end

\* The instruction reaches OCamlAlloc(_, size, tag) with operand n, C locals
\* args and stack st: is there room in the heap, or must gc() run first?
Begin(op, size, tag, n, args, st) ==
  IF Len(st) > StackWosize THEN Raise(stack) /\ UNCHANGED heap
  ELSE /\ pend'  = [op |-> op, size |-> size, tag |-> tag, n |-> n, args |-> args]
       /\ stack' = st
       /\ ctl'   = IF Full(size) THEN "gc" ELSE "alloc"
       /\ UNCHANGED <<heap, acc, env, globals>>

\* OCamlAlloc writes the header, then the instruction the fields fs.
Write(fs) ==
  /\ mem' = [a \in DOMAIN mem |->
               IF a = heap_ptr THEN Make_header(pend.size, pend.tag, FreshId)
               ELSE IF a - heap_ptr \in DOMAIN fs THEN fs[a - heap_ptr]
               ELSE mem[a]]
  /\ heap_ptr' = heap_ptr + 1 + pend.size
  /\ UNCHANGED heap_end

\* The instruction ends with stack st and the new block in acc.
Build(fs, st) ==
  /\ Write(fs)
  /\ acc' = Val_dynamic_block(heap_ptr + 1)
  /\ stack' = st
  /\ ctl' = "run" /\ pend' = NoPend
  /\ UNCHANGED <<env, globals>>

-----------------------------------------------------------------------------
(* Instructions that do not allocate.  Their guards are what the OCaml     *)
(* compiler guarantees of the operands (and interp.c asserts).  ACC0 to    *)
(* ACC7, PUSHACC2, CONSTINT_2B and the like are ACC, PUSH then ACC, CONST; *)
(* GETVECTITEM and SETVECTITEM take their index from the stack.            *)

ACC == Running("ACC") /\ \E n \in 1 .. Len(stack) : SetAcc(stack[n])

PUSH ==
  /\ Running("PUSH")
  /\ IF Len(stack) >= StackWosize THEN Raise(stack) /\ UNCHANGED heap
     ELSE stack' = <<acc>> \o stack /\ UNCHANGED <<heap, acc, env, globals, pend, ctl>>

POP ==
  /\ Running("POP")
  /\ \E n \in 1 .. Len(stack) : stack' = Drop(stack, n)
  /\ UNCHANGED <<heap, acc, env, globals, pend, ctl>>

ASSIGN ==
  /\ Running("ASSIGN")
  /\ \E n \in 1 .. Len(stack) : stack' = [stack EXCEPT ![n] = acc]
  /\ acc' = Val_unit
  /\ UNCHANGED <<heap, env, globals, pend, ctl>>

CONST == Running("CONST") /\ \E w \in Constants : SetAcc(w)

GETGLOBAL == Running("GETRAMGLOBAL") /\ \E i \in DOMAIN globals : SetAcc(globals[i])

SETGLOBAL ==
  /\ Running("SETRAMGLOBAL")
  /\ \E i \in DOMAIN globals : globals' = [globals EXCEPT ![i] = acc]
  /\ acc' = Val_unit
  /\ UNCHANGED <<heap, env, stack, pend, ctl>>

\* A block of data: constructor, tuple, record, array or reference.
IsData(w) == IsBlockPtr(mem, w) /\ Tag_hd(Hd_val(mem, w)) = 0

\* A field of a dummy is not read before caml_update_dummy has filled it.
GETFIELD ==
  /\ Running("GETFIELD") /\ IsData(acc)
  /\ \E i \in 0 .. Wosize_hd(Hd_val(mem, acc)) - 1 :
       ~ IsHd(Field(mem, acc, i)) /\ SetAcc(Field(mem, acc, i))

SETFIELD ==
  /\ Running("SETFIELD") /\ IsData(acc) /\ stack # << >>
  /\ \E i \in 0 .. Wosize_hd(Hd_val(mem, acc)) - 1 :
       mem' = [mem EXCEPT ![acc.at + i] = Head(stack)]
  /\ stack' = Tail(stack)
  /\ acc' = Val_unit
  /\ UNCHANGED <<heap_ptr, heap_end, env, globals, pend, ctl>>

IsClosure(w) ==
  /\ Is_block_in_dynamic_heap(w) /\ IsBlockPtr(mem, w)
  /\ Tag_hd(Hd_val(mem, w)) \in {Closure_tag, Infix_tag}

\* The words of the closure of env from env on: code, headers, variables.
EnvOffsets ==
  LET s == StartOf(mem, env)
  IN  0 .. s.at + Wosize_hd(Hd_val(mem, s)) - env.at - 1

ENVACC ==
  /\ Running("ENVACC") /\ IsClosure(env)
  /\ \E i \in EnvOffsets :
       /\ ~ IsHd(Field(mem, env, i)) /\ Field(mem, env, i).kind # "code"
       /\ SetAcc(Field(mem, env, i))

\* acc := env + 4n bytes, the closure of another function defined with env's.
OFFSETCLOSURE ==
  /\ Running("OFFSETCLOSURE") /\ IsClosure(env)
  /\ \E a \in StartOf(mem, env).at .. env.at + 2 :
       /\ a - StartOf(mem, env).at < Wosize_hd(Hd_val(mem, StartOf(mem, env)))
       /\ mem[a].kind = "code"
       /\ SetAcc(Val_dynamic_block(a))

\* A tail call with one argument: the frame goes, the argument stays, and
\* the closure called becomes the environment.
APPTERM1 ==
  /\ Running("APPTERM1") /\ IsClosure(acc) /\ stack # << >>
  /\ \E slotsize \in 1 .. Len(stack) : stack' = <<Head(stack)>> \o Drop(stack, slotsize)
  /\ env' = acc
  /\ UNCHANGED <<heap, acc, globals, pend, ctl>>

-----------------------------------------------------------------------------
(* Instructions and primitives that allocate: up to OCamlAlloc ...         *)

MAKEBLOCK ==
  /\ Running("MAKEBLOCK")
  /\ \E n \in MakeSizes : n - 1 <= Len(stack) /\ Begin("MAKEBLOCK", n, 0, n, << >>, stack)

CLOSURE ==
  /\ Running("CLOSURE")
  /\ \E n \in EnvSizes :
       /\ n - 1 <= Len(stack)
       /\ Begin("CLOSURE", n + 1, Closure_tag, n, << >>,
                IF n # 0 THEN <<acc>> \o stack ELSE stack)

CLOSUREREC ==
  /\ Running("CLOSUREREC")
  /\ \E f \in RecFuns, v \in EnvSizes :
       /\ v - 1 <= Len(stack)
       /\ Begin("CLOSUREREC", 2 * f - 1 + v, Closure_tag, f, << >>,
                IF v > 0 THEN <<acc>> \o stack ELSE stack)

CreateBytes ==
  Running("caml_create_bytes") /\ Begin("caml_create_bytes", 1, String_tag, 1, << >>, stack)

AllocDummy ==
  /\ Running("caml_alloc_dummy")
  /\ \E n \in MakeSizes : Begin("caml_alloc_dummy", n, 0, n, << >>, stack)

\* (An empty array is its own copy.)
ObjDup ==
  /\ Running("caml_obj_dup") /\ IsData(acc) /\ Wosize_hd(Hd_val(mem, acc)) # 0
  /\ Begin("caml_obj_dup", Wosize_hd(Hd_val(mem, acc)), 0, 1, <<acc>>, stack)

MakeVect ==
  /\ Running("caml_make_vect") /\ stack # << >>
  /\ \E n \in MakeSizes : Begin("caml_make_vect", n, 0, n, <<Head(stack)>>, stack)

\* Array.sub, and the cases of Array.append that reduce to it: len may be 0.
ArraySub ==
  /\ Running("caml_array_sub") /\ IsData(acc)
  /\ \E ofs \in 0 .. Wosize_hd(Hd_val(mem, acc)) :
     \E len \in 0 .. Wosize_hd(Hd_val(mem, acc)) - ofs :
       Begin("caml_array_sub", len, 0, ofs, <<acc>>, stack)

ArrayAppend ==
  /\ Running("caml_array_append") /\ IsData(acc) /\ stack # << >> /\ IsData(Head(stack))
  /\ Begin("caml_array_append",
           Wosize_hd(Hd_val(mem, acc)) + Wosize_hd(Hd_val(mem, Head(stack))), 0,
           Wosize_hd(Hd_val(mem, acc)), <<acc, Head(stack)>>, stack)

GcRun ==
  /\ Running("caml_gc_run")
  /\ pend' = [NoPend EXCEPT !.op = "caml_gc_run"]
  /\ ctl' = "gc"
  /\ UNCHANGED <<heap, regs>>

\* caml_update_dummy(dummy = acc, newval = sp[0]): the dummy block takes the
\* header and the fields of newval; words it no longer covers stay behind,
\* each a header of an empty block.
UpdateDummy ==
  /\ Running("caml_update_dummy") /\ stack # << >>
  /\ Is_block_in_dynamic_heap(acc) /\ IsData(acc) /\ IsData(Head(stack))
  /\ LET h == Hd_val(mem, Head(stack)) IN
     /\ Wosize_hd(h) <= Wosize_hd(Hd_val(mem, acc))
     /\ \A i \in 0 .. Wosize_hd(Hd_val(mem, acc)) - 1 : IsHd(Field(mem, acc, i))
     /\ mem' = [a \in DOMAIN mem |->
                  IF a = acc.at - 1 THEN [h EXCEPT !.id = mem[a].id]
                  ELSE IF a \in acc.at .. acc.at + Wosize_hd(h) - 1
                    THEN Field(mem, Head(stack), a - acc.at)
                  ELSE mem[a]]
  /\ acc' = Val_unit
  /\ stack' = Tail(stack)
  /\ UNCHANGED <<heap_ptr, heap_end, env, globals, pend, ctl>>

-----------------------------------------------------------------------------
(* ... and from OCamlAlloc on.                                             *)

\* The n fields from ofs that the C loop of a primitive copies from its local w.
Copied(w, ofs, n) == [i \in 1 .. n |-> Field(mem, w, ofs + i - 1)]

BuildBlock == Build(<<acc>> \o Take(stack, pend.n - 1), Drop(stack, pend.n - 1))

BuildClosure == Build(<<Code(0)>> \o Take(stack, pend.n), Drop(stack, pend.n))

\* f functions, an infix header before each but the first, then v variables.
\* When the block is written the closures of the functions are pushed, in
\* order, as long as they fit: Stack_overflow may leave it behind.  (This is
\* CLOSUREREC_1B.  The _2B and _4B encodings push the code pointers of the
\* functions after the first instead of their closures, and _4B stores an
\* untagged code pointer.)
BuildClosureRec ==
  LET f    == pend.n
      v    == pend.size - (2 * f - 1)
      code == [k \in 1 .. 2 * f - 1 |->
                 IF k % 2 = 1 THEN Code(k \div 2)
                 ELSE Make_header(k, Infix_tag, 0)]
      new  == [i \in 1 .. f |-> Val_dynamic_block(heap_ptr + 1 + 2 * (f - i))]
      st   == new \o Drop(stack, v)
      fs   == code \o Take(stack, v)
  IN  IF Len(st) > StackWosize
        THEN Write(fs) /\ Raise(Drop(st, Len(st) - StackWosize))
        ELSE Build(fs, st)

BuildBytes == \E w \in RawWords : Build(<<w>>, stack)

BuildDummy == Build([i \in 1 .. pend.n |-> Make_header(0, 0, 0)], stack)

BuildDup == Build(Copied(pend.args[1], 0, pend.size), stack)

BuildVect == Build([i \in 1 .. pend.n |-> pend.args[1]], Tail(stack))

BuildSub == Build(Copied(pend.args[1], pend.n, pend.size), stack)

BuildAppend ==
  Build(Copied(pend.args[1], 0, pend.n) \o Copied(pend.args[2], 0, pend.size - pend.n),
        Tail(stack))

\* OCamlAlloc with room in the heap, at once or after gc().
Allocate ==
  /\ \/ pend.op = "MAKEBLOCK"         /\ BuildBlock
     \/ pend.op = "CLOSURE"           /\ BuildClosure
     \/ pend.op = "CLOSUREREC"        /\ BuildClosureRec
     \/ pend.op = "caml_create_bytes" /\ BuildBytes
     \/ pend.op = "caml_alloc_dummy"  /\ BuildDummy
     \/ pend.op = "caml_obj_dup"      /\ BuildDup
     \/ pend.op = "caml_make_vect"    /\ BuildVect
     \/ pend.op = "caml_array_sub"    /\ BuildSub
     \/ pend.op = "caml_array_append" /\ BuildAppend

OCamlAlloc ==
  /\ ctl \in {"alloc", "done"} /\ pend.op # "caml_gc_run"
  /\ IF Full(pend.size) THEN Raise(stack) /\ UNCHANGED heap ELSE Allocate

GcRunReturns ==
  /\ ctl = "done" /\ pend.op = "caml_gc_run"
  /\ acc' = Val_unit
  /\ ctl' = "run" /\ pend' = NoPend
  /\ UNCHANGED <<heap, env, stack, globals>>

Instruction ==
  \/ ACC \/ PUSH \/ POP \/ ASSIGN \/ CONST \/ GETGLOBAL \/ SETGLOBAL
  \/ GETFIELD \/ SETFIELD \/ ENVACC \/ OFFSETCLOSURE \/ APPTERM1
  \/ MAKEBLOCK \/ CLOSURE \/ CLOSUREREC \/ CreateBytes \/ AllocDummy \/ ObjDup
  \/ MakeVect \/ ArraySub \/ ArrayAppend \/ GcRun \/ UpdateDummy
  \/ OCamlAlloc \/ GcRunReturns

-----------------------------------------------------------------------------
(* Types.                                                                  *)

\* The n words of the heap from field ofs of the block w are in the heap.
Readable(w, ofs, n) ==
  w \in Word /\ w.kind \in {"dyn", "static"} /\ w.at \in Nat /\ w.at + ofs + n <= HeapWosize

\* What an instruction inside OCamlAlloc counts on afterwards.
PendOK ==
  /\ pend.op \in {"none", "caml_gc_run", "MAKEBLOCK", "CLOSURE", "CLOSUREREC",
                 "caml_create_bytes", "caml_alloc_dummy", "caml_obj_dup", "caml_make_vect",
                 "caml_array_sub", "caml_array_append"}
  /\ pend.size \in Nat /\ pend.tag \in Nat /\ pend.n \in Nat
  /\ pend.op = "MAKEBLOCK" => pend.n > 0 /\ pend.n - 1 <= Len(stack)
  /\ pend.op = "CLOSURE" => pend.n <= Len(stack)
  /\ pend.op = "CLOSUREREC" =>
       pend.n > 0 /\ pend.size - (2 * pend.n - 1) \in 0 .. Len(stack)
  /\ pend.op = "caml_obj_dup" => Readable(pend.args[1], 0, pend.size)
  /\ pend.op = "caml_make_vect" => pend.args[1] \in Word /\ stack # << >>
  /\ pend.op = "caml_array_sub" => Readable(pend.args[1], pend.n, pend.size)
  /\ pend.op = "caml_array_append" =>
       /\ stack # << >> /\ pend.n <= pend.size
       /\ Readable(pend.args[1], 0, pend.n)
       /\ Readable(pend.args[2], 0, pend.size - pend.n)

\* Words where words belong, a stack that fits in ocaml_stack, blocks that fit
\* in the heap, and an instruction that finds its operands after gc().
VMTypeOK ==
  /\ mem \in [0 .. HeapWosize - 1 -> Word]
  /\ heap_ptr \in Nat /\ heap_end \in 0 .. HeapWosize /\ heap_ptr <= heap_end
  /\ acc \in Word /\ env \in Word
  /\ stack \in Seq(Word) /\ Len(stack) <= StackWosize
  /\ globals \in Seq(Word) /\ Len(globals) = Len(InitialGlobals)
  /\ ctl \in {"run", "alloc", "gc", "done", "halt", "wild"}
  /\ ctl = "run" => pend.op = "none"
  /\ PendOK

-----------------------------------------------------------------------------
(* The object graph follows OCamlMemory.                                   *)

Memory ==
  INSTANCE OCamlMemory WITH
    Ids <- 1 .. DynamicWosize,
    Permanent <- {StaticHeap[b].id : b \in ToSet(StaticBlocks)},
    acc <- abs.acc, env <- abs.env, stack <- abs.stack, globals <- abs.globals,
    objs <- abs.objs, halted <- (ctl = "halt")

=============================================================================
