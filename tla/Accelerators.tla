---------------------------- MODULE Accelerators ----------------------------
(***************************************************************************)
(* The components that work on OCaml values in the memory of the           *)
(* processor.  On the lists2 board, lred_cc (rtl/list_reduce.vhd) sums and *)
(* counts a list; lists/ is the same without the count.  On the arrays     *)
(* board, ared_cc (arr_reduce.vhd) sums an array and amap_cc (arr_map.vhd) *)
(* adds one to each element.  With them, their drivers (c/platform.c) and  *)
(* the stubs OCaml calls (c/platform-bindings.c).                          *)
(*                                                                         *)
(* The processor writes the operands in the registers of the component and *)
(* then its control register, polls that one until it reads rdy, and reads *)
(* the results.  Meanwhile the component goes through memory.              *)
(*                                                                         *)
(* A step is an edge of a component's WRITE process that does something,   *)
(* or an access of the processor; a write of the processor is the edge on  *)
(* which the component sees it.  A transfer may wait (waitrequest) any     *)
(* number of cycles, which are no steps.  Memory is indexed by word, and   *)
(* addresses count words.                                                  *)
(***************************************************************************)
EXTENDS Words, Sequences, FiniteSets

CONSTANTS
  Calls,      \* what programs call, in which memory: [f, mem, src, dst]
  HeapBase,   \* ocaml_ram_heap
  IntRange    \* how many OCaml integers there are: 2^31

ASSUME ConstantsAssumption == HeapBase \in Nat /\ IntRange \in Nat \ {0}

\* BLOCK_ADDR: where the fields of v are.
BLOCK_ADDR(v) == HeapBase + v.at

\* Wosize_val
Wosize_val(m, v) == Wosize_hd(m[BLOCK_ADDR(v) - 1])

VARIABLES
  board,                                            \* "lists2" or "arrays"
  mem,
  l_state, l_rdy, caml_heap_base, v, l_acc, l_count, blk_addr, \* list_reduce.vhd
  r_state, r_rdy, address, r_size, r_acc, r_count,             \* arr_reduce.vhd
  m_state, m_rdy, raddr, waddr, m_size, m_count, writedata,    \* arr_map.vhd
  pc,       \* the processor: "idle", "write", "start", "poll" or "result"
  call,     \* the call it is in
  k,        \* the next register it writes
  ret,      \* the results it has read
  before    \* history: memory when the call began

lred == <<l_state, l_rdy, caml_heap_base, v, l_acc, l_count, blk_addr>>
ared == <<r_state, r_rdy, address, r_size, r_acc, r_count>>
amap == <<m_state, m_rdy, raddr, waddr, m_size, m_count, writedata>>
cpu  == <<pc, call, k, ret, before>>
vars == <<board, mem, lred, ared, amap, cpu>>

-----------------------------------------------------------------------------
(* Integers: caml.vhd and values-32.h.                                     *)

\* x, signed, on the bits that make range values.
Wrap(x, range) == ((x + range \div 2) % range) - range \div 2

\* caml_decode_int, Int_val.  Of a word that is no integer they make some integer,
\* which one does not matter.
Int_val(w) == IF w.kind = "int" THEN w.n ELSE 0

\* caml_encode_int, and the macro Val_int: what does not fit is lost.
Encode(x) == Val_int(Wrap(x, IntRange))

\* f in the .vhd files; REDUCE_FUN and MAP_FUN in C.
ReduceFun(x, y) == x + y
MapFun(x)       == x + 1

-----------------------------------------------------------------------------
(* The C functions the components stand for (platform.c), on 32 bits.      *)

Int32(x) == Wrap(x, 2 * IntRange)

\* nios_list_reduce on list w in memory m: its acc, cnt and v after each turn of its
\* loop.  A list has no more cells than memory has words; a turn after the last
\* cell changes nothing.
ListTurns(m) == Cardinality(DOMAIN m)
list_loop(m, w) ==
  LET turn[i \in 0 .. ListTurns(m)] ==
        IF i = 0 THEN [acc |-> 0, cnt |-> 0, v |-> w]
        ELSE LET t == turn[i - 1] IN
             IF ~ Is_block(t.v) THEN t
             ELSE [acc |-> Int32(ReduceFun(t.acc, Int_val(m[BLOCK_ADDR(t.v)]))),
                   cnt |-> t.cnt + 1,
                   v   |-> m[BLOCK_ADDR(t.v) + 1]]
  IN  turn

nios_list_reduce(m, w) == list_loop(m, w)[ListTurns(m)]

\* nios_arr_reduce: acc after each turn, over the size words from src on.
arr_loop(m, src, size) ==
  LET acc[i \in 0 .. size] ==
        IF i = 0 THEN 0 ELSE Int32(ReduceFun(acc[i - 1], Int_val(m[src + i - 1])))
  IN  acc

nios_arr_reduce(m, src, size) == arr_loop(m, src, size)[size]

\* nios_arr_map: what word i of the destination becomes.
nios_arr_map(m, src, i) == Encode(MapFun(Int_val(m[src + i])))

\* What OCaml passes: lists that end, of cells in memory; arrays in memory.  amap is
\* called with arrays of which the second is no shorter, and the two are one array
\* or two blocks; the word past an array is still memory.
ASSUME CallsAssumption ==
  \A c \in Calls :
    LET src  == BLOCK_ADDR(c.src)
        dst  == BLOCK_ADDR(c.dst)
        size == Wosize_val(c.mem, c.src)
    IN
    /\ c.f \in {"lred", "ared", "amap"}
    /\ IsFiniteSet(DOMAIN c.mem) /\ \A a \in DOMAIN c.mem : c.mem[a] \in Word
    /\ c.f = "lred" =>
         \A i \in 0 .. ListTurns(c.mem) :
           LET w == list_loop(c.mem, c.src)[i].v IN
           Is_block(w) => /\ i < ListTurns(c.mem)
                          /\ {BLOCK_ADDR(w), BLOCK_ADDR(w) + 1} \subseteq DOMAIN c.mem
    /\ c.f \in {"ared", "amap"} =>
         src \in Nat /\ size \in Nat /\ src .. src + size - 1 \subseteq DOMAIN c.mem
    /\ c.f = "amap" =>
         /\ dst \in Nat
         /\ src + size \in DOMAIN c.mem /\ dst .. dst + size \subseteq DOMAIN c.mem
         /\ src = dst \/ \A i \in src .. src + size - 1 : i \notin dst .. dst + size

-----------------------------------------------------------------------------
(* list_reduce.vhd                                                         *)

\* Mutant: the next list starts from the last count and rdy stays high.
StartListAgain == l_state' = "DecodeValue" /\ UNCHANGED <<l_rdy, l_acc, l_count>>

\* Idle, and CSR is written.
StartList == l_state' = "DecodeValue" /\ l_rdy' = 0 /\ l_acc' = 0 /\ l_count' = 0

\* Process WRITE in Idle: the processor writes x at register i.
WriteList(i, x) ==
  /\ IF i = 0 THEN StartList ELSE UNCHANGED <<l_state, l_rdy, l_acc, l_count>>
  /\ caml_heap_base' = IF i = 1 THEN x ELSE caml_heap_base
  /\ v' = IF i = 2 THEN x ELSE v
  /\ UNCHANGED blk_addr

\* Mutant: rdy is not set at the end of the list.
DecodeSilently ==
  /\ l_state = "DecodeValue"
  /\ IF Is_block(v)
     THEN blk_addr' = caml_heap_base + v.at /\ l_state' = "GetHead"
     ELSE l_state' = "Idle" /\ UNCHANGED blk_addr
  /\ UNCHANGED <<l_rdy, caml_heap_base, v, l_acc, l_count>>

DecodeValue ==
  /\ l_state = "DecodeValue"
  /\ IF Is_block(v)
     THEN blk_addr' = caml_heap_base + v.at /\ l_state' = "GetHead" /\ UNCHANGED l_rdy
     ELSE l_rdy' = 1 /\ l_state' = "Idle" /\ UNCHANGED blk_addr
  /\ UNCHANGED <<caml_heap_base, v, l_acc, l_count>>

GetHead ==
  /\ l_state = "GetHead"
  /\ l_acc' = Wrap(l_acc + Int_val(mem[blk_addr]), IntRange)
  /\ l_count' = l_count + 1
  /\ l_state' = "GetTail"
  /\ UNCHANGED <<l_rdy, caml_heap_base, v, blk_addr>>

GetTail ==
  /\ l_state = "GetTail"
  /\ v' = mem[blk_addr + 1]
  /\ l_state' = "DecodeValue"
  /\ UNCHANGED <<l_rdy, caml_heap_base, l_acc, l_count, blk_addr>>

ListStep ==
  /\ DecodeValue \/ GetHead \/ GetTail
  /\ UNCHANGED <<board, mem, ared, amap, cpu>>

(* arr_reduce.vhd *)

StartReduce == r_state' = "SeqRd" /\ r_rdy' = 0 /\ r_acc' = 0 /\ r_count' = 0

WriteReduce(i, x) ==
  /\ IF i = 0 THEN StartReduce ELSE UNCHANGED <<r_state, r_rdy, r_acc, r_count>>
  /\ address' = IF i = 1 THEN x ELSE address
  /\ r_size'  = IF i = 2 THEN x ELSE r_size

SeqRd ==
  /\ r_state = "SeqRd"
  /\ IF r_count < r_size
     THEN r_state' = "WaitRd" /\ UNCHANGED r_rdy
     ELSE r_rdy' = 1 /\ r_state' = "Idle"
  /\ UNCHANGED <<address, r_size, r_acc, r_count>>

\* The end of the read.
ReduceWaitRd ==
  /\ r_state = "WaitRd"
  /\ r_acc' = Wrap(ReduceFun(r_acc, Int_val(mem[address])), IntRange)
  /\ address' = address + 1 /\ r_count' = r_count + 1
  /\ r_state' = "SeqRd"
  /\ UNCHANGED <<r_rdy, r_size>>

ReduceStep ==
  /\ SeqRd \/ ReduceWaitRd
  /\ UNCHANGED <<board, mem, lred, amap, cpu>>

(* arr_map.vhd *)

StartMap == m_state' = "Rd" /\ m_rdy' = 0 /\ m_count' = 0

WriteMap(i, x) ==
  /\ IF i = 0 THEN StartMap ELSE UNCHANGED <<m_state, m_rdy, m_count>>
  /\ raddr'  = IF i = 1 THEN x ELSE raddr
  /\ waddr'  = IF i = 2 THEN x ELSE waddr
  /\ m_size' = IF i = 3 THEN x ELSE m_size
  /\ UNCHANGED writedata

\* One word more than size is read and written.
Rd ==
  /\ m_state = "Rd"
  /\ IF m_count <= m_size
     THEN m_state' = "WaitRd" /\ UNCHANGED m_rdy
     ELSE m_rdy' = 1 /\ m_state' = "Idle"
  /\ UNCHANGED <<mem, raddr, waddr, m_size, m_count, writedata>>

\* Mutant: rdy is set with the last write in flight.
MapWaitRdReady ==
  /\ m_state = "WaitRd"
  /\ writedata' = Encode(MapFun(Int_val(mem[raddr])))
  /\ m_state' = "WaitWr"
  /\ m_rdy' = IF m_count = m_size THEN 1 ELSE m_rdy
  /\ UNCHANGED <<mem, raddr, waddr, m_size, m_count>>

MapWaitRd ==
  /\ m_state = "WaitRd"
  /\ writedata' = Encode(MapFun(Int_val(mem[raddr])))
  /\ m_state' = "WaitWr"
  /\ UNCHANGED <<mem, m_rdy, raddr, waddr, m_size, m_count>>

\* Mutants: the source address stays; the write goes one word too far.
WaitWrSameSource ==
  /\ m_state = "WaitWr"
  /\ mem' = [mem EXCEPT ![waddr] = writedata]
  /\ waddr' = waddr + 1 /\ m_count' = m_count + 1
  /\ m_state' = "Rd"
  /\ UNCHANGED <<m_rdy, raddr, m_size, writedata>>

WaitWrLate ==
  /\ m_state = "WaitWr"
  /\ mem' = [mem EXCEPT ![waddr + 1] = writedata]
  /\ raddr' = raddr + 1 /\ waddr' = waddr + 1 /\ m_count' = m_count + 1
  /\ m_state' = "Rd"
  /\ UNCHANGED <<m_rdy, m_size, writedata>>

\* The end of the write.
WaitWr ==
  /\ m_state = "WaitWr"
  /\ mem' = [mem EXCEPT ![waddr] = writedata]
  /\ raddr' = raddr + 1 /\ waddr' = waddr + 1 /\ m_count' = m_count + 1
  /\ m_state' = "Rd"
  /\ UNCHANGED <<m_rdy, m_size, writedata>>

MapStep ==
  /\ Rd \/ MapWaitRd \/ WaitWr
  /\ UNCHANGED <<board, lred, ared, cpu>>

-----------------------------------------------------------------------------
(* The processor, in the stubs and drivers.                                *)

Has(b) == IF b = "lists2" THEN {"lred"} ELSE {"ared", "amap"}

\* The operands, from register 1 on.
Operands ==
  IF call.f = "lred" THEN <<HeapBase, call.src>>
  ELSE IF call.f = "ared" THEN <<BLOCK_ADDR(call.src), Wosize_val(before, call.src)>>
  ELSE <<BLOCK_ADDR(call.src), BLOCK_ADDR(call.dst), Wosize_val(before, call.src)>>

Rdy == IF call.f = "lred" THEN l_rdy ELSE IF call.f = "ared" THEN r_rdy ELSE m_rdy

Results ==
  IF call.f = "lred" THEN <<l_acc, l_count>> ELSE IF call.f = "ared" THEN <<r_acc>> ELSE <<>>

\* The program calls a function; it may have changed the heap since the last call.
Call(c) ==
  /\ pc = "idle" /\ c.f \in Has(board)
  /\ call' = c /\ mem' = c.mem /\ before' = c.mem
  /\ pc' = "write" /\ k' = 1 /\ ret' = <<>>
  /\ UNCHANGED <<board, lred, ared, amap>>

\* IOWR: x arrives at register i.  A component that is not Idle ignores it.
Write(i, x) ==
  /\ IF call.f = "lred" /\ l_state = "Idle" THEN WriteList(i, x) ELSE UNCHANGED lred
  /\ IF call.f = "ared" /\ r_state = "Idle" THEN WriteReduce(i, x) ELSE UNCHANGED ared
  /\ IF call.f = "amap" /\ m_state = "Idle" THEN WriteMap(i, x) ELSE UNCHANGED amap
  /\ UNCHANGED <<board, mem, call, ret, before>>

WriteOperand ==
  /\ pc = "write"
  /\ Write(k, Operands[k])
  /\ k' = k + 1
  /\ pc' = IF k = Len(Operands) THEN "start" ELSE pc

Start ==
  /\ pc = "start"
  /\ Write(0, 1)
  /\ pc' = "poll" /\ UNCHANGED k

Poll ==
  /\ pc = "poll"
  /\ pc' = IF Rdy = 0 THEN "poll" ELSE "result"
  /\ UNCHANGED <<board, mem, lred, ared, amap, call, k, ret, before>>

GetResult ==
  /\ pc = "result" /\ Len(ret) < Len(Results)
  /\ ret' = Append(ret, Results[Len(ret) + 1])
  /\ UNCHANGED <<board, mem, lred, ared, amap, pc, call, k, before>>

Returning == pc = "result" /\ Len(ret) = Len(Results)

Return ==
  /\ Returning
  /\ pc' = "idle"
  /\ UNCHANGED <<board, mem, lred, ared, amap, call, k, ret, before>>

\* The components are in reset until the program starts; what reset leaves alone
\* is 0 on these devices.
Init ==
  /\ board \in {"lists2", "arrays"}
  /\ l_state = "Idle" /\ l_rdy = 0 /\ caml_heap_base = 0 /\ v = Val_int(0)
  /\ l_acc = 0 /\ l_count = 0 /\ blk_addr = 0
  /\ r_state = "Idle" /\ r_rdy = 0 /\ address = 0 /\ r_size = 0 /\ r_acc = 0 /\ r_count = 0
  /\ m_state = "Idle" /\ m_rdy = 0 /\ raddr = 0 /\ waddr = 0 /\ m_size = 0 /\ m_count = 0
  /\ writedata = Val_int(0)
  /\ pc = "idle" /\ k = 1 /\ ret = <<>>
  /\ call \in Calls /\ mem = call.mem /\ before = mem

Next ==
  \/ ListStep \/ ReduceStep \/ MapStep
  \/ \E c \in Calls : Call(c)
  \/ WriteOperand \/ Start \/ Poll \/ GetResult \/ Return

\* The clock runs, every transfer is granted, and the processor gets on with the
\* function it is in.
Fairness ==
  /\ WF_vars(ListStep) /\ WF_vars(ReduceStep) /\ WF_vars(MapStep)
  /\ WF_vars(WriteOperand \/ Start \/ Poll \/ GetResult \/ Return)

Spec == Init /\ [][Next]_vars /\ Fairness

-----------------------------------------------------------------------------
(* What the boards promise.                                                *)

TypeOK ==
  /\ board \in {"lists2", "arrays"}
  /\ l_state \in {"Idle", "DecodeValue", "GetHead", "GetTail"}
  /\ r_state \in {"Idle", "SeqRd", "WaitRd"}
  /\ m_state \in {"Idle", "Rd", "WaitRd", "WaitWr"}
  /\ {l_rdy, r_rdy, m_rdy} \subseteq {0, 1}
  /\ {l_acc, r_acc} \subseteq -(IntRange \div 2) .. IntRange \div 2
  /\ {caml_heap_base, l_count, blk_addr} \subseteq Nat
  /\ {address, r_size, r_count, raddr, waddr, m_size, m_count} \subseteq Nat
  /\ v \in Word /\ writedata \in Word
  /\ pc \in {"idle", "write", "start", "poll", "result"}
  /\ call \in Calls /\ k \in 1 .. 4
  /\ DOMAIN mem = DOMAIN before

\* The reductions return what the C functions compute, whatever was called before:
\* the accumulator of the component has the width of an OCaml integer and that of
\* the C function 32 bits, which Val_int makes equal
\* (list_reduce.vhd:58-106, arr_reduce.vhd:56-92).
ReturnsSoftwareResult ==
  Returning =>
    /\ call.f = "lred" =>
         LET r == nios_list_reduce(before, call.src) IN
         Encode(ret[1]) = Encode(r.acc) /\ Encode(ret[2]) = Encode(r.cnt)
    /\ call.f = "ared" =>
         Encode(ret[1]) =
           Encode(nios_arr_reduce(before, BLOCK_ADDR(call.src), Wosize_val(before, call.src)))

MapSrc  == BLOCK_ADDR(call.src)
MapDst  == BLOCK_ADDR(call.dst)
MapSize == Wosize_val(before, call.src)

\* When nios_arr_map_cc returns, the destination holds what the C function would
\* have put there, also when it is the source (arr_map.vhd:60-104).
MapsArray ==
  (Returning /\ call.f = "amap") =>
    \A i \in 0 .. MapSize - 1 : mem[MapDst + i] = nios_arr_map(before, MapSrc, i)

\* A call changes nothing in memory but the destination of nios_arr_map_cc, and the
\* one word after it that the loop test of arr_map.vhd:79 adds.
WritesOnlyDestination ==
  \A a \in DOMAIN before :
    mem[a] # before[a] => call.f = "amap" /\ a \in MapDst .. MapDst + MapSize

\* A component goes through memory only while the processor waits for it: not while
\* OCaml code runs and the collector may move blocks, and not while it is given
\* operands, which it would ignore (platform.c, the polling loops).
AtRestOutsidePoll ==
  pc # "poll" => l_state = "Idle" /\ r_state = "Idle" /\ m_state = "Idle"

\* Every call returns (the polling loops of platform.c).
CallReturns == pc # "idle" ~> pc = "idle"

\* nios_arr_map_cc does to memory what nios_arr_map does.  It does not: the word
\* after the destination is lost (arr_map.vhd:79).
WritesAsSoftware ==
  \A a \in DOMAIN before :
    mem[a] # before[a] => call.f = "amap" /\ a \in MapDst .. MapDst + MapSize - 1
=============================================================================
