# A TLA+ development for O2B

O2B runs OCaml programs on soft-core processors (Nios II) inside an FPGA. It is
OMicroB, a virtual machine for OCaml bytecode written in C with a compiler
(`bc2c`) that embeds the program's bytecode in C tables, ported to Altera boards
and extended with hardware accelerators that work on OCaml values in place.

This directory models what every program depends on and tests exercise least: memory
and its two collectors; calls and exceptions on the interpreter's stack; the
choice of instruction encodings in `bc2c`; the accelerators and the custom instruction with
the drivers that poll them; the circuit simulator with its processes. Each model is
checked against an abstract specification or a reference definition by TLC, and part
of this is proved for every instance with TLAPS. Paths below are relative to the root
of the repository; `vm/` is `omicrob/src/byterun/vm/`.

## 1. The system

| Part | Where | State | Operations | Interacts with | Right when |
|---|---|---|---|---|---|
| Values | `vm/values-32.h` | none | tests and conversions of 32-bit words; headers (tag, size, two colour bits) | all | no word is taken for another kind of word |
| Interpreter | `vm/interp.c` | `acc`, `env`, `sp`, `pc`, `trapSp`, `extra_args`, `ocaml_stack`, `ocaml_ram_global_data` | one case per opcode | allocator, primitives | the semantics of OCaml bytecode; stack within bounds |
| Allocator | `vm/gc.h`, `vm/gc.c` | `heap_ptr`, `heap_end` | `OCamlAlloc`, `caml_gc_run` | collector (a call), exceptions | blocks stay in the heap; memory is refused only when live data do not fit |
| Stop & Copy | `vm/stop-and-copy.c` | `current_heap`, `heap_todo` | `gc_init`, `gc` | reads and writes registers, stack, globals, heap | invisible to the program, exact, terminates |
| Mark & Compact (default) | `vm/mark-and-compact.c` | colours and threads inside blocks | `gc_init`, `gc` | same | same, using no memory of its own |
| Primitives | `vm/obj.c`, `array.c`, `str.c`, `fail.c`, `compare.c`, `hash.c`, `int32.c`, `int64.c`, `float.c`, `oo.c`, `sys.c` | none | called by `C_CALL` | allocator, `longjmp` into the interpreter | no C variable outlives a collection |
| `bc2c` | `omicrob/src/bc2c/*.ml` | tables | analyse, clean, encode | files; the VM's tables | encoded jumps land where the source's did |
| Driver, stdlib | `omicrob/src/omicrob`, `omicrob/src/stdlib` | files | compile, link | tools | |
| Simulator | `omicrob/src/byterun/simul` | shared registers, semaphores, pipes | read/write ports from several processes | pipes, signals | changes seen in order; no deadlock; clean stop |
| List accelerator | `platforms/altera/lists`, `lists2` | FSM registers | start, poll, walk a list by bus reads | interpreter by memory-mapped registers; RAM | the sum of the list it was started on |
| Array accelerators | `platforms/altera/arrays` | FSM registers | reduce, map | same | reads and writes exactly the array |
| GCD | `platforms/altera/extops` | FSM registers | custom instruction; Avalon component | driver polls `rdy` | result belongs to the operands written |
| Board support | `platforms/altera/{basic,dram,_etc}` | devices | I/O | | |

What is hard here.

* The machine is single-threaded, but *a collection happens in the middle of an
  instruction*: `OCamlAlloc` is a macro inside the case of an opcode or the body of a C
  primitive, and the collector moves every block while C locals hold addresses. The
  collectors are loops over memory they are rewriting: Stop & Copy's scan pointer chases
  its allocation pointer, Mark & Compact stores headers in fields and back pointers in
  headers. Both depend on what the low bits of *any* word look like. Closures of mutually
  recursive functions have headers and entry points inside them.
* An exception may leave an instruction half done, at any push or allocation; `GRAB` and
  `RESTART` save a call in a closure and resume it elsewhere.
* Operand sizes depend on offsets and offsets on operand sizes; `bc2c` iterates, with addresses
  of two passes in hand at once.
* The hardware runs concurrently with the interpreter. A poll may read the flag of the call before, and
  the accelerators hold addresses of blocks that a collector may move.
* The simulator has five kinds of processes, four semaphores and pipes that fill up.

`PROJECT.json` lists each hazard at its line; those that no property covers yet say why.

## 2. The modules

| Module | Models | Role |
|---|---|---|
| `Words` | `values-32.h` | words, headers, colours |
| `Mutator` | `interp.c`, `obj.c`, `array.c`, `str.c`, `gc.h`, `gc.c` | the program's steps; leaves `gc()` open |
| `StopCopy` | `stop-and-copy.c` | extends `Mutator` with `gc()` |
| `MarkCompact` | `mark-and-compact.c` | extends `Mutator` with `gc()` |
| `OCamlMemory` | what instructions promise | abstract specification of memory: no address, no collector |
| `ControlStack` | `interp.c`, `fail.c`: calls, returns, exceptions | stack of frames, with its limit |
| `CurriedCalls` | what calls and exceptions mean | abstract specification, no stack of words |
| `ControlStackCalls` | | refinement mapping from `ControlStack` to `CurriedCalls` |
| `Encoder` | `codegen.ml` (`export`), decoding in `interp.c` | one action per instruction of a pass |
| `Gcd` | `gcd.vhd`, `gcd_cc.vhd`, `custom-gcd.vhd`, driver | clock edges of both circuits and the processor |
| `NiosGcd` | `nios_gcd` of `extops/c/platform.c` | abstract specification of `Gcd` |
| `Accelerators` | `list_reduce.vhd`, `arr_reduce.vhd`, `arr_map.vhd`, drivers, stubs | FSM steps on the program's memory (extends `Words`) |
| `Simulator` | `simul.c`, `shared.c`, `indep-sf-regs.c` | processes, semaphores, pipes |
| `MC...` | | small instances for TLC |
| `MutatorProofs`, `StopCopyProofs`, `MarkCompactProofs`, `ControlStackProofs`, `EncoderProofs`, `GcdProofs`, `AcceleratorsProofs`, `SimulatorProofs` | | theorems |

`StopCopy` and `MarkCompact` are alternatives, as in `runtime.c:18-24`.

### Memory (`Mutator`, `StopCopy`, `MarkCompact`)

* `mem` is `ocaml_ram_heap`, indexed by word: the static heap, then the dynamic one.
  Pointers are records with an index (`at`) in place of the byte offset; the address of
  a block is that of its field 0, as in the code.
* A word is a record: its `kind`, what it says, and its two low bits `low`, because the
  collectors colour, and test the colour of, words they have not identified. A header
  of the model also carries the identity of its object, for the properties; nothing in
  the actions reads it.
* `stack` holds the words from `sp` up; a push beyond `OCAML_STACK_WOSIZE` raises, with what the
  instruction has done so far left as it is: `CLOSUREREC` has its block in the heap by then, and pushes the
  closures that fit. `Raise` goes to a handler or ends the program. Which, depends on the frames, which are
  `ControlStack`'s; here a handler finds the exception, the globals and the heap, and its frame lies under
  the words that `stack` models.
* An instruction that allocates has two steps. `Begin` pushes its operands and
  tests for room (`Full`); `OCamlAlloc` writes the block and finishes. The C locals that
  live across the macro are in `pend`, which no collector touches. If there is no
  room `ctl` becomes `"gc"`, the collector takes its steps, and `ctl = "done"` comes
  back to the second test of the macro.
* `ACC0` to `ACC7`, `PUSHACC2`, `CONSTINT_2B` and the like are covered by their
  general form, as they are that form with the operand fixed, or two of them in a row.
* `StopCopy`: one step per turn of `gc_one_val`'s loop, from `start:` to `next:`
  (`SkipValue`, `Forward`, `Copy`, `Infix`) and from `next:` to `start:` (`Return`,
  `OpenBlock`, `NextField`). `frames` is the C stack of its activations; `&start`, which the
  recursive call is given, is an address of its own.
* `MarkCompact`: `phase` is the loop `gc()` is in; each action is one turn of it, or one
  link of the inner `do ... while`.
* **Misreading.** Where the code would read a header that is no header, or go out of the
  heap, the model takes a step to `ctl = "wild"`, in which nothing happens any more:
  the C program would go on with whatever is there. `MemorySafe` says it does not happen.

`OCamlMemory` is a graph of objects named by identities. Its instructions read
and change this graph; a collection is a stuttering step, and unreachable objects
disappear at once. `Mutator!abs` is a history variable holding the graph that memory
denotes (`GraphOf`), recorded whenever an instruction ends, and
`ImplementsMemory == Memory!Steps` says that those graphs follow the abstract
steps. So a block lost, duplicated, mistaken for another, or changed by a collector makes
the next instruction's step one that `OCamlMemory` does not have. `GraphOf` tells
two copies of an object apart (`"ref"` against `"copy"`). An exception is a step at any time, to a handler
(`Catch`) or to the end (`Halt`).

### Calls and exceptions (`ControlStack`)

What `APPLY`, `RETURN` or `RAISE` rely on is that the compiler knows what lies on the stack at
each point of a function. An address is therefore a function, a point in it, and this
knowledge: its *shape*, a sequence of values, return frames (three words) and trap frames (four).
At each point the program continues with any instruction that fits the shape. So the
model ranges over all well-compiled programs and not over a few. The stack is words:
nothing but the instructions' own arithmetic on `sp`, `trapSp` and `extra_args` keeps it in
step with the shape, and a word of the wrong sort at the top of a frame shows. A push that finds
no room raises, after the part of the instruction that precedes it; `GRAB` may find no room in the
heap for its closure. `extra_args` is computed modulo `ExtraArgsRange`
(256 in the code).

`CurriedCalls` has frames with local values, handlers and pending arguments, partial applications,
and nothing of the machine. `ControlStackCalls` reads the frames back from the words of the stack
(`FramesFrom`) and states `ImplementsCalls`; a handler among the values of a frame is the record `Trap`. The trap frames of
all functions in progress are found in the same way (`Traps`, offsets from `ocaml_stack`). While `RESTART` and `GRAB` are on their way into a function,
the call counts as done: either the frame as made or the partial application as returned.

### Encodings (`Encoder`)

`ExportInstr` is the work of a pass on one instruction, `EndPass` the comparison that
decides whether to go on (`codegen.ml:717-726`). `codemap` holds, as in the code, addresses
of this pass for the instructions behind and of the pass before for those ahead. An instruction is what determines
its encoding; its bytes are not laid out. `Goes` is what `interp.c` makes of an offset: every
`read_ptr` with the bytes the instruction has read before it, in the three encodings, and the
`uint8_t` of `SWITCH`.

### Hardware (`Gcd`, `Accelerators`)

A step of `Gcd` is a rising edge of the clock: core, wrapper (processes `WRITE` and `READ`), custom
instruction and processor move together, from the signals as they were before the edge. That is where the
hazard is: `rdy` falls one edge after `start` has risen. The processor puts an access
on the bus or not; two accesses are at least `MinGap` cycles apart and may be any number apart.
Reads take two cycles (`readWaitTime 1` in `GCD_CC_hw.tcl`). `Software == INSTANCE NiosGcd WITH ...` maps
every edge to a step of the C loop, or to none.

`Accelerators` has coarser steps, one per edge on which a component's process does something. Transfers on the
Avalon bus may wait any number of cycles, so interleaving the components' steps with the processor's covers every delay.
The reference definitions (`nios_list_reduce`, `nios_arr_reduce`, `nios_arr_map`) are the C functions of the
same boards. `before` is memory as it was at the call. Sums have the width of an OCaml
integer, `IntRange` values. The components' reset is tied inactive in the boards' `top.vhd` and is not modelled.

### Simulator (`Simulator`)

Processes are main, a handler per component, the component's own command (external: here a wire that copies a
port to another) and the parent. A step is one semaphore operation, what lies between two of them, or one line
on a pipe. The accesses are `W` (`write_register`, `clear_bit`), `SET` (`set_bit`, which does not test
the direction), `READ` (`read_register`, after `synchronize`), `BIT` (`read_bit`) and `DDR`. `destroy`
is modelled with its double release and the removal of semaphores others wait for. Locals that are dead are
forgotten when an operation ends.

## 3. What the runs check

### Memory

| Property | Says |
|---|---|
| `TypeOK` | words are words; stack and blocks fit their memories, no block runs out of the half or the heap, an instruction finds its operands after `gc()`; in Mark & Compact no size exceeds a header's field |
| `MemorySafe` | no header is read where there is none; nothing outside the heap is read or written |
| `CheneyInvariant` | in Stop & Copy, what is behind the scan pointer refers to no block of the old half, what is ahead only to such blocks |
| `MarkingIsExact` | between two roots, marking has put back every header and pointer it borrowed; at the end black blocks are exactly the reachable ones |
| `ThreadsLeadHome` | while pointers are reversed, every reference of the program is still a reference or is linked in a thread that ends in its object's header |
| `CollectionIsExact` | after `gc()` the heap holds the reachable blocks, once each, and nothing else: hence `Out_of_memory` only when the data do not fit |
| `CollectorInvariant` | the conjunction of the above, `TypeOK` included, for the runs that ask the same question of other programs |
| `ImplementsMemory` | the program cannot tell: steps of the machine are steps of `OCamlMemory` |
| `GcTerminates` | every `gc()` returns: it neither goes on for ever nor runs into words it misreads |

| Run | Opcodes | Bounds | Question |
|---|---|---|---|
| `sc_data` / `mc_data` | data, mutation, reads, dummies | stack 1, heap 2x4 / 4 words, a static block and a global | shared and cyclic data, live dummies that were shrunk, roots in the static heap, exactly full heaps |
| `sc_closures` / `mc_closures` | closures, environments, strings, a global | stack 1, 2x6 / 6 words | strings that look like pointers, closures as roots, a `CLOSUREREC` given up when its block is written |
| `sc_infix` | `CLOSUREREC` with two functions, data | stack 3, 2x7 words | the branch for infix pointers, when the closure is met first |
| `sc_terminates` | `CLOSUREREC` with two functions, data of one field, mutation | stack 2, 2x4 words | every collection returns, over cycles and where `gc_one_val` calls itself |
| `mc_terminates` | data, mutation, dummies | stack 2, 5 words | every collection returns, over cycles, self-references and shrunk dummies |

Why these bounds suffice: a collection treats a block according to what its fields
are and whether it was met before, not to how many blocks there are. What the case needs must be *live* when
`gc()` runs, which depends on the opcodes as much as on the sizes: `SETFIELD` and `caml_update_dummy`
pop the block's other reference and leave `()` in `acc`. In `sc_data` and `mc_data` the global holds a static block,
`GETRAMGLOBAL` loads it, and `GETFIELD` brings back what was stored in it; in the `_terminates` runs `ACC` reads
a stack of two words. With these, collections are reached in which one of the live blocks, of size 1 or 2,
refers to itself, two refer to each other, and, in `sc_data` and `mc_data`, a static and a dynamic block do; and, but
for `sc_terminates`, in which a live dummy of two fields was updated with a block of one and refers to itself or not. In
four words the word it leaves behind is followed by a free one, in the five of `mc_terminates` by a block. That these states occur
was confirmed with TLC, as violations of invariants that deny them. Four to seven words are
full, exactly or by one word, at every instruction that allocates; and the heap is
collected again and again, since runs are unbounded. Sizes 1 and 2 distinguish a block's
first and last field from the others. `MaxWosize` (2^22 in the code) is 3 or 4, so that
merging dead blocks reaches it (5 in `mc_infix`, whose closures are larger). Which opcodes a run has is the program's choice in the
code too: `interp.c` compiles the cases in use.

`VIEW` (these runs but those on liveness) forgets words that are dead between
two instructions: those past `heap_ptr` and, in Stop & Copy, those outside the half in use.
No instruction reads them. A collection writes them before it reads them, but for one word
that `wipe_dead_blocks` reads at `heap_ptr` and drops. States that differ there alone
have the same behaviours and satisfy the same properties.

### Calls, encodings, hardware, simulator

| Run | Property | Says |
|---|---|---|
| `control` | `TypeOK` | the stack and `extra_args` within their limits, `trapSp` within the stack |
| | `TrapChain` | `trapSp` and the links in the trap frames lead through all trap frames of all functions in progress, and no other words |
| | `EnvIsOfFunction` | `env` is the closure of the function that runs, after returns and exceptions too |
| | `ImplementsCalls` | functions get their own arguments in order, however portioned; results go to the point after the call with the caller's values there; an exception, an overflow in mid-instruction included, goes to the innermost handler |
| `encoder` | `OffsetsExact` | when `export` ends, every offset is the distance to its target |
| | `DecodesToTargets` | the interpreter's reading of it leads to that target, in the three encodings |
| | `ExportTerminates` | the passes end |
| `gcd` | `ReturnsGcd` | what a call returns is the gcd of the operands of this call |
| | `ImplementsSoftware` | every edge is a step of `nios_gcd` or none: no stale `rdy`, no early result |
| | `CallReturns` | calls with positive operands return (with a zero they do not: `nios_gcd` neither) |
| `accelerators` | `ReturnsSoftwareResult` | sums and lengths are the C functions', whatever was called before, overflow included |
| | `MapsArray` | the destination of `amap_cc` is what `nios_arr_map` makes it, in place or not |
| | `WritesOnlyDestination` | no other word changes, but the one word after the destination (finding below) |
| | `AtRestOutsidePoll` | no component is in memory while OCaml code or a collector may run |
| | `CallReturns` | calls return |
| `simulator` | `ComponentsAgree` | whenever no one holds the registers, each component knows or is about to read what they hold |
| | `ReadSeesReaction` | a read of a port sees the reaction of the component that drives it to all earlier writes |
| | `AccessReturns` | an access to a register never blocks the program for ever |
| | `EverythingStops` | once the program has ended, so does every process |

Bounds.

* `control`: a function of one parameter and one of two, so that there are exact, too few and too many arguments and
  a partial application keeps one argument; a stack of 12 words,
  which an overflow meets in every instruction that pushes; shapes of at most `MaxShape = 3`
  items per frame; at most two pending arguments, below the range 4 of `extra_args` here, as
  255 is below 256. `CONSTRAINT Bounded` keeps one value of the data and one function on the stack: calls pass
  words without looking at them.
* `encoder`: the code's own limits, 8 and 16 bits. Programs have five instructions, two of them with pointers to each other's
  neighbourhood, around a filler of 112 to 126 bytes or of 32757: the distances straddle 127, -128 and 32767,
  and some sizes grow, shrink and grow again.
* `gcd`: operands 0, 1, 4, 6 and 9, so that there are equal, coprime and dividing operands, and zero; `MinGap = 1`, the least there can be.
* `accelerators`: integers of three bits, lists of up to three cells in any order in memory with shared tails, arrays
  of up to two elements and empty ones, any sequence of calls on the same memory.
* `simulator`: two components on one port, three operations of the program (`MaxOps`), pipes of five lines. With pipes of four the
  shutdown deadlocks: the parent or a handler blocks while writing to a component that has gone. A real pipe
  holds thousands of lines, more than are ever pending.

`CHECK_DEADLOCK FALSE`: a program may end, on an uncaught exception too (memory, `control`); `bc2c`
ends (`encoder`); everything is to stop (`simulator`). The hardware never stops, and there deadlock is checked.

### Fairness

* `gc()` is a call in the only thread of the program: once entered, nothing else runs (`WF_vars(GcStep)`). No
  fairness is assumed of the program itself.
* `Encoder`: one sequential loop, `WF_vars(Next)`.
* `Gcd`, `Accelerators`: the clock does not stop, the bus grants every transfer sometime, and the processor gets on
  with the driver it is in. Whether OCaml code calls again is left open.
* `Simulator`: the operating system schedules every process, and pipes deliver. The weak fairness of `Wait` stands for the
  parent, whose `wait` for main returns when main has ended. The number of operations of the program is bounded by `MaxOps`,
  so no strong fairness of semaphores is needed.

### Where the code does not do what it says

`PROJECT.json` quotes the lines. No run of the project is about these; the first seven have a `.cfg` here with which
`tlc -config <name>.cfg <module>` finds the violation.

* `sc_infix_first` (`MCStopCopy`): an infix pointer met before its closure becomes a code pointer
  (`stop-and-copy.c:113` reads `start` after the recursive call has updated it). `sc_infix`
  shows that the branch is right when the closure is met first.
* `sc_nested` (`MCStopCopy`): the same call of `gc_one_val`, in the middle of a block of two fields, shares `heap_todo` with its
  caller but not `todo` (`stop-and-copy.c:90`, `138`): it takes the block's next field for a header.
* `sc_empty_array` (`MCStopCopy`): `Array.sub a 0 0` makes a dynamic block without a field, which
  `stop-and-copy.c:101` is warned about by its own comment.
* `sc_stale_local` (`MCStopCopy`): `caml_make_vect`, `caml_obj_dup`, `caml_array_sub` and
  `caml_array_append` use a C local after the collection that moved its block.
* `mc_infix` (`MCMarkCompact`): `CLOSUREREC` makes white infix headers; Mark & Compact requires red ones.
* `mc_float` (`MCMarkCompact`): a float captured by a closure may have the two low bits of a thread.
* `accelerators_overrun` (`MCAccelerators`): `amap_cc` also writes the word after the destination, the next
  block's header (`arr_map.vhd:79`).
* The place of a case in the table of `SWITCH_2B` and `_4B` is a `uint8_t` (`interp.c:1446`): it wraps from constant constructor
  127, or 64, on. `DecodesToTargets` is violated by a `SWITCH` of 128 constant constructors and holds for 126.
* `read_bit` (`indep-sf-regs.c:283`) looks two ports further, as `LOWER_PIN` is 22 where `PINA` is 24, and never synchronizes.
  `ReadSeesReaction` is about whole registers (`READ`) only.
* `LOWER_DDR` is 11 where `DDRA` is 12 (`indep-sf-regs.c:223`): the direction of a port is looked up in the register of the
  port before it. The model does the same (`DdrOf`).

The passing runs leave the first six cases out by their opcodes and sizes (`sc_data`, `sc_closures`, the `mc_`
ones) or by a program shape in which they do not occur: in `sc_infix` a closure is met before its infix headers. In
`sc_terminates` an infix pointer may come first, and be replaced by the wrong word, but no block that holds one has another field
after it, so that the inner activation starts where the outer one expects a header: these collections return. Hazards
that only these configurations show are listed in `PROJECT.json` without a property.

## 4. What is proved

**Stop & Copy keeps types and bounds.** `TypeCorrect == Spec => []TypeOK` (`StopCopyProofs`), for every program, static
heap, stack and heap size. It is more than typing. `TypeOK` bounds `heap_ptr` by the half in use,
and every block with it; `gc_one_val` copies with `memcpy` and never looks at `heap_end`, so the
step that overflows is a misread one in the model, and the theorem is about all the others.
It places the argument of every activation of `gc_one_val`: a word of the heap, a root, or the
local `start` of an activation that has not returned. And it says that the interrupted
instruction's operands are still on the stack, or are addresses in the heap, after `gc()`.
`TypeOK` is inductive as it stands, because it contains the part on `pend` (`PendOK`) that an
instruction needs after the collection and the part on `frames` that a return needs.
`MutatorProofs` proves, one lemma per group of instructions, that an instruction keeps the
machine's part of it, whatever the collector (`InstructionType`); the collectors'
proofs cite it. `StopCopyProofs` has one lemma per action of the collector, on lemmas about addresses
(`Locations`).

**Stop & Copy is safe, and Cheney's invariant holds.** `StopCopySafe == TidyProgram /\ Spec => []MemorySafe` and
`Cheney == TidyProgram /\ Spec => []CheneyInvariant` (`StopCopyProofs`), for every tidy program and every size of the
heap. The hypothesis `TidyProgram` (`MutatorProofs`) is there because the code needs it: it excludes what the first three
findings of section 3 are about and nothing else of `Mutator`, namely the primitives that hold a pointer in a C
local over `OCamlAlloc`, blocks without a field, and infix pointers (`CLOSUREREC` with more than one function). It asks of the initial
data that constants, globals and static fields are no headers and point, if they point, to static blocks, and that static headers are
white, as `bc2c` prints them (`printer.ml:91`). The programs of `sc_data` and `sc_closures` are tidy.

Neither property is inductive: whether a header is where the collector looks for one depends on the whole heap. The
invariant is `HeapInv`. Outside a collection it says `MachineOK(lo, B)`: there is a set `B` of addresses such that a
header with at least one field lies at each, blocks do not overlap, and every variable, field and static field is
a *value*, which points to a block of `B`, to a static block, or not at all. `InstructionTidy` proves, one lemma per group of instructions,
that every instruction keeps this, for whichever collector; `SplitValues` and `FreshFields` carry the operands from
the stack into the new block. During a collection it says `Copying(h, O, N, src)`, with `O` the blocks of the half being emptied, `h`
their contents before, `N` the copies, and `src` telling where each copied word comes from:

* the copies fill the half in use without gaps (`Covered`), so `heap_todo`, which goes from word to word, meets each header when it expects one (`AheadAtNext`, `ScanAhead`);
* `src` is injective and maps copies to blocks (`SourceOK`). Hence the copies are never larger than what was there, and the next one fits:
  `BlockFits`, by a pigeonhole argument on the addresses. This is why `gc_one_val` need not look at `heap_end`;
* a block copied has a black header and its new address in field 1; another one is untouched (`OldOK`). So a black header always means
  a forwarding pointer (`PointedOld`), though strings may look like anything;
* fields and roots ahead of the collector are values of the old half, all others of the new one (`CopiesOK`, `RootsOK`). This is Cheney's invariant, for a set
  `Ahead` of addresses that each step shrinks by one word and each copy extends by a block.

There is one lemma per step of `gc_one_val` (`SkipValueCopying`, `ForwardCopying`, `CopyCopying`, `NextFieldCopying`, `OpenBlockCopying`,
`NextRootCopying`), one for entering `gc()` and one for its last root, where the old half is dropped and `MachineOK` is
back (`LastRootTidy`). `NoMisreading` shows that the steps to `"wild"` are never enabled. The static heap enters
through `StaticFacts`: `StaticBlocks` and `StaticFields` are recursive functions that follow
the headers, and by induction on the end of the static heap every entry is the header, or a field, of a block.

**Mark & Compact is safe.** `MarkCompactTypes == TidyProgram /\ NoBlackImmediate /\ Spec => []TypeOK` and
`MarkCompactSafe == TidyProgram /\ NoBlackImmediate /\ Spec => []MemorySafe` (`MarkCompactProofs`), for every such program,
heap, stack and static data. `NoBlackImmediate` says that no constant, global or static field has the low bits of a black
header; tagged integers do not, unboxed floats may (the finding `mc_float`: `update_pointers` takes one that a closure has captured for the head of
a thread). The programs of `mc_data` and `mc_closures` satisfy both hypotheses.

The difficulty is that each phase takes memory apart and relies on a later step to put it together: a header may be in a field, a
field in a header, and what is in a string may look like either. The invariant `GcInv` is `Sound` (types, sizes,
the interrupted instruction) and, between collections, `MachineOK` as for Stop & Copy; during one, a formula for each of the twelve loops. Each relates
memory to a heap that is written down nowhere, the words as the program left them:

* *Marking* (`MarkState`): `g` is the heap, `S` are the blocks seen, `bs` and `fs` the way from the root to the block in hand. `Marks` says for
  each word what it is now: the header of a seen block is black, except that on the way it is in the field by which the block was entered, and the
  address of this field is in its place (`UNIQUE_MARK` for the first). Nothing else has changed, so going back undoes the last step of the way.
  `Closed`: the fields of seen blocks refer to seen blocks, but for those fields of the way that are still to come. `Rooted` says so of the roots.
* *Wiping* (`WipeState`): `w` is the heap with the dead blocks passed merged into strings, `K` the marked blocks. Headers before `p` are white, from `p` on those of `K`
  are black. A merged header never exceeds what the size field holds, because `DeadInv` bounds the run of dead blocks in hand.
* *Reversing* (`ThreadState`): `E` is the set of words reversed so far. Each word of `E` that referred to a block is in the block's chain (`Threading`),
  once, and the chain ends in the block's header. Everything else is as in `w`.
* *Updating* (`UpdateState`): `dest` is where each block will go (`Plan`: one after the other, and `dest[c] <= c`). References to blocks before `p`
  have their final values, the others are in chains, except that one chain may be half unwound (`X`). The dead blocks before `p` are black. A black word in
  a closure would be the chain of an infix header; there is none in a tidy program, and here `NoBlackImmediate` is needed.
* *Compacting* (`Moved`): the blocks before `p` are where `dest` says and memory from `p` on is as it was, since `dest[c] <= c` keeps
  the writes behind the reads.

There is one lemma per action (`MarkRootStep` ... `CompactDoneStep`), and one per phase which shows that its step to `"wild"` is
not enabled (`MarkReads`, `UpdateReads`, ...). At the end of a phase its invariant, with nothing left to do, gives that of the next;
`CompactDoneStep` gives `MachineOK` back. The instructions' half of the proof is `InstructionTidy`, the same as for Stop & Copy.

**The gcd.** `GcdProofs!Implements`: component, wrapper,
driver and instruction implement the loop of `nios_gcd` for all operands and every `MinGap >= 1`. The inductive invariant `Handshake` says what each
signal means at each point of the driver: `start` is up for just the cycle after the write that raises it, in which
the processor cannot read; what has been read is of this call. `ReturnsCorrect`: what a call returns is the greatest common divisor of its operands, for any two positive
integers. The invariant `LoopInvariant` of the C loop (the common divisors of `m` and `n` are those of the arguments), seen through the
refinement mapping, holds of the hardware; a turn of the loop keeps it because of `DifferenceDivisors` (what divides two numbers divides their
difference, and conversely).

**Calls and exceptions.** `TypeCorrect`, `EnvCorrect` and `TrapChainCorrect` (`ControlStackProofs`), for every set of
functions, arities, stack and program. None of the three is inductive: what an instruction does depends on the
words a frame has underneath, and on the functions those belong to. The invariant `LaidOut` says that the stack *has a
layout*: there are a set `A` of return frames, a set `H` of trap frames and a set `V` of values such that the words at each
height of `A` and `H` are an address, an environment and a count, that with these the words underneath are again a
frame that fits its shape, and that every partial application in `V` keeps fewer arguments than its function
has parameters. Words are named by their height from the bottom, not by their index in `stack`, so that a push
changes none of them and a pop forgets the highest (`LayoutStable`, `FrameStable`). `Control` relates the
registers to the layout: either a body runs in a frame (`InBody`), or arguments lie on a return frame (`OnEntry`). There is one
lemma per instruction (`PushLaid`, `ApptermLaid`, ...). `TypeOK` and `EnvIsOfFunction` are read off it; for `TrapChain`, `Control` says
that `trapSp` is the innermost trap frame, and `TrapsLinked` follows the links down the stack by induction on
the height (the least counterexample, as recursive functions of the stack are unfolded one frame at a time).

`CallsImplemented == ReadSpec => ImplementsCalls`: every step of the machine is a step of `CurriedCalls`, or none. In a
laid out stack the frames `FramesFrom` reads are those of the layout, each function of the words at its own
heights (`FramesBelowFrame`), so that an instruction changes only the frame on top and what lies
under it is read as before (`SameBelow`). There is one lemma per instruction that says what it does to the frame on top
and which abstract step that is (`ApplynCalls`, `ApptermCalls`, `ReturnCalls`, ...). Two cases need more. `RESTART`, and
`GRAB` if there are enough arguments, leave the frames as they are (`RestartStutters`, `GrabStutters`), which is about the order of
the arguments on the stack and in `env`. And an exception leaves any number of functions at once: `FramesCatch` goes up the
return frames and shows that the first handler in the list of frames is the trap frame that
`trapSp` leads to, with what lies under it in its function unchanged (`HandlerNow`).

**Simulator.** `TypeCorrect`, `AgreementCorrect` and `ReadCorrect` (`SimulatorProofs`), for any number of components and operations
and pipes of any length. The invariant has layers: the counters and pipes (`Types`); who holds each semaphore, with its
double release by `destroy` (`Locks`); which processes have ended (`Life`); that a component's view of the registers, with the lines on
their way to it applied, is what the registers hold (`Agree`); that `sync_counter` is the number of components that owe a
`DONE`, each of which has one token under way (`Tokens`); and that a component that owes none has written its reaction
(`Clean`). `ReadCorrect` has the hypothesis `OneDriver`, no two components drive the same port: with two, the last to write
wins, and a read cannot see the reaction of both.

**Accelerators.** `ReductionsCorrect == Spec => []ReturnsSoftwareResult`, for lists and arrays of any length: the sum in the FSM's
register and the sum of what is left are together the sum of the whole (`ReduceInv`, `ListInv`), modulo `IntRange` because the
component and the C function wrap at different moments. `AtRest`: a component that works is that of the call in progress, and the processor is polling it. `MapCorrect` and
`WritesCorrect`, for arrays of any size anywhere: the invariant `MapInv` says which words are mapped, which one is
in the FSM's registers, and that the rest of memory is as at the call; in place, the word read is never one already written.

**Encoder.** `ExportCorrect == Spec => []OffsetsExact`, for every program and any number of passes. The
difficulty is that a pass computes backward offsets from its own addresses and forward ones from those of the
pass before. The invariant `Repeating`: as long as the pass under way has produced the same bytes as the one before, its addresses are
the same too, so that both kinds are right; a pass that differs in one byte is followed by another.
`DecodesCorrect == Spec => []DecodesToTargets` carries this over to the interpreter: with less than 64 constant constructors
in every type (a hypothesis the third to last finding above makes necessary), every instruction goes where the program says. It
follows from `ExportCorrect`'s invariant and the arithmetic of each decoder; the place of a case stays below 256.

Assumptions, all evaluated by TLC in every run of their module: `SizesAssumption`, `WordsAssumption`,
`StaticHeapAssumption` (`Mutator`: sizes are naturals, constants and the static heap are words, `bc2c` lays the static
heap out as whole blocks: the headers lead from its first word to its end), `EvenHeap` (`StopCopy`: two halves), `MaxWosizeAssumption` (`MarkCompact`: no block the program makes or starts with is larger than a header can say), `OperandsAssumption` and `MinGapAssumption` (`Gcd`),
`ConstantsAssumption` and `CallsAssumption` (`Accelerators`: arrays lie in memory, source and destination of a map are
the same or disjoint, lists end), `ProgramsAssumption` (`Encoder`: pointers are instructions of the program), `WireAssumption` (`Simulator`: components
copy ports to ports), `FunctionsAssumption`, `BoundsAssumption`, `LiteralsAssumption` (`ControlStack`: a literal is no closure), `TrapAssumption` (`ControlStackCalls`: a
literal is not the mark of a handler) and
`ExtraArgsAssumption`: no more than 255 arguments are ever pending. The code does not check the last one (hazard at
`interp.c:570`); without it `extra_args` wraps and nothing about calls holds.

Only model-checked: of Stop & Copy, `CollectionIsExact`, which is about reachability and so about a recursion over the graph, and
`ImplementsMemory`, which compares the graphs that memory denotes before and after; of Mark & Compact, `MarkingIsExact` and `CollectionIsExact`
for the same reason, `ThreadsLeadHome`, which compares threads with the history variable `abs` (`Threading` is what it says of memory alone), and
`ImplementsMemory`. That a collection ends is model-checked too: `GcTerminates` requires `ctl = "done"`. `CollectorInvariant` is the conjunction of a collector's properties, for programs that are not all tidy. Liveness (`GcTerminates`, `ExportTerminates`, the two `CallReturns`, `AccessReturns`, `EverythingStops`) is out of
the prover's reach, as is `ENABLED`. Where a theorem is about a recursive function (`TrapsFrom`, the sums of lists) the proof
unfolds it at one argument at a time and goes by least counterexample: the library's induction theorems cannot be used.

## 5. What is not modelled

* Arithmetic, comparisons and branches on values: they touch no pointer. Reading a field or an element
  out of bounds, and anything the OCaml type checker excludes.
* What `CLOSUREREC_2B` and `_4B` push (it differs from `_1B`; hazards list). Methods (`GETMETHOD` and `oo.c`).
* Exceptions with a message, which allocate (`fail.c:38`): in `ControlStack` and `Mutator` exceptions are constants.
* `ControlStack` has no heap and `Mutator` no frames: frames hold no block but `env`, so that for the
  collectors they are words on the stack. A handler of `Mutator` finds nothing of the stack, and no block in `env`.
* Values of 16 and 64 bits, the flash heap (never moved nor scanned), `gc_count`.
* `compare.c`, `hash.c`, numeric primitives: sequential functions that keep no state. What a model of them should
  look at, from reading: strings that end in `'\000'` (`str.c:86-100` compares the padding too), `-0.` against `0.`
  (`compare.c:90` tests `v2` twice), object identities more than 127 apart (`compare.c:54`, `int8_t`), and boxed
  `int64`s (`int64.c:29` against `values-32.h:104`).
* In `bc2c`: the analysis and cleaning of bytecode, and the layout of data (`datagen.ml`).
* In the simulator: delays, `SPDR`, `SPSR` and analog inputs, the loop that splits what a pipe delivers into lines,
  signals the user sends. `byterun/Makefile` builds it; the Altera ports link registers of their own.
* The reset of the accelerators, which the boards tie inactive; a reset during a write (`arr_map.vhd:56`).
* Generated and vendor files (Quartus projects, board support packages), which are most of the repository's lines.

## 6. Plan

Done: memory (`Words`, `Mutator`, `OCamlMemory`, both collectors), calls and exceptions, encodings, accelerators and gcd,
simulator, and the theorems of section 4. Left, in this order:

1. That Stop & Copy's steps implement `OCamlMemory`'s: `src` of `Copying` is the isomorphism between the two graphs; for Mark & Compact `dest` is.
2. The words `CLOSUREREC_2B` and `_4B` push, in `Mutator`; exceptions that allocate; `compare.c` against structural comparison.
