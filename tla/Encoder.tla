------------------------------ MODULE Encoder ------------------------------
(***************************************************************************)
(* bc2c's choice of encodings (omicrob/src/bc2c/codegen.ml) and what the   *)
(* interpreter makes of them (byterun/vm/interp.c).                        *)
(*                                                                         *)
(* Jumps are relative, and the operands of an instruction take 1, 2 or 4   *)
(* bytes each, all the same: as many as the greatest of them needs.  So    *)
(* sizes depend on offsets and offsets on sizes.  export repeats a pass    *)
(* over the code until two of them give the same bytes.  A pass knows the  *)
(* addresses of what precedes, and has those of the previous pass for what *)
(* follows.                                                                *)
(*                                                                         *)
(* An instruction is what determines its encoding: the bytes that do not   *)
(* depend on it (opcode included), the integers and the pointers it has.   *)
(* The bytes are not laid out: an instruction of the bytecode is its kind  *)
(* (bytes per operand, which the opcode says) and its offsets.             *)
(***************************************************************************)
EXTENDS Integers, Sequences

CONSTANT Programs   \* the programs: sequences of instructions

Instructions ==
  [op: {"other", "int", "jump", "compare", "CLOSURE", "CLOSUREREC", "SWITCH"},
   fixed: Nat, ints: Seq(Int), ptrs: Seq(Nat), consts: Nat]

\* Instructions have the pointers they should, to instructions of the program.
WellFormed(program) ==
  /\ program \in Seq(Instructions)
  /\ \A i \in DOMAIN program :
       /\ program[i].op \in {"other", "int"} => program[i].ptrs = <<>>
       /\ program[i].op \in {"jump", "compare", "CLOSURE"} => Len(program[i].ptrs) = 1
  /\ \A i \in DOMAIN program : \A j \in DOMAIN program[i].ptrs :
       program[i].ptrs[j] \in DOMAIN program

ASSUME ProgramsAssumption == \A program \in Programs : WellFormed(program)

Instruction(op, fixed, ints, ptrs, consts) ==
  [op |-> op, fixed |-> fixed, ints |-> ints, ptrs |-> ptrs, consts |-> consts]

\* Instructions whose size is known, n bytes of them.
Other(n) == Instruction("other", n, <<>>, <<>>, 0)
\* CONSTINT, PUSHCONSTINT, OFFSETINT, OFFSETREF.
Integer(n) == Instruction("int", 1, <<n>>, <<>>, 0)
\* BRANCH, BRANCHIF, BRANCHIFNOT, PUSHTRAP, PUSH_RETADDR.
Jump(p) == Instruction("jump", 1, <<>>, <<p>>, 0)
\* BEQ, BNEQ, BLTINT, BLEINT, BGTINT, BGEINT, BULTINT, BUGEINT.
Compare(n, p) == Instruction("compare", 1, <<n>>, <<p>>, 0)
CLOSURE(p) == Instruction("CLOSURE", 2, <<>>, <<p>>, 0)
CLOSUREREC(ps) == Instruction("CLOSUREREC", 3, <<>>, ps, 0)
\* The first consts pointers are the cases of the constant constructors.
SWITCH(consts, ps) == Instruction("SWITCH", 3, <<>>, ps, consts)

VARIABLES
  code,
  codemap,        \* the address of each instruction; -1: not known
  pc, instr_ind, new_bytecode,     \* a pass
  bytecode,       \* the result of the pass before
  continue

vars == <<code, codemap, pc, instr_ind, new_bytecode, bytecode, continue>>

-----------------------------------------------------------------------------
kind_of_int(n) ==
  IF n \in -128 .. 127 THEN 1 ELSE IF n \in -32768 .. 32767 THEN 2 ELSE 4

kind_of_int_list(l) ==
  IF \A j \in DOMAIN l : kind_of_int(l[j]) = 1 THEN 1
  ELSE IF \A j \in DOMAIN l : kind_of_int(l[j]) \in {1, 2} THEN 2
  ELSE 4

ofs_of_ptr(addrs, ptr) == IF addrs[ptr] = -1 THEN 0 ELSE addrs[ptr] - pc

\* The encoding of an instruction at pc.
Encoding(instr, addrs) ==
  LET ofss == [j \in DOMAIN instr.ptrs |-> ofs_of_ptr(addrs, instr.ptrs[j])] IN
  [kind |-> kind_of_int_list(instr.ints \o ofss), ofss |-> ofss]

Size(instr, kind) == instr.fixed + kind * (Len(instr.ints) + Len(instr.ptrs))

Init ==
  /\ code \in Programs
  /\ codemap = [i \in DOMAIN code |-> -1]
  /\ pc = 0 /\ instr_ind = 1 /\ new_bytecode = <<>>
  /\ bytecode = <<>>
  /\ continue = TRUE

\* One instruction, in export_code_from_codemap.
ExportInstr ==
  /\ continue /\ instr_ind <= Len(code)
  /\ codemap' = [codemap EXCEPT ![instr_ind] = pc]
  /\ LET e == Encoding(code[instr_ind], codemap') IN
     /\ new_bytecode' = Append(new_bytecode, e)
     /\ pc' = pc + Size(code[instr_ind], e.kind)
  /\ instr_ind' = instr_ind + 1
  /\ UNCHANGED <<code, bytecode, continue>>

NewPass == pc' = 0 /\ instr_ind' = 1 /\ new_bytecode' = <<>>

\* Mutant: two passes are enough.
EndPassTwo ==
  /\ continue /\ instr_ind > Len(code)
  /\ IF bytecode # <<>>
     THEN continue' = FALSE /\ UNCHANGED <<pc, instr_ind, new_bytecode, bytecode>>
     ELSE bytecode' = new_bytecode /\ NewPass /\ UNCHANGED continue
  /\ UNCHANGED <<code, codemap>>

\* Mutant: passes are compared with the first one.
EndPassFirst ==
  /\ continue /\ instr_ind > Len(code)
  /\ IF new_bytecode = bytecode
     THEN continue' = FALSE /\ UNCHANGED <<pc, instr_ind, new_bytecode, bytecode>>
     ELSE /\ bytecode' = IF bytecode = <<>> THEN new_bytecode ELSE bytecode
          /\ NewPass /\ UNCHANGED continue
  /\ UNCHANGED <<code, codemap>>

\* The loop of export.
EndPass ==
  /\ continue /\ instr_ind > Len(code)
  /\ IF new_bytecode = bytecode
     THEN continue' = FALSE /\ UNCHANGED <<pc, instr_ind, new_bytecode, bytecode>>
     ELSE bytecode' = new_bytecode /\ NewPass /\ UNCHANGED continue
  /\ UNCHANGED <<code, codemap>>

Next == ExportInstr \/ EndPass

\* bc2c is a sequential program.
Spec == Init /\ [][Next]_vars /\ WF_vars(Next)

-----------------------------------------------------------------------------
(* The interpreter: where instruction i goes for its pointer j.            *)

Entry(i) == bytecode[i]

\* read_ptr_1B, _2B, _4B, when the offset o is at address at.
read_ptr(at, kind, o) == at + kind - (kind + 1) + o

\* Mutant: the integer before the offset is forgotten.
CompareTargetAtOffset(i) ==
  LET e == Entry(i) IN read_ptr(codemap[i] + 1 + e.kind, e.kind, e.ofss[1])

CompareTarget(i) ==
  LET e == Entry(i) IN read_ptr(codemap[i] + 1 + e.kind, e.kind, e.ofss[1]) - e.kind

JumpTarget(i) == LET e == Entry(i) IN read_ptr(codemap[i] + 1, e.kind, e.ofss[1])

ClosureTarget(i) == LET e == Entry(i) IN read_ptr(codemap[i] + 2, e.kind, e.ofss[1]) - 1

\* Function j of the closure.
ClosurerecTarget(i, j) ==
  LET e == Entry(i)
      at == codemap[i] + 3 + e.kind * (j - 1)
  IN read_ptr(at, e.kind, e.ofss[j]) - e.kind * (j - 1) - 2

\* SWITCH adds to pc the place of the case in the table, a uint8_t for a constant
\* constructor, and reads the offset it finds there.
SwitchGoes(i, j, target) ==
  LET e     == Entry(i)
      const == j <= code[i].consts
      ofs   == IF const THEN (e.kind * (j - 1) + 2) % 256 ELSE e.kind * (j - 1) + 1
      at    == codemap[i] + (IF const THEN 1 ELSE 2) + ofs
  IN \E case \in DOMAIN e.ofss :
       /\ at = codemap[i] + 3 + e.kind * (case - 1)
       /\ target = read_ptr(at, e.kind, e.ofss[case]) - ofs - (IF const THEN 0 ELSE 1)

Goes(i, j, target) ==
  CASE code[i].op = "jump"       -> target = JumpTarget(i)
    [] code[i].op = "compare"    -> target = CompareTarget(i)
    [] code[i].op = "CLOSURE"    -> target = ClosureTarget(i)
    [] code[i].op = "CLOSUREREC" -> target = ClosurerecTarget(i, j)
    [] code[i].op = "SWITCH"     -> SwitchGoes(i, j, target)

-----------------------------------------------------------------------------
\* When export ends, every offset is the distance to its target, though it was
\* computed from the addresses of two passes (codegen.ml:57-60, 717-726).
OffsetsExact ==
  ~ continue =>
    \A i \in DOMAIN code : \A j \in DOMAIN code[i].ptrs :
      bytecode[i].ofss[j] = codemap[code[i].ptrs[j]] - codemap[i]

\* Every instruction goes where the program says, in the three encodings
\* (interp.c:101-114, 680-821, 1424-1476, 2009-2294).
DecodesToTargets ==
  ~ continue =>
    \A i \in DOMAIN code : \A j \in DOMAIN code[i].ptrs : Goes(i, j, codemap[code[i].ptrs[j]])

\* The passes end, though an instruction may become shorter when one before it
\* grows (codegen.ml:721-725).
ExportTerminates == <>(~ continue)
=============================================================================
