--------------------------- MODULE EncoderProofs ---------------------------
(***************************************************************************)
(* Proof that the encodings export settles on are exact, for every set of  *)
(* programs.                                                               *)
(***************************************************************************)
EXTENDS Encoder, TLAPS

Kinds == {1, 2, 4}

\* An encoding of the first n instructions.
Encodings(n, b) ==
  /\ b \in Seq([kind: Kinds, ofss: Seq(Int)])
  /\ Len(b) = n
  /\ \A l \in 1 .. n : DOMAIN b[l].ofss = DOMAIN code[l].ptrs

Types ==
  /\ WellFormed(code)
  /\ codemap \in [DOMAIN code -> Nat \cup {-1}]
  /\ pc \in Nat /\ instr_ind \in 1 .. Len(code) + 1
  /\ Encodings(instr_ind - 1, new_bytecode)
  /\ bytecode = <<>> \/ Encodings(Len(code), bytecode)
  /\ continue \in BOOLEAN

\* Instructions follow each other in the pass under way ...
NewAddresses ==
  /\ instr_ind = 1 => pc = 0
  /\ instr_ind > 1 => codemap[1] = 0
  /\ \A l \in 1 .. instr_ind - 1 :
       /\ codemap[l] # -1
       /\ codemap[l] + Size(code[l], new_bytecode[l].kind) =
            IF l = instr_ind - 1 THEN pc ELSE codemap[l + 1]

\* ... and, from the place it has reached on, in the one before.
OldAddresses ==
  bytecode # <<>> =>
    /\ instr_ind = 1 => codemap[1] = 0
    /\ \A l \in instr_ind .. Len(code) :
         /\ codemap[l] # -1
         /\ l < Len(code) => codemap[l + 1] = codemap[l] + Size(code[l], bytecode[l].kind)

Exact(n, b) ==
  \A l \in 1 .. n : \A j \in DOMAIN code[l].ptrs :
    b[l].ofss[j] = codemap[code[l].ptrs[j]] - codemap[l]

\* As long as a pass repeats the one before, addresses do not move, so the
\* offsets it has computed from old and new addresses are exact.
Repeating ==
  (bytecode # <<>> /\ \A l \in 1 .. instr_ind - 1 : new_bytecode[l] = bytecode[l]) =>
    /\ instr_ind <= Len(code) => pc = codemap[instr_ind]
    /\ Exact(instr_ind - 1, new_bytecode)

IInv ==
  /\ Types /\ NewAddresses /\ OldAddresses /\ Repeating
  /\ ~ continue => instr_ind = Len(code) + 1 /\ new_bytecode = bytecode

-----------------------------------------------------------------------------
\* The kinds are those of the three opcodes.
LEMMA KindType == \A l : kind_of_int_list(l) \in Kinds
BY DEF kind_of_int_list, Kinds

\* A size is a number of bytes.
LEMMA SizeType ==
  ASSUME NEW instr \in Instructions, NEW kind \in Kinds
  PROVE  Size(instr, kind) \in Nat
<1> DEFINE operands == Len(instr.ints) + Len(instr.ptrs)
<1>1. instr.fixed \in Nat /\ operands \in Nat
  BY DEF Instructions
<1>2. kind * operands \in Nat
  <2> HIDE DEF operands
  <2>1. CASE kind = 1 BY <1>1, <2>1
  <2>2. CASE kind = 2 BY <1>1, <2>2
  <2>3. CASE kind = 4 BY <1>1, <2>3
  <2> QED BY <2>1, <2>2, <2>3 DEF Kinds
<1>3. Size(instr, kind) = instr.fixed + kind * operands
  BY DEF Size
<1> HIDE DEF operands
<1> QED BY <1>1, <1>2, <1>3

\* An instruction of a well-formed program.
LEMMA InstructionAt ==
  ASSUME WellFormed(code)
  PROVE  /\ Len(code) \in Nat /\ DOMAIN code = 1 .. Len(code)
         /\ \A i \in DOMAIN code : code[i] \in Instructions /\ code[i].ptrs \in Seq(Nat)
<1>1. code \in Seq(Instructions) BY DEF WellFormed
<1>2. Len(code) \in Nat /\ DOMAIN code = 1 .. Len(code) BY <1>1
<1>3. \A i \in DOMAIN code : code[i] \in Instructions BY <1>1, <1>2
<1>4. \A instr \in Instructions : instr.ptrs \in Seq(Nat) BY DEF Instructions
<1> QED BY <1>2, <1>3, <1>4

\* What is exported is an encoding of the instruction.
LEMMA EncodingType ==
  ASSUME WellFormed(code), pc \in Nat, NEW i \in DOMAIN code,
         NEW addrs \in [DOMAIN code -> Nat \cup {-1}]
  PROVE  /\ Encoding(code[i], addrs) \in [kind: Kinds, ofss: Seq(Int)]
         /\ DOMAIN Encoding(code[i], addrs).ofss = DOMAIN code[i].ptrs
<1> DEFINE ofss == [j \in DOMAIN code[i].ptrs |-> ofs_of_ptr(addrs, code[i].ptrs[j])]
<1>1. code[i] \in Instructions /\ code[i].ptrs \in Seq(Nat)
  BY InstructionAt
<1>2. \A j \in DOMAIN code[i].ptrs : ofs_of_ptr(addrs, code[i].ptrs[j]) \in Int
  BY DEF WellFormed, ofs_of_ptr
<1>3. ofss \in Seq(Int) /\ DOMAIN ofss = DOMAIN code[i].ptrs
  <2>1. DOMAIN code[i].ptrs = 1 .. Len(code[i].ptrs) /\ Len(code[i].ptrs) \in Nat
    BY <1>1
  <2>2. ofss \in [1 .. Len(code[i].ptrs) -> Int]
    BY <1>2, <2>1
  <2> QED BY <2>1, <2>2
<1>4. Encoding(code[i], addrs).ofss = ofss /\ Encoding(code[i], addrs).kind \in Kinds
  BY KindType DEF Encoding
<1>5. Encoding(code[i], addrs) = [kind |-> Encoding(code[i], addrs).kind, ofss |-> ofss]
  BY DEF Encoding
<1> QED BY <1>3, <1>4, <1>5

LEMMA InitInv == Init => IInv
<1> SUFFICES ASSUME Init PROVE IInv OBVIOUS
<1>1. WellFormed(code) BY ProgramsAssumption DEF Init
<1>2. Len(code) \in Nat BY <1>1, InstructionAt
<1>3. Types
  BY <1>1, <1>2 DEF Init, Types, Encodings
<1> QED BY <1>2, <1>3 DEF Init, IInv, NewAddresses, OldAddresses, Repeating

-----------------------------------------------------------------------------
\* One more instruction is exported.
LEMMA ExportInv == IInv /\ ExportInstr => IInv'
<1> SUFFICES ASSUME IInv, ExportInstr PROVE IInv' OBVIOUS
<1> USE DEF IInv
<1> DEFINE i == instr_ind
           e == Encoding(code[i], codemap')
           n == Len(code)
<1>0. /\ continue /\ instr_ind <= Len(code) /\ WellFormed(code)
      /\ codemap \in [DOMAIN code -> Nat \cup {-1}] /\ pc \in Nat
      /\ instr_ind \in 1 .. Len(code) + 1
      /\ Encodings(instr_ind - 1, new_bytecode)
      /\ bytecode = <<>> \/ Encodings(Len(code), bytecode)
  BY Zenon DEF ExportInstr, Types
<1>1. /\ i \in 1 .. n /\ n \in Nat /\ DOMAIN code = 1 .. n
      /\ WellFormed(code) /\ code[i] \in Instructions
  BY <1>0, InstructionAt
<1>2. /\ codemap' = [codemap EXCEPT ![i] = pc]
      /\ codemap' \in [DOMAIN code -> Nat \cup {-1}]
      /\ codemap'[i] = pc /\ \A l \in DOMAIN code : l # i => codemap'[l] = codemap[l]
  BY <1>1 DEF ExportInstr, Types
<1>3. e \in [kind: Kinds, ofss: Seq(Int)] /\ DOMAIN e.ofss = DOMAIN code[i].ptrs
  BY <1>1, <1>2, EncodingType DEF Types
<1>4. /\ code' = code /\ bytecode' = bytecode /\ continue' = continue
      /\ instr_ind' = i + 1 /\ new_bytecode' = Append(new_bytecode, e)
      /\ pc' = pc + Size(code[i], e.kind)
  BY DEF ExportInstr
<1>5. /\ Len(new_bytecode) = i - 1 /\ Len(new_bytecode') = i
      /\ new_bytecode'[i] = e
      /\ \A l \in 1 .. i - 1 : new_bytecode'[l] = new_bytecode[l]
      /\ new_bytecode' \in Seq([kind: Kinds, ofss: Seq(Int)])
  BY <1>1, <1>3, <1>4 DEF Types, Encodings
<1>6. Size(code[i], e.kind) \in Nat
  BY <1>1, <1>3, SizeType
<1>7. Types'
  <2>1. ASSUME NEW l \in 1 .. i PROVE DOMAIN new_bytecode'[l].ofss = DOMAIN code[l].ptrs
    <3>1. CASE l = i BY <1>3, <1>5, <3>1
    <3>2. CASE l # i
      <4>1. l \in 1 .. i - 1 BY <1>1, <3>2
      <4> QED BY <1>0, <1>5, <4>1 DEF Encodings
    <3> QED BY <3>1, <3>2
  <2>2. Encodings(i, new_bytecode') /\ i = instr_ind' - 1
    BY <1>1, <1>4, <1>5, <2>1 DEF Encodings
  <2>3. Encodings(instr_ind - 1, new_bytecode)'
    BY <1>4, <2>2 DEF Encodings
  <2>4. (bytecode = <<>> \/ Encodings(Len(code), bytecode))'
    BY <1>0, <1>4 DEF Encodings
  <2>5. pc' \in Nat /\ instr_ind' \in 1 .. Len(code') + 1 /\ WellFormed(code)'
    BY <1>0, <1>1, <1>4, <1>6 DEF WellFormed
  <2> QED BY <1>0, <1>2, <1>4, <2>3, <2>4, <2>5 DEF Types
<1>8. NewAddresses'
  <2>1. instr_ind' # 1 /\ codemap'[1] = 0
    BY <1>1, <1>2, <1>4 DEF NewAddresses, Types
  <2>2. ASSUME NEW l \in 1 .. i
        PROVE  /\ codemap'[l] # -1
               /\ codemap'[l] + Size(code[l], new_bytecode'[l].kind)
                    = IF l = i THEN pc' ELSE codemap'[l + 1]
    <3>1. CASE l = i BY <1>1, <1>2, <1>4, <1>5, <3>1 DEF Types
    <3>2. CASE l # i
      <4>1. l \in 1 .. i - 1 /\ l \in DOMAIN code /\ l + 1 \in DOMAIN code
        BY <1>1, <3>2
      <4>2. /\ codemap[l] # -1
            /\ codemap[l] + Size(code[l], new_bytecode[l].kind)
                 = IF l = i - 1 THEN pc ELSE codemap[l + 1]
        BY <4>1 DEF NewAddresses
      <4>3. codemap'[l] = codemap[l] /\ new_bytecode'[l] = new_bytecode[l]
        BY <1>2, <1>5, <3>2, <4>1
      <4>4. codemap'[l + 1] = IF l = i - 1 THEN pc ELSE codemap[l + 1]
        BY <1>1, <1>2, <4>1
      <4> QED BY <3>2, <4>2, <4>3, <4>4
    <3> QED BY <3>1, <3>2
  <2>3. instr_ind' - 1 = i BY <1>1, <1>4
  <2> QED BY <1>4, <2>1, <2>2, <2>3 DEF NewAddresses
<1>9. OldAddresses'
  BY <1>1, <1>2, <1>4 DEF OldAddresses
<1>10. Repeating'
  <2> SUFFICES ASSUME bytecode # <<>>, \A l \in 1 .. i : new_bytecode'[l] = bytecode[l]
               PROVE  /\ i + 1 <= n => pc' = codemap'[i + 1]
                      /\ \A l \in 1 .. i : \A j \in DOMAIN code[l].ptrs :
                           new_bytecode'[l].ofss[j] = codemap'[code[l].ptrs[j]] - codemap'[l]
    <3>1. instr_ind' - 1 = i BY <1>1, <1>4
    <3> QED BY <1>4, <3>1 DEF Repeating, Exact
  <2>1. \A l \in 1 .. i - 1 : new_bytecode[l] = bytecode[l]
    BY <1>1, <1>5
  <2>2. pc = codemap[i] /\ Exact(i - 1, new_bytecode)
    BY <1>1, <2>1 DEF Repeating
  <2>3. codemap' = codemap
    BY <1>1, <1>2, <2>2 DEF Types
  <2>4. e = bytecode[i]
    BY <1>1, <1>5
  <2>5. i + 1 <= n => pc' = codemap'[i + 1]
    BY <1>1, <1>4, <2>2, <2>3, <2>4 DEF OldAddresses
  <2>6. \A l \in 1 .. n : codemap[l] # -1
    BY <1>1 DEF NewAddresses, OldAddresses
  <2>7. \A j \in DOMAIN code[i].ptrs : e.ofss[j] = codemap[code[i].ptrs[j]] - codemap[i]
    <3> TAKE j \in DOMAIN code[i].ptrs
    <3>1. e.ofss[j] = ofs_of_ptr(codemap', code[i].ptrs[j])
      BY DEF Encoding
    <3>2. code[i].ptrs[j] \in 1 .. n
      BY <1>1 DEF WellFormed
    <3> QED BY <2>2, <2>3, <2>6, <3>1, <3>2 DEF ofs_of_ptr
  <2>8. ASSUME NEW l \in 1 .. i, NEW j \in DOMAIN code[l].ptrs
        PROVE  new_bytecode'[l].ofss[j] = codemap'[code[l].ptrs[j]] - codemap'[l]
    <3>1. CASE l = i BY <1>5, <2>3, <2>7, <3>1
    <3>2. CASE l # i
      <4>1. l \in 1 .. i - 1 BY <1>1, <3>2
      <4> QED BY <1>5, <2>2, <2>3, <4>1 DEF Exact
    <3> QED BY <3>1, <3>2
  <2> QED BY <2>5, <2>8
<1> QED BY <1>0, <1>4, <1>7, <1>8, <1>9, <1>10

\* A pass ends: the addresses of the new pass are the old ones of the next.
LEMMA EndPassInv == IInv /\ EndPass => IInv'
<1> SUFFICES ASSUME IInv, EndPass PROVE IInv' OBVIOUS
<1>0. Types /\ NewAddresses /\ OldAddresses /\ Repeating
  BY DEF IInv
<1>1. /\ instr_ind = Len(code) + 1 /\ Len(code) \in Nat /\ DOMAIN code = 1 .. Len(code)
      /\ code' = code /\ codemap' = codemap
  BY <1>0, InstructionAt DEF EndPass, Types
<1>2. CASE new_bytecode = bytecode
  <2>1. /\ pc' = pc /\ instr_ind' = instr_ind /\ new_bytecode' = new_bytecode
        /\ bytecode' = bytecode /\ continue' = FALSE
    BY <1>2 DEF EndPass
  <2>2. Types' BY <1>0, <1>1, <2>1 DEF Types, Encodings
  <2>3. NewAddresses' BY <1>0, <1>1, <2>1 DEF NewAddresses
  <2>4. OldAddresses' BY <1>0, <1>1, <2>1 DEF OldAddresses
  <2>5. Repeating' BY <1>0, <1>1, <2>1 DEF Repeating, Exact
  <2> QED BY <1>1, <1>2, <2>1, <2>2, <2>3, <2>4, <2>5 DEF IInv
<1>3. CASE new_bytecode # bytecode
  <2>1. /\ pc' = 0 /\ instr_ind' = 1 /\ new_bytecode' = <<>>
        /\ bytecode' = new_bytecode /\ continue' = continue /\ continue
    BY <1>3 DEF EndPass, NewPass
  <2>2. Types' BY <1>0, <1>1, <2>1 DEF Types, Encodings
  <2>3. NewAddresses' BY <2>1 DEF NewAddresses
  <2>4. Len(code) > 0
    <3> SUFFICES ASSUME Len(code) = 0 PROVE FALSE BY <1>1
    <3>1. Len(new_bytecode) = 0 /\ new_bytecode = <<>> BY <1>0, <1>1 DEF Types, Encodings
    <3>2. bytecode = <<>> BY <1>0 DEF Types, Encodings
    <3> QED BY <1>3, <3>1, <3>2
  <2>5. codemap[1] = 0
    <3>1. instr_ind > 1 BY <1>1, <2>4
    <3> QED BY <1>0, <3>1, Zenon DEF NewAddresses
  <2>6. OldAddresses'
    <3>1. ASSUME NEW l \in 1 .. Len(code)
          PROVE  /\ codemap[l] # -1
                 /\ l < Len(code) =>
                      codemap[l] + Size(code[l], new_bytecode[l].kind) = codemap[l + 1]
      <4>1. instr_ind - 1 = Len(code) /\ Len(code) \in Nat BY <1>1
      <4>2. l \in 1 .. instr_ind - 1 BY <4>1
      <4>3. l < Len(code) => l # instr_ind - 1 BY <4>1, <4>2
      <4> QED BY <1>0, <4>2, <4>3, Zenon DEF NewAddresses
    <3> QED BY <1>1, <2>1, <2>5, <3>1 DEF OldAddresses
  <2>7. Repeating'
    BY <1>1, <2>1, <2>4, <2>5 DEF Repeating, Exact
  <2> QED BY <2>1, <2>2, <2>3, <2>6, <2>7 DEF IInv
<1> QED BY <1>2, <1>3

LEMMA StutterInv == IInv /\ UNCHANGED vars => IInv'
BY DEF vars, IInv, Types, Encodings, NewAddresses, OldAddresses, Repeating, Exact

LEMMA InvExact == IInv => OffsetsExact
<1> SUFFICES ASSUME IInv, ~ continue,
                    NEW i \in DOMAIN code, NEW j \in DOMAIN code[i].ptrs
             PROVE  bytecode[i].ofss[j] = codemap[code[i].ptrs[j]] - codemap[i]
  BY DEF OffsetsExact
<1>1. /\ instr_ind = Len(code) + 1 /\ new_bytecode = bytecode
      /\ Len(code) \in Nat /\ DOMAIN code = 1 .. Len(code) /\ i \in 1 .. Len(code)
  BY InstructionAt DEF IInv, Types
<1>2. bytecode # <<>>
  BY <1>1 DEF IInv, Types, Encodings
<1> QED BY <1>1, <1>2 DEF IInv, Repeating, Exact

-----------------------------------------------------------------------------
\* Whatever the program and however many passes it takes, when export ends every
\* offset is the distance from its instruction to the target.
THEOREM ExportCorrect == Spec => []OffsetsExact
<1>1. Init => IInv BY InitInv
<1>2. IInv /\ [Next]_vars => IInv' BY ExportInv, EndPassInv, StutterInv DEF Next
<1>3. IInv => OffsetsExact BY InvExact
<1> QED BY <1>1, <1>2, <1>3, PTL DEF Spec

-----------------------------------------------------------------------------
\* No type has so many constant constructors that the place of a case in the
\* table of a SWITCH_4B does not fit in a uint8_t (interp.c:1464).
SwitchesFit(program) ==
  \A i \in DOMAIN program : program[i].op = "SWITCH" => program[i].consts < 64

\* The bytes before the offset number j.
LEMMA Place ==
  ASSUME NEW kind \in Kinds, NEW j \in Nat \ {0}
  PROVE  kind * (j - 1) \in Nat /\ (j < 64 => kind * (j - 1) <= 248)
<1>1. CASE kind = 1 BY <1>1
<1>2. CASE kind = 2 BY <1>2
<1>3. CASE kind = 4 BY <1>3
<1> QED BY <1>1, <1>2, <1>3 DEF Kinds

\* The interpreter finds the offset of a case in the table, and adds it to the
\* address of the instruction.
LEMMA SwitchDecodes ==
  ASSUME NEW i \in DOMAIN code, NEW j \in DOMAIN Entry(i).ofss, j \in Nat \ {0},
         Entry(i).kind \in Kinds, codemap[i] \in Int,
         code[i].consts \in Nat, code[i].consts < 64,
         NEW target \in Int, Entry(i).ofss[j] = target - codemap[i]
  PROVE  SwitchGoes(i, j, target)
<1> DEFINE kind  == Entry(i).kind
           place == kind * (j - 1)
           o     == Entry(i).ofss[j]
           base  == codemap[i]
<1>1. place \in Nat /\ (j < 64 => place <= 248) /\ kind \in Int
  BY Place DEF Kinds
<1>2. o \in Int /\ base \in Int /\ o = target - base
  OBVIOUS
<1>3. CASE j <= code[i].consts
  <2>1. (place + 2) % 256 = place + 2
    <3>1. place <= 248 BY <1>1, <1>3
    <3> HIDE DEF place
    <3> QED BY <1>1, <3>1
  <2>2. base + 1 + (place + 2) = base + 3 + place
    <3> HIDE DEF place, base
    <3> QED BY <1>1, <1>2
  <2>3. target = read_ptr(base + 1 + (place + 2), kind, o) - (place + 2) - 0
    <3> HIDE DEF place, base, o, kind
    <3> QED BY <1>1, <1>2 DEF read_ptr
  <2> QED BY <1>3, <2>1, <2>2, <2>3 DEF SwitchGoes
<1>4. CASE ~ (j <= code[i].consts)
  <2>1. base + 2 + (place + 1) = base + 3 + place
    <3> HIDE DEF place, base
    <3> QED BY <1>1, <1>2
  <2>2. target = read_ptr(base + 2 + (place + 1), kind, o) - (place + 1) - 1
    <3> HIDE DEF place, base, o, kind
    <3> QED BY <1>1, <1>2 DEF read_ptr
  <2> QED BY <1>4, <2>1, <2>2 DEF SwitchGoes
<1> QED BY <1>3, <1>4

\* The interpreter goes where an exact offset says.
LEMMA ExactDecodes ==
  ASSUME WellFormed(code), SwitchesFit(code),
         NEW i \in DOMAIN code, NEW j \in DOMAIN code[i].ptrs,
         Entry(i).kind \in Kinds, DOMAIN Entry(i).ofss = DOMAIN code[i].ptrs,
         codemap[i] \in Int, NEW target \in Int, Entry(i).ofss[j] = target - codemap[i]
  PROVE  Goes(i, j, target)
<1>1. /\ code[i] \in Instructions /\ code[i].ptrs \in Seq(Nat)
      /\ code[i].consts \in Nat
  BY InstructionAt DEF Instructions
<1>2. j \in Nat \ {0}
  BY <1>1
<1>3. code[i].op \in {"other", "int", "jump", "compare", "CLOSURE", "CLOSUREREC", "SWITCH"}
  BY <1>1 DEF Instructions
<1>4. code[i].op \notin {"other", "int"}
  <2>1. code[i].ptrs # <<>>
    BY <1>1
  <2> QED BY <2>1 DEF WellFormed
<1>5. Entry(i).kind \in Int /\ Entry(i).ofss[j] \in Int
  BY DEF Kinds
<1>6. ASSUME code[i].op \in {"jump", "compare", "CLOSURE"} PROVE j = 1
  <2>1. Len(code[i].ptrs) = 1
    BY <1>6 DEF WellFormed
  <2> QED BY <1>1, <2>1
<1>7. CASE code[i].op = "jump"
  BY <1>5, <1>6, <1>7 DEF Goes, JumpTarget, read_ptr
<1>8. CASE code[i].op = "compare"
  BY <1>5, <1>6, <1>8 DEF Goes, CompareTarget, read_ptr
<1>9. CASE code[i].op = "CLOSURE"
  BY <1>5, <1>6, <1>9 DEF Goes, ClosureTarget, read_ptr
<1>10. CASE code[i].op = "CLOSUREREC"
  <2> DEFINE place == Entry(i).kind * (j - 1)
  <2>1. place \in Nat
    BY <1>2, Place
  <2>2. target = read_ptr(codemap[i] + 3 + place, Entry(i).kind, Entry(i).ofss[j]) - place - 2
    <3> HIDE DEF place
    <3> QED BY <1>5, <2>1 DEF read_ptr
  <2> QED BY <1>10, <2>2 DEF Goes, ClosurerecTarget
<1>11. CASE code[i].op = "SWITCH"
  <2>1. code[i].consts < 64
    BY <1>11 DEF SwitchesFit
  <2>2. SwitchGoes(i, j, target)
    BY <1>1, <1>2, <2>1, SwitchDecodes
  <2> QED BY <1>11, <2>2 DEF Goes
<1> QED BY <1>3, <1>4, <1>7, <1>8, <1>9, <1>10, <1>11

\* When export ends, every instruction of a program whose types have less than 64
\* constant constructors goes where the program says, in whichever encoding was
\* chosen for it (codegen.ml:717-726 with interp.c:680-821, 1424-1476, 2009-2294).
THEOREM DecodesCorrect ==
  ASSUME \A program \in Programs : SwitchesFit(program)
  PROVE  Spec => []DecodesToTargets
<1>1. Init => IInv /\ SwitchesFit(code)
  BY InitInv DEF Init
<1>2. IInv /\ SwitchesFit(code) /\ [Next]_vars => (IInv /\ SwitchesFit(code))'
  <2>1. IInv /\ [Next]_vars => IInv'
    BY ExportInv, EndPassInv, StutterInv DEF Next
  <2>2. [Next]_vars => code' = code
    BY DEF Next, ExportInstr, EndPass, vars
  <2> QED BY <2>1, <2>2 DEF SwitchesFit
<1>3. IInv /\ SwitchesFit(code) => DecodesToTargets
  <2> SUFFICES ASSUME IInv, SwitchesFit(code), ~ continue,
                      NEW i \in DOMAIN code, NEW j \in DOMAIN code[i].ptrs
               PROVE  Goes(i, j, codemap[code[i].ptrs[j]])
    BY DEF DecodesToTargets
  <2>1. /\ WellFormed(code) /\ Len(code) \in Nat /\ i \in 1 .. Len(code)
        /\ codemap \in [DOMAIN code -> Nat \cup {-1}]
        /\ code[i].ptrs[j] \in DOMAIN code
    BY InstructionAt DEF IInv, Types, WellFormed
  <2>2. codemap[i] \in Int /\ codemap[code[i].ptrs[j]] \in Int
    BY <2>1
  <2>3. Encodings(Len(code), bytecode)
    BY <2>1 DEF IInv, Types, Encodings
  <2>4. Entry(i).kind \in Kinds /\ DOMAIN Entry(i).ofss = DOMAIN code[i].ptrs
    <3>1. bytecode \in Seq([kind: Kinds, ofss: Seq(Int)]) /\ i \in 1 .. Len(bytecode)
      BY <2>1, <2>3 DEF Encodings
    <3>2. bytecode[i] \in [kind: Kinds, ofss: Seq(Int)]
      <4> DEFINE R == [kind: Kinds, ofss: Seq(Int)]
      <4> HIDE DEF R
      <4>1. bytecode \in Seq(R) BY <3>1 DEF R
      <4>2. bytecode[i] \in R BY <3>1, <4>1
      <4> QED BY <4>2 DEF R
    <3>3. DOMAIN bytecode[i].ofss = DOMAIN code[i].ptrs
      BY <2>1, <2>3 DEF Encodings
    <3> QED BY <3>2, <3>3 DEF Entry
  <2>5. Entry(i).ofss[j] = codemap[code[i].ptrs[j]] - codemap[i]
    BY InvExact DEF OffsetsExact, Entry
  <2> QED BY <2>1, <2>2, <2>4, <2>5, ExactDecodes
<1> QED BY <1>1, <1>2, <1>3, PTL DEF Spec
=============================================================================
