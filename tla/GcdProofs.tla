----------------------------- MODULE GcdProofs -----------------------------
(***************************************************************************)
(* The extops board implements nios_gcd: the invariant of the handshake    *)
(* between nios_gcd_cc, the wrapper and the core, and of the custom        *)
(* instruction; every edge of the clock as a step of the C function; and   *)
(* so what a call returns, for all operands and all delays.                *)
(***************************************************************************)
EXTENDS Gcd, TLAPS

\* The component rests, ready, but between the write that starts it and the end
\* of its computation; start is up for the one cycle after that write.
AtRest ==
  /\ rdy = 1 <=> etat = "Repos"
  /\ write_state = "StartAsserted" <=> start = 1
  /\ ~ Started => etat = "Repos" /\ start = 0
  /\ start = 1 => pc = "poll" /\ cycle = 1 /\ quiet = 0 /\ etat = "Repos"

\* The registers hold the operands from their write on.
OperandsWritten ==
  /\ pc \in {"arg2", "start"} \/ Started => arg1 = m
  /\ pc = "start" \/ Started => arg2 = n

\* What has been read is of this call: a 1 in bit 0 means that it is over.
ReadIsFresh ==
  /\ cycle = 2 /\ pc = "ctl" => readdata = 1
  /\ cycle = 2 /\ pc = "poll" /\ readdata # 0 => etat = "Repos" /\ start = 0
  /\ pc = "result" => etat = "Repos" /\ start = 0
  /\ pc = "result" /\ cycle = 2 => readdata = result

\* The custom instruction works while the processor is stalled on it, and then only.
InstructionInStep ==
  /\ ci_etat # "Repos" <=> pc = "ci_wait"
  /\ done = 1 <=> ci_etat = "Fin"

Handshake == TypeOK /\ AtRest /\ OperandsWritten /\ ReadIsFresh /\ InstructionInStep

\* The core and the instruction keep their types on every edge.
LEMMA CoreType ==
  ASSUME TypeOK, Core
  PROVE  /\ etat' \in {"Repos", "Calcul"} /\ rdy' \in {0, 1}
         /\ a' \in Nat /\ b' \in Nat /\ result' \in Nat
  BY DEF TypeOK, Core, Rest, Load, Subtract, Finish, core

\* The same of the custom instruction.
LEMMA InstructionTypes ==
  ASSUME TypeOK, NEW bus, Instruction(bus)
  PROVE  /\ ci_etat' \in {"Repos", "Calcul", "Fin"} /\ done' \in {0, 1}
         /\ ci_a' \in Nat /\ ci_b' \in Nat /\ ci_result' \in Nat
  BY DEF TypeOK, Instruction, ci

\* And of the wrapper.
LEMMA WrapperType ==
  ASSUME TypeOK, NEW bus, WriteProcess(bus), ReadProcess(bus)
  PROVE  /\ write_state' \in {"Idle", "StartAsserted"} /\ start' \in {0, 1}
         /\ arg1' \in Nat /\ arg2' \in Nat /\ readdata' \in Nat
<1>1. avs_writedata \in Nat
  BY DEF TypeOK, avs_writedata
<1>2. readdata' \in Nat
  BY DEF TypeOK, ReadProcess
<1>3. write_state' \in {"Idle", "StartAsserted"} /\ start' \in {0, 1}
  BY DEF TypeOK, WriteProcess, wrapper
<1>4. arg1' \in Nat /\ arg2' \in Nat
  BY <1>1 DEF TypeOK, WriteProcess, wrapper
<1> QED
  BY <1>2, <1>3, <1>4

\* What every step of the processor does to its own variables, in one formula.
Cpu ==
  /\ m' \in Nat /\ n' \in Nat /\ ret' \in Nat
  /\ pc' \in Writes \cup Reads \cup {"idle", "ci", "ci_wait", "ret"}
  /\ cycle' \in {1, 2} /\ (cycle' = 2 => pc' \in Reads)
  /\ quiet' \in 0 .. MinGap

\* The processor keeps its types.
LEMMA CpuType ==
  ASSUME TypeOK, Next
  PROVE  Cpu /\ \E bus \in {"access", "idle"} : Hardware(bus)
<1> USE OperandsAssumption, MinGapAssumption DEF Cpu, TypeOK, Writes, Reads
<1>1. ASSUME NEW f \in {"ctl", "ci"}, NEW x \in Operands, NEW y \in Operands, Call(f, x, y)
      PROVE  Cpu /\ Hardware("idle")
  BY <1>1 DEF Call
<1>2. CASE Think
  BY <1>2 DEF Think
<1>3. CASE Write
  BY <1>3 DEF Write
<1>4. CASE Read
  BY <1>4 DEF Read
<1>5. CASE GetCtl
  BY <1>5 DEF GetCtl, Latch
<1>6. CASE PollAgain
  BY <1>6 DEF PollAgain, Latch
<1>7. CASE Ready
  BY <1>7 DEF Ready, Latch
<1>8. CASE GetResult
  BY <1>8 DEF GetResult, Latch
<1>9. CASE Issue
  BY <1>9 DEF Issue
<1>10. CASE Complete
  BY <1>10 DEF Complete
<1>11. CASE Return
  BY <1>11 DEF Return
<1> QED
  BY <1>1, <1>2, <1>3, <1>4, <1>5, <1>6, <1>7, <1>8, <1>9, <1>10, <1>11 DEF Next

\* Types are kept by every step.
LEMMA TypeStep == TypeOK /\ [Next]_vars => TypeOK'
<1> SUFFICES ASSUME TypeOK, [Next]_vars PROVE TypeOK'
  OBVIOUS
<1>1. CASE Next
  <2>1. PICK bus \in {"access", "idle"} : Hardware(bus)
    BY <1>1, CpuType
  <2>2. Core /\ WriteProcess(bus) /\ ReadProcess(bus) /\ Instruction(bus)
    BY <2>1 DEF Hardware
  <2> QED
    BY <1>1, <2>2, CpuType, CoreType, InstructionTypes, WrapperType DEF TypeOK, Cpu
<1>2. CASE UNCHANGED vars
  BY <1>2 DEF TypeOK, vars, core, wrapper, ci
<1> QED
  BY <1>1, <1>2

\* The conjuncts of the handshake that the component is involved in, and the one
\* of the instruction.
ComponentPart == AtRest /\ OperandsWritten /\ ReadIsFresh

\* The component's part is kept by every step: one case per action of the
\* processor, with the edge the hardware takes at the same time.
LEMMA ComponentStep == Handshake /\ Next => ComponentPart'
<1> SUFFICES ASSUME Handshake, Next PROVE ComponentPart'
  OBVIOUS
<1> USE MinGapAssumption
    DEF Handshake, ComponentPart, TypeOK, AtRest, OperandsWritten, ReadIsFresh, Started,
        Hardware, Core, Rest, Load, Subtract, Finish, core,
        WriteProcess, ReadProcess, avs_write, avs_read, avs_address, avs_writedata, wrapper,
        Writes, Reads, GCD_CC_CTL, GCD_CC_ARG1, GCD_CC_ARG2, GCD_CC_RESULT, CanAccess
<1>1. ASSUME NEW f \in {"ctl", "ci"}, NEW x \in Operands, NEW y \in Operands, Call(f, x, y)
      PROVE  ComponentPart'
  BY <1>1 DEF Call
<1>2. CASE Think
  BY <1>2 DEF Think
<1>3. CASE Write
  BY <1>3 DEF Write
<1>4. CASE Read
  BY <1>4 DEF Read
<1>5. CASE GetCtl
  BY <1>5 DEF GetCtl, Latch
<1>6. CASE PollAgain
  BY <1>6 DEF PollAgain, Latch
<1>7. CASE Ready
  BY <1>7 DEF Ready, Latch
<1>8. CASE GetResult
  BY <1>8 DEF GetResult, Latch
<1>9. CASE Issue
  BY <1>9 DEF Issue
<1>10. CASE Complete
  BY <1>10 DEF Complete
<1>11. CASE Return
  BY <1>11 DEF Return
<1> QED
  BY <1>1, <1>2, <1>3, <1>4, <1>5, <1>6, <1>7, <1>8, <1>9, <1>10, <1>11 DEF Next

\* So is the instruction's.
LEMMA InstructionStep == Handshake /\ Next => InstructionInStep'
<1> SUFFICES ASSUME Handshake, Next PROVE InstructionInStep'
  OBVIOUS
<1> USE DEF Handshake, TypeOK, InstructionInStep, Hardware, Instruction, ci_start, ci,
            Writes, Reads
<1>1. ASSUME NEW f \in {"ctl", "ci"}, NEW x \in Operands, NEW y \in Operands, Call(f, x, y)
      PROVE  InstructionInStep'
  BY <1>1 DEF Call
<1>2. CASE Think
  BY <1>2 DEF Think
<1>3. CASE Write
  BY <1>3 DEF Write
<1>4. CASE Read
  BY <1>4 DEF Read
<1>5. CASE GetCtl
  BY <1>5 DEF GetCtl, Latch
<1>6. CASE PollAgain
  BY <1>6 DEF PollAgain, Latch
<1>7. CASE Ready
  BY <1>7 DEF Ready, Latch
<1>8. CASE GetResult
  BY <1>8 DEF GetResult, Latch
<1>9. CASE Issue
  BY <1>9 DEF Issue
<1>10. CASE Complete
  BY <1>10 DEF Complete
<1>11. CASE Return
  BY <1>11 DEF Return
<1> QED
  BY <1>1, <1>2, <1>3, <1>4, <1>5, <1>6, <1>7, <1>8, <1>9, <1>10, <1>11 DEF Next

\* The inductive invariant of the board.
LEMMA HandshakeInvariant == Spec => []Handshake
<1>1. Init => Handshake
  BY OperandsAssumption, MinGapAssumption
  DEF Init, Handshake, TypeOK, AtRest, OperandsWritten, ReadIsFresh, InstructionInStep,
      Started, Writes, Reads
<1>2. Handshake /\ [Next]_vars => Handshake'
  <2>1. CASE Next
    BY <2>1, TypeStep, ComponentStep, InstructionStep DEF Handshake, ComponentPart
  <2>2. CASE UNCHANGED vars
    BY <2>2 DEF vars, core, wrapper, ci, Handshake, TypeOK, AtRest, OperandsWritten,
       ReadIsFresh, InstructionInStep, Started
  <2> QED
    BY <2>1, <2>2
<1> QED
  BY <1>1, <1>2, PTL DEF Spec

\* Every variable of the board keeps its type (gcd.vhd, gcd_cc.vhd, custom-gcd.vhd,
\* platform.c:207-232): no subtraction of the core goes below 0.
THEOREM TypeCorrect == Spec => []TypeOK
  BY HandshakeInvariant, PTL DEF Handshake

\* One edge of the clock, seen in the software: a turn of its loop, its return, a
\* call, or nothing.
LEMMA SoftwareStep == Handshake /\ [Next]_vars => [Software!Next]_(Software!vars)
<1> SUFFICES ASSUME Handshake, [Next]_vars PROVE [Software!Next]_(Software!vars)
  OBVIOUS
<1> USE MinGapAssumption
    DEF Handshake, TypeOK, AtRest, OperandsWritten, ReadIsFresh, InstructionInStep, Started,
        LoopOf, Writes, Reads, CanAccess, Software!Next, Software!vars
<1> USE DEF Hardware, Core, Rest, Load, Subtract, Finish, core, Instruction, ci_start, ci,
        WriteProcess, avs_write, avs_address, GCD_CC_CTL, GCD_CC_ARG1, GCD_CC_ARG2,
        GCD_CC_RESULT, wrapper
<1>1. ASSUME NEW f \in {"ctl", "ci"}, NEW x \in Operands, NEW y \in Operands, Call(f, x, y)
      PROVE  Software!Call(x, y)
  BY <1>1 DEF Call, Software!Call
<1>2. CASE Think
  BY <1>2 DEF Think, Software!Subtract
<1>3. CASE Write
  BY <1>3 DEF Write, Software!Subtract
<1>4. CASE Read
  BY <1>4 DEF Read, Software!Subtract
<1>5. CASE GetCtl
  BY <1>5 DEF GetCtl, Latch
<1>6. CASE PollAgain
  BY <1>6 DEF PollAgain, Latch, Software!Subtract
<1>7. CASE Ready
  BY <1>7 DEF Ready, Latch
<1>8. CASE GetResult
  BY <1>8 DEF GetResult, Latch, Software!Return
<1>9. CASE Issue
  BY <1>9 DEF Issue
<1>10. CASE Complete
  BY <1>10 DEF Complete, Software!Return
<1>11. CASE Return
  BY <1>11 DEF Return, Software!Resume
<1>12. CASE UNCHANGED vars
  BY <1>12 DEF vars
<1> QED
  BY <1>1, <1>2, <1>3, <1>4, <1>5, <1>6, <1>7, <1>8, <1>9, <1>10, <1>11, <1>12 DEF Next

\* The board implements nios_gcd (platform.c:198-205), for all operands, and however
\* slow the processor is between two accesses.
THEOREM Implements == Spec => ImplementsSoftware
<1>1. Init => Software!Init
  BY DEF Init, Software!Init, LoopOf
<1> QED
  BY <1>1, SoftwareStep, HandshakeInvariant, PTL DEF Spec, ImplementsSoftware

-----------------------------------------------------------------------------
(* What the loop of nios_gcd computes, wherever it is carried out.         *)

\* A product of positive integers is at least either of them.
LEMMA ProductBound ==
  ASSUME NEW d \in Nat \ {0}, NEW k \in Nat \ {0}
  PROVE  d * k \in Nat \ {0} /\ d <= d * k /\ k <= d * k
  BY SMT

\* A divisor, in terms of its cofactor alone.
LEMMA DivisorsDef ==
  ASSUME NEW x \in Nat \ {0}, NEW d
  PROVE  d \in Software!Divisors(x) <=> d \in Nat \ {0} /\ \E k \in Nat \ {0} : d * k = x
  BY ProductBound DEF Software!Divisors

\* What divides two integers divides their difference, and conversely.
LEMMA DifferenceDivisors ==
  ASSUME NEW x \in Nat \ {0}, NEW y \in Nat \ {0}, x > y
  PROVE  Software!CommonDivisors(x - y, y) = Software!CommonDivisors(x, y)
<1>1. ASSUME NEW d \in Nat \ {0}, NEW l \in Nat \ {0}, d * l = y
      PROVE  (\E k \in Nat \ {0} : d * k = x) <=> (\E k \in Nat \ {0} : d * k = x - y)
  <2>1. ASSUME NEW k \in Nat \ {0}, d * k = x
        PROVE  \E j \in Nat \ {0} : d * j = x - y
    <3>1. k > l
      <4> SUFFICES ASSUME l - k \in Nat PROVE FALSE
        BY SMT
      <4>1. d * (l - k) \in Nat /\ d * (l - k) = d * l - d * k
        BY SMT
      <4> QED
        BY <1>1, <2>1, <4>1
    <3>2. k - l \in Nat \ {0}
      BY <3>1
    <3>3. d * (k - l) = d * k - d * l
      BY SMT
    <3>4. d * (k - l) = x - y
      BY <1>1, <2>1, <3>3
    <3> QED
      BY <3>2, <3>4
  <2>2. ASSUME NEW k \in Nat \ {0}, d * k = x - y
        PROVE  \E j \in Nat \ {0} : d * j = x
    <3>1. k + l \in Nat \ {0} /\ d * (k + l) = x
      BY <1>1, <2>2, SMT
    <3> QED
      BY <3>1
  <2> QED
    BY <2>1, <2>2
<1>2. x - y \in Nat \ {0}
  OBVIOUS
<1>3. ASSUME NEW d PROVE d \in Software!CommonDivisors(x - y, y) <=> d \in Software!CommonDivisors(x, y)
  <2>1. d \in Software!Divisors(y) => d \in Nat \ {0} /\ \E l \in Nat \ {0} : d * l = y
    BY DivisorsDef
  <2>2. CASE d \in Software!Divisors(y)
    <3>1. (\E k \in Nat \ {0} : d * k = x) <=> (\E k \in Nat \ {0} : d * k = x - y)
      BY <1>1, <2>1, <2>2
    <3>2. d \in Software!Divisors(x) <=> \E k \in Nat \ {0} : d * k = x
      BY <2>1, <2>2, DivisorsDef
    <3>3. d \in Software!Divisors(x - y) <=> \E k \in Nat \ {0} : d * k = x - y
      BY <1>2, <2>1, <2>2, DivisorsDef
    <3> QED
      BY <3>1, <3>2, <3>3 DEF Software!CommonDivisors
  <2> QED
    BY <2>2 DEF Software!CommonDivisors
<1> QED
  BY <1>3

\* Common divisors do not depend on the order of the two integers.
LEMMA CommonDivisorsCommute ==
  ASSUME NEW x, NEW y
  PROVE  Software!CommonDivisors(x, y) = Software!CommonDivisors(y, x)
  BY DEF Software!CommonDivisors

\* The greatest divisor of an integer is itself.
LEMMA GcdOfEquals ==
  ASSUME NEW x \in Nat \ {0}
  PROVE  Software!IsGcd(x, x, x)
<1>1. x * 1 = x
  OBVIOUS
<1>2. x \in Software!Divisors(x)
  BY <1>1, DivisorsDef
<1> QED
  BY <1>2 DEF Software!IsGcd, Software!CommonDivisors, Software!Divisors

\* The invariant of the loop, c being where it is, x and y its variables and u and v
\* the arguments: with positive arguments, the variables stay positive and keep the
\* common divisors of the arguments.
LoopInvariant(c, x, y, u, v) ==
  /\ c \in {"idle", "loop", "return"}
  /\ x \in Nat /\ y \in Nat /\ u \in Nat /\ v \in Nat
  /\ c = "return" => x = y
  /\ c # "idle" /\ u > 0 /\ v > 0 =>
       x > 0 /\ y > 0 /\ Software!CommonDivisors(x, y) = Software!CommonDivisors(u, v)

\* A turn of the loop preserves it.
LEMMA TurnInvariant ==
  ASSUME NEW x, NEW y, NEW u, NEW v, LoopInvariant("loop", x, y, u, v), x # y
  PROVE  LoopInvariant("loop", IF x > y THEN x - y ELSE x, IF x > y THEN y ELSE y - x, u, v)
<1>1. CASE x > y
  <2>1. ASSUME u > 0, v > 0
        PROVE  Software!CommonDivisors(x - y, y) = Software!CommonDivisors(x, y)
    BY <1>1, <2>1, DifferenceDivisors DEF LoopInvariant
  <2> QED
    BY <1>1, <2>1 DEF LoopInvariant
<1>2. CASE ~ (x > y)
  <2>1. ASSUME u > 0, v > 0
        PROVE  Software!CommonDivisors(x, y - x) = Software!CommonDivisors(x, y)
    <3>1. Software!CommonDivisors(y - x, x) = Software!CommonDivisors(y, x)
      BY <1>2, <2>1, DifferenceDivisors DEF LoopInvariant
    <3> QED
      BY <3>1, CommonDivisorsCommute
  <2> QED
    BY <1>2, <2>1 DEF LoopInvariant
<1> QED
  BY <1>1, <1>2

\* The loop is left with x = y, whose greatest divisor is x.
LEMMA LoopResult ==
  ASSUME NEW x, NEW y, NEW u, NEW v, LoopInvariant("return", x, y, u, v), u > 0, v > 0
  PROVE  Software!IsGcd(x, u, v)
<1>1. x \in Nat \ {0} /\ Software!CommonDivisors(x, x) = Software!CommonDivisors(u, v)
  BY DEF LoopInvariant
<1>2. Software!IsGcd(x, x, x)
  BY <1>1, GcdOfEquals
<1> QED
  BY <1>1, <1>2 DEF Software!IsGcd

\* Where the board is in the loop.
Place == IF pc = "idle" THEN "idle" ELSE IF pc = "ret" THEN "return" ELSE "loop"

\* The invariant of the loop as the board carries it out.
BoardInvariant == LoopInvariant(Place, LoopOf(m, n)[1], LoopOf(m, n)[2], m, n)

\* Every step of the C function preserves it.
LEMMA BoardStep == BoardInvariant /\ [Software!Next]_(Software!vars) => BoardInvariant'
<1> SUFFICES ASSUME BoardInvariant, [Software!Next]_(Software!vars) PROVE BoardInvariant'
  OBVIOUS
<1>1. PICK c, x, y, u, v : c = Place /\ x = LoopOf(m, n)[1] /\ y = LoopOf(m, n)[2] /\ u = m /\ v = n
  OBVIOUS
<1>2. PICK d, r, s, u1, v1 :
        d = Place' /\ r = LoopOf(m, n)[1]' /\ s = LoopOf(m, n)[2]' /\ u1 = m' /\ v1 = n'
  OBVIOUS
<1>3. LoopInvariant(c, x, y, u, v)
  BY <1>1 DEF BoardInvariant
<1>4. SUFFICES LoopInvariant(d, r, s, u1, v1)
  BY <1>2 DEF BoardInvariant, LoopInvariant
<1>5. ASSUME NEW i \in Operands, NEW j \in Operands, Software!Call(i, j) PROVE LoopInvariant(d, r, s, u1, v1)
  <2>1. d = "loop" /\ r = i /\ s = j /\ u1 = i /\ v1 = j
    BY <1>2, <1>5 DEF Software!Call, Place
  <2> QED
    BY <2>1, OperandsAssumption DEF LoopInvariant
<1>6. CASE Software!Subtract
  <2>1. /\ c = "loop" /\ x # y /\ d = c /\ u1 = u /\ v1 = v
        /\ r = IF x > y THEN x - y ELSE x
        /\ s = IF x > y THEN y ELSE y - x
    BY <1>1, <1>2, <1>6 DEF Software!Subtract, Place
  <2> QED
    BY <1>3, <2>1, TurnInvariant
<1>7. CASE Software!Return
  <2>1. c = "loop" /\ x = y /\ d = "return" /\ r = x /\ s = y /\ u1 = u /\ v1 = v
    BY <1>1, <1>2, <1>7 DEF Software!Return, Place
  <2> QED
    BY <1>3, <2>1 DEF LoopInvariant
<1>8. CASE Software!Resume
  <2>1. d = "idle" /\ r = x /\ s = y /\ u1 = u /\ v1 = v
    BY <1>1, <1>2, <1>8 DEF Software!Resume, Place
  <2> QED
    BY <1>3, <2>1 DEF LoopInvariant
<1>9. CASE UNCHANGED Software!vars
  <2>1. d = c /\ r = x /\ s = y /\ u1 = u /\ v1 = v
    BY <1>1, <1>2, <1>9 DEF Software!vars, Place
  <2> QED
    BY <1>3, <2>1
<1> QED
  BY <1>5, <1>6, <1>7, <1>8, <1>9 DEF Software!Next

\* Whatever positive operands a call is given, whatever calls came before and at
\* whatever pace, it returns their greatest common divisor (platform.c:198-232).
THEOREM ReturnsCorrect == Spec => []ReturnsGcd
<1>1. Init => BoardInvariant
  BY DEF Init, BoardInvariant, LoopInvariant, Place, LoopOf
<1>2. BoardInvariant => ReturnsGcd
  <2> SUFFICES ASSUME BoardInvariant, Place = "return", m > 0, n > 0
               PROVE  Software!IsGcd(LoopOf(m, n)[1], m, n)
    BY DEF ReturnsGcd, Software!GcdCorrect, Place
  <2> QED
    BY LoopResult DEF BoardInvariant
<1> QED
  BY <1>1, <1>2, BoardStep, SoftwareStep, HandshakeInvariant, PTL DEF Spec
=============================================================================
