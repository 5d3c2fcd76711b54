-------------------------------- MODULE Gcd --------------------------------
(***************************************************************************)
(* The extops board (platforms/altera/extops): a processor that computes   *)
(* greatest common divisors with a custom instruction (custom-gcd.vhd) and *)
(* with a component on its Avalon bus: the core gcd.vhd inside the wrapper *)
(* gcd_cc.vhd, driven by nios_gcd_cc (c/platform.c).                       *)
(*                                                                         *)
(* A step is a rising edge of the clock.  All processes take theirs on the *)
(* same edge, from the signals as they were before it: this is what makes  *)
(* rdy fall one edge later than start rises.  The processor puts at most   *)
(* one access on the bus per cycle, and leaves it idle for at least MinGap *)
(* cycles between two accesses, for as long as it likes (it fetches and    *)
(* decodes instructions there; the board's is a Nios II/e, not pipelined). *)
(* A write takes one cycle, a read two (readWaitTime 1 in GCD_CC_hw.tcl):  *)
(* the processor latches readdata on the second edge.                      *)
(***************************************************************************)
EXTENDS Integers

CONSTANTS
  Operands,  \* what programs call the functions with
  MinGap     \* cycles the bus is idle between two accesses, at least

ASSUME OperandsAssumption == Operands \subseteq Nat
ASSUME MinGapAssumption   == MinGap \in Nat \ {0}

VARIABLES
  etat, a, b, rdy, result,                    \* gcd.vhd
  write_state, start, arg1, arg2, readdata,   \* gcd_cc.vhd
  ci_etat, ci_a, ci_b, done, ci_result,       \* custom-gcd.vhd
  pc,                                         \* the processor: where it is in platform.c
  m, n,                                       \* parameters of the function it is in
  ret,                                        \* what the last call returned
  cycle,                                      \* 2 in the second cycle of a read
  quiet                                       \* cycles since its last access, up to MinGap

core    == <<etat, a, b, rdy, result>>
wrapper == <<write_state, start, arg1, arg2>>
ci      == <<ci_etat, ci_a, ci_b, done, ci_result>>
vars    == <<core, wrapper, readdata, ci, pc, m, n, ret, cycle, quiet>>

\* After the reset that follows configuration; the signals no process resets are 0.
Init ==
  /\ etat = "Repos" /\ a = 0 /\ b = 0 /\ rdy = 1 /\ result = 0
  /\ write_state = "Idle" /\ start = 0 /\ arg1 = 0 /\ arg2 = 0 /\ readdata = 0
  /\ ci_etat = "Repos" /\ ci_a = 0 /\ ci_b = 0 /\ done = 0 /\ ci_result = 0
  /\ pc = "idle" /\ m = 0 /\ n = 0 /\ ret = 0 /\ cycle = 1 /\ quiet = MinGap

-----------------------------------------------------------------------------
(* The signals in this cycle; bus = "access" if the processor begins one.   *)

GCD_CC_CTL    == 0
GCD_CC_ARG1   == 1
GCD_CC_ARG2   == 2
GCD_CC_RESULT == 3

Writes == {"arg1", "arg2", "start"}
Reads  == {"ctl", "poll", "result"}

avs_write(bus) == bus = "access" /\ pc \in Writes
avs_read(bus)  == cycle = 2 \/ (bus = "access" /\ pc \in Reads)

avs_address ==
  IF pc = "arg1" THEN GCD_CC_ARG1
  ELSE IF pc = "arg2" THEN GCD_CC_ARG2
  ELSE IF pc = "result" THEN GCD_CC_RESULT
  ELSE GCD_CC_CTL

avs_writedata == IF pc = "arg1" THEN m ELSE n

ci_start(bus) == bus = "access" /\ pc = "ci"

-----------------------------------------------------------------------------
(* gcd.vhd *)

\* Mutants: rdy is left as it was; the operands are subtracted in one order only;
\* rdy is not set again.
LoadStillReady ==
  /\ etat = "Repos" /\ start = 1
  /\ a' = arg1 /\ b' = arg2
  /\ etat' = "Calcul"
  /\ UNCHANGED <<result, rdy>>

SubtractBFromA ==
  /\ etat = "Calcul" /\ a # b
  /\ a' = a - b
  /\ UNCHANGED <<b, etat, rdy, result>>

FinishSilently ==
  /\ etat = "Calcul" /\ a = b
  /\ result' = a /\ etat' = "Repos"
  /\ UNCHANGED <<a, b, rdy>>

\* Repos, and start is asserted.
Load ==
  /\ etat = "Repos" /\ start = 1
  /\ a' = arg1 /\ b' = arg2
  /\ etat' = "Calcul" /\ rdy' = 0
  /\ UNCHANGED result

\* Calcul, with a = b.
Finish ==
  /\ etat = "Calcul" /\ a = b
  /\ result' = a
  /\ rdy' = 1 /\ etat' = "Repos"
  /\ UNCHANGED <<a, b>>

\* Calcul: the smaller is subtracted from the greater.
Subtract ==
  /\ etat = "Calcul" /\ a # b
  /\ a' = IF a > b THEN a - b ELSE a
  /\ b' = IF a > b THEN b ELSE b - a
  /\ UNCHANGED <<etat, rdy, result>>

Rest == etat = "Repos" /\ start = 0 /\ UNCHANGED core

Core == Rest \/ Load \/ Subtract \/ Finish

(* gcd_cc.vhd *)

\* Process WRITE.  A write that arrives while start is asserted is lost.
WriteProcess(bus) ==
  \/ /\ write_state = "StartAsserted"
     /\ start' = 0 /\ write_state' = "Idle"
     /\ UNCHANGED <<arg1, arg2>>
  \/ /\ write_state = "Idle" /\ ~ avs_write(bus)
     /\ UNCHANGED wrapper
  \/ /\ write_state = "Idle" /\ avs_write(bus) /\ avs_address = GCD_CC_CTL
     /\ start' = 1 /\ write_state' = "StartAsserted"
     /\ UNCHANGED <<arg1, arg2>>
  \/ /\ write_state = "Idle" /\ avs_write(bus) /\ avs_address # GCD_CC_CTL
     /\ arg1' = IF avs_address = GCD_CC_ARG1 THEN avs_writedata ELSE arg1
     /\ arg2' = IF avs_address = GCD_CC_ARG2 THEN avs_writedata ELSE arg2
     /\ UNCHANGED <<start, write_state>>

\* Process READ.
ReadProcess(bus) ==
  readdata' = IF ~ avs_read(bus) THEN readdata
              ELSE IF avs_address = GCD_CC_CTL THEN rdy ELSE result

(* custom-gcd.vhd *)

Instruction(bus) ==
  \/ /\ ci_etat = "Repos" /\ ~ ci_start(bus)
     /\ UNCHANGED ci
  \/ /\ ci_etat = "Repos" /\ ci_start(bus)
     /\ ci_a' = m /\ ci_b' = n
     /\ ci_etat' = "Calcul" /\ done' = 0
     /\ UNCHANGED ci_result
  \/ /\ ci_etat = "Calcul" /\ ci_a = ci_b
     /\ ci_result' = ci_a
     /\ done' = 1 /\ ci_etat' = "Fin"
     /\ UNCHANGED <<ci_a, ci_b>>
  \/ /\ ci_etat = "Calcul" /\ ci_a # ci_b
     /\ ci_a' = IF ci_a > ci_b THEN ci_a - ci_b ELSE ci_a
     /\ ci_b' = IF ci_a > ci_b THEN ci_b ELSE ci_b - ci_a
     /\ UNCHANGED <<ci_etat, done, ci_result>>
  \/ /\ ci_etat = "Fin"
     /\ done' = 0 /\ ci_etat' = "Repos"
     /\ UNCHANGED <<ci_a, ci_b, ci_result>>

Hardware(bus) ==
  Core /\ WriteProcess(bus) /\ ReadProcess(bus) /\ Instruction(bus)

-----------------------------------------------------------------------------
(* The processor.                                                          *)

\* The bus has been idle for long enough.
CanAccess == quiet = MinGap /\ cycle = 1

\* The program calls nios_gcd_cc ("ctl" is its first access) or nios_gcd_ci.
Call(f, x, y) ==
  /\ pc = "idle"
  /\ pc' = f /\ m' = x /\ n' = y
  /\ quiet' = IF quiet < MinGap THEN quiet + 1 ELSE quiet
  /\ UNCHANGED <<ret, cycle>>
  /\ Hardware("idle")

\* An edge on which the processor neither begins nor ends an access.
Think ==
  /\ cycle = 1 /\ ~ (pc = "ci_wait" /\ done = 1)
  /\ quiet' = IF quiet < MinGap THEN quiet + 1 ELSE quiet
  /\ UNCHANGED <<pc, m, n, ret, cycle>>
  /\ Hardware("idle")

\* IOWR
Write ==
  /\ CanAccess /\ pc \in Writes
  /\ \/ pc = "arg1" /\ pc' = "arg2"
     \/ pc = "arg2" /\ pc' = "start"
     \/ pc = "start" /\ pc' = "poll"
  /\ quiet' = 0
  /\ UNCHANGED <<m, n, ret, cycle>>
  /\ Hardware("access")

\* IORD, first cycle.
Read ==
  /\ CanAccess /\ pc \in Reads
  /\ cycle' = 2
  /\ UNCHANGED <<pc, m, n, ret, quiet>>
  /\ Hardware("access")

\* IORD, second cycle: the processor takes what the first one has put in readdata.
Latch(at, next) ==
  /\ cycle = 2 /\ pc = at
  /\ cycle' = 1 /\ quiet' = 0
  /\ pc' = next
  /\ UNCHANGED <<m, n>>
  /\ Hardware("idle")

\* It gives up if the component is not ready (platform.c:221),
GetCtl ==
  /\ Latch("ctl", IF readdata = 0 THEN "ret" ELSE "arg1")
  /\ ret' = IF readdata = 0 THEN 0 ELSE ret

\* polls until it is,
PollAgain == readdata = 0 /\ Latch("poll", "poll") /\ UNCHANGED ret
Ready     == readdata # 0 /\ Latch("poll", "result") /\ UNCHANGED ret

\* and takes the result.
GetResult == Latch("result", "ret") /\ ret' = readdata

\* ALT_CI_GCD: the instruction issues, and stalls the processor until done.
Issue ==
  /\ CanAccess /\ pc = "ci"
  /\ pc' = "ci_wait" /\ quiet' = 0
  /\ UNCHANGED <<m, n, ret, cycle>>
  /\ Hardware("access")

Complete ==
  /\ pc = "ci_wait" /\ done = 1
  /\ pc' = "ret" /\ ret' = ci_result
  /\ quiet' = 0
  /\ UNCHANGED <<m, n, cycle>>
  /\ Hardware("idle")

\* The call returns.
Return ==
  /\ pc = "ret"
  /\ pc' = "idle"
  /\ quiet' = IF quiet < MinGap THEN quiet + 1 ELSE quiet
  /\ UNCHANGED <<m, n, ret, cycle>>
  /\ Hardware("idle")

Next ==
  \/ \E f \in {"ctl", "ci"}, x, y \in Operands : Call(f, x, y)
  \/ Think \/ Write \/ Read
  \/ GetCtl \/ PollAgain \/ Ready \/ GetResult
  \/ Issue \/ Complete \/ Return

\* The clock does not stop, and the processor gets on with its program.
Fairness ==
  /\ WF_vars(Think)
  /\ WF_vars(Write) /\ WF_vars(Read)
  /\ WF_vars(GetCtl \/ PollAgain \/ Ready \/ GetResult)
  /\ WF_vars(Issue) /\ WF_vars(Complete) /\ WF_vars(Return)

Spec == Init /\ [][Next]_vars /\ Fairness

-----------------------------------------------------------------------------
(* What the board promises.                                                *)

TypeOK ==
  /\ etat \in {"Repos", "Calcul"}
  /\ write_state \in {"Idle", "StartAsserted"}
  /\ ci_etat \in {"Repos", "Calcul", "Fin"}
  /\ {rdy, start, done} \subseteq {0, 1}
  /\ {a, b, result, arg1, arg2, readdata, ci_a, ci_b, ci_result} \subseteq Nat
  /\ {m, n, ret} \subseteq Nat
  /\ pc \in Writes \cup Reads \cup {"idle", "ci", "ci_wait", "ret"}
  /\ cycle \in {1, 2} /\ (cycle = 2 => pc \in Reads)
  /\ quiet \in 0 .. MinGap

\* Inside nios_gcd_cc, after the write that starts the component.
Started == pc \in {"poll", "result"}

\* Where the loop of nios_gcd is, seen in the hardware: in the parameters until
\* they are loaded, then in a and b, then in the result.
LoopOf(x, y) ==
  IF pc \in {"idle", "ret"} THEN <<ret, ret>>
  ELSE IF Started /\ etat = "Calcul" THEN <<a, b>>
  ELSE IF Started /\ start = 0 THEN <<result, result>>
  ELSE IF pc = "ci_wait" /\ ci_etat = "Calcul" THEN <<ci_a, ci_b>>
  ELSE IF pc = "ci_wait" THEN <<ci_result, ci_result>>
  ELSE <<x, y>>

Software == INSTANCE NiosGcd WITH
  ctl  <- IF pc = "idle" THEN "idle" ELSE IF pc = "ret" THEN "return" ELSE "loop",
  m    <- LoopOf(m, n)[1],
  n    <- LoopOf(m, n)[2],
  args <- <<m, n>>

\* The hardware implements the C function: every edge of the clock is a step of
\* nios_gcd or none, for both versions, one call after the other.  A poll that
\* reads the rdy of the previous call, or a result read too early, would end the
\* call with a value the loop has not reached (platform.c:207-232).
ImplementsSoftware == Software!Init /\ [][Software!Next]_(Software!vars)

\* What a call returns is the greatest common divisor of its arguments, whatever
\* calls came before (gcd.vhd, gcd_cc.vhd, custom-gcd.vhd).
ReturnsGcd == Software!GcdCorrect

\* Every call on positive arguments returns (the loop of platform.c:228 and the
\* stall of the custom instruction end).
CallReturns == (pc \notin {"idle", "ret"} /\ m > 0 /\ n > 0) ~> pc = "ret"
=============================================================================
