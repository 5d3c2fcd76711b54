------------------------------ MODULE Simulator ------------------------------
(***************************************************************************)
(* The circuit simulator (omicrob/src/byterun/simul: simul.c, shared.c,    *)
(* indep-sf-regs.c), which lets a program run on a PC against simulated    *)
(* components.  The processes:                                             *)
(*   - main runs the OCaml program and its accesses to the registers;      *)
(*   - each component is a command the user gives (external), with a pipe  *)
(*     to its input, on which it learns every change of a register, and a  *)
(*     handler process that executes what it prints;                       *)
(*   - the parent waits for main to end, and then stops the others.        *)
(* Registers and sync_counter are in shared memory.  sem_regs protects the *)
(* registers, sem_outs the pipes to the components, sem_sync the counter,  *)
(* and main waits on sem_done.                                             *)
(*                                                                         *)
(* A step is one semaphore operation, or what a process does between two   *)
(* of them, or one line written or read on a pipe.  The components here    *)
(* are wires: they copy one port to another.  The program sets the         *)
(* directions and the values of the ports that no component drives.        *)
(* Delays (may_sleep), SPDR, SPSR and the analog inputs are left out, and  *)
(* clear_bit and write_register are one operation, W: both test that the   *)
(* port is an output.  set_bit, which does not, is SET.                    *)
(* Ports are numbered as in the code (PORTA 0, PORTB 1, ...).  The code's  *)
(* LOWER_DDR is 11 where DDRA is 12: it looks for the direction of port p  *)
(* in the register of port p - 1.                                          *)
(***************************************************************************)
EXTENDS Integers, Sequences, FiniteSetsExt

CONSTANTS
  NbProc,     \* nb_proc: the number of components
  Wire,       \* component c copies port Wire[c][1] > 0 to port Wire[c][2]
  Values,     \* what a port can hold, among which 0 and 1
  PipeSize,   \* lines a pipe holds
  MaxOps      \* bound: what the program does

Components == 1 .. NbProc
Ports      == UNION {{Wire[c][1], Wire[c][2]} : c \in Components}
Inputs     == {Wire[c][2] : c \in Components}   \* the ports that components drive
Outputs    == Ports \ Inputs
Handler(c) == <<"handler", c>>
Procs      == {<<"main">>, <<"parent">>} \cup {Handler(c) : c \in Components}
main       == <<"main">>
parent     == <<"parent">>

ASSUME WireAssumption ==
  /\ NbProc \in Nat /\ PipeSize \in Nat /\ {0, 1} \subseteq Values
  /\ Wire \in [Components -> (Nat \ {0}) \X Nat]

VARIABLES
  regs, ddr,                               \* the PORT registers; the DDR ones (0: input)
  sync_counter,
  sem_regs, sem_sync, sem_done, sem_outs,
  destroyed,                               \* the semaphores are removed
  signalled,                               \* SIGPIPE was sent to the process group
  pc, op,                                  \* of each process; op is what it executes,
  k,                                       \* and the pipe it writes next
  ins, outs,                               \* the pipes to and from each component
  view, todo, alive,                       \* a component: the ports as it knows them,
                                           \* the line it is about to print
  val,                                     \* what main has read
  ops

shared == <<regs, ddr, sync_counter, sem_regs, sem_sync, sem_done, sem_outs, destroyed, signalled>>
comps  == <<view, todo, alive>>
vars   == <<shared, pc, op, k, ins, outs, comps, val, ops>>

W(p, v)  == [cmnd |-> "W", port |-> p, val |-> v]
SET(p)   == [cmnd |-> "SET", port |-> p, val |-> 1]
SYNC     == [cmnd |-> "SYNC", port |-> 0, val |-> 0]
DONE     == [cmnd |-> "DONE", port |-> 0, val |-> 0]
STOP     == [cmnd |-> "STOP", port |-> 0, val |-> 0]
DDR(p, v) == [cmnd |-> "T", port |-> p, val |-> v]
DdrOf(p) == p - 1
READ(p)  == [cmnd |-> "READ", port |-> p, val |-> 0]
\* read_bit of the register of a PIN; p is reg - LOWER_PIN, where it looks.
BIT(p)   == [cmnd |-> "BIT", port |-> p, val |-> 0]

\* init_simulator, up to the fork of the handlers: main holds sem_outs.
Init ==
  /\ regs = [p \in Ports |-> 0]
  /\ ddr = [p \in Ports \cup {DdrOf(q) : q \in Ports} |-> 0]
  /\ sync_counter = 0
  /\ sem_regs = 1 /\ sem_sync = 1 /\ sem_done = 0 /\ sem_outs = 0
  /\ destroyed = FALSE /\ signalled = FALSE
  /\ pc = [p \in Procs |-> IF p = main THEN "fork" ELSE IF p = parent THEN "wait" ELSE "unborn"]
  /\ op = [p \in Procs |-> DONE] /\ k = [p \in Procs |-> 1]
  /\ ins = [c \in Components |-> <<>>] /\ outs = [c \in Components |-> <<>>]
  /\ view = [c \in Components |-> [p \in Ports |-> 0]]
  /\ todo = [c \in Components |-> <<>>] /\ alive = [c \in Components |-> FALSE]
  /\ val = 0 /\ ops = 0

Goto(p, at) == pc' = [pc EXCEPT ![p] = at]
\* Where the locals of p are dead they are forgotten.
Finish(p) == Goto(p, "idle") /\ op' = [op EXCEPT ![p] = DONE]
Exit(p) ==
  Goto(p, "exit") /\ op' = [op EXCEPT ![p] = DONE] /\ k' = [k EXCEPT ![p] = 1]

\* P and V.  On a semaphore that was removed semop fails, and the process exits.
P(sem)     == ~ destroyed /\ sem > 0 /\ sem' = sem - 1
V(sem)     == ~ destroyed /\ sem' = sem + 1
AtSemaphore(p) ==
  \/ pc[p] \in {"regs", "sync", "count", "outs", "free_regs", "await", "read_regs", "read"}
  \/ pc[p] = "send" /\ k[p] > NbProc

SemopFails(p) ==
  /\ destroyed /\ AtSemaphore(p)
  /\ Exit(p)
  /\ UNCHANGED <<shared, ins, outs, comps, val, ops>>

-----------------------------------------------------------------------------
(* Start.                                                                  *)

\* main forks the handler of component k, which starts the component; after the
\* last one, the pipes are free.
Fork ==
  /\ pc[main] = "fork" /\ k[main] <= NbProc
  /\ k' = [k EXCEPT ![main] = @ + 1]
  /\ Goto(Handler(k[main]), "idle")
  /\ alive' = [alive EXCEPT ![k[main]] = TRUE]
  /\ UNCHANGED <<shared, op, ins, outs, view, todo, val, ops>>

Started ==
  /\ pc[main] = "fork" /\ k[main] > NbProc
  /\ V(sem_outs) /\ k' = [k EXCEPT ![main] = 1]
  /\ Goto(main, "idle")
  /\ UNCHANGED <<regs, ddr, sync_counter, sem_regs, sem_sync, sem_done, destroyed, signalled,
                 op, ins, outs, comps, val, ops>>

-----------------------------------------------------------------------------
(* main: the program accesses a register, or ends.                         *)

\* read_register of a port synchronizes first; read_bit of a PIN does not.
Access(o) ==
  /\ pc[main] = "idle" /\ ops < MaxOps
  /\ op' = [op EXCEPT ![main] = o]
  /\ Goto(main, IF o.cmnd = "READ" THEN "sync"
                ELSE IF o.cmnd = "BIT" THEN "read_regs" ELSE "regs")
  /\ ops' = ops + 1
  /\ UNCHANGED <<shared, k, ins, outs, comps, val>>

ProgramEnds ==
  /\ pc[main] = "idle"
  /\ Goto(main, "exit")
  /\ UNCHANGED <<shared, op, k, ins, outs, comps, val, ops>>

\* synchronize: P(sem_sync); a handler does the same for DONE.
LockSync(p) ==
  /\ pc[p] = "sync"
  /\ P(sem_sync)
  /\ Goto(p, "count")
  /\ UNCHANGED <<regs, ddr, sync_counter, sem_regs, sem_done, sem_outs, destroyed, signalled,
                 op, k, ins, outs, comps, val, ops>>

\* Mutant: one DONE is enough.
SetCounterOne ==
  /\ pc[main] = "count"
  /\ sync_counter' = 1
  /\ V(sem_sync)
  /\ Goto(main, "outs")
  /\ UNCHANGED <<regs, ddr, sem_regs, sem_done, sem_outs, destroyed, signalled,
                 op, k, ins, outs, comps, val, ops>>

SetCounter ==
  /\ pc[main] = "count"
  /\ sync_counter' = NbProc
  /\ V(sem_sync)
  /\ Goto(main, "outs")
  /\ UNCHANGED <<regs, ddr, sem_regs, sem_done, sem_outs, destroyed, signalled,
                 op, k, ins, outs, comps, val, ops>>

\* P(sem_done), once SYNC is sent.
Await ==
  /\ pc[main] = "await"
  /\ P(sem_done)
  /\ Goto(main, "read_regs")
  /\ UNCHANGED <<regs, ddr, sync_counter, sem_regs, sem_sync, sem_outs, destroyed, signalled,
                 op, k, ins, outs, comps, val, ops>>

\* The read, between P(sem_regs) and V(sem_regs).
ReadRegs ==
  /\ pc[main] = "read_regs"
  /\ P(sem_regs)
  /\ Goto(main, "read")
  /\ val' = regs[op[main].port]
  /\ UNCHANGED <<regs, ddr, sync_counter, sem_sync, sem_done, sem_outs, destroyed, signalled,
                 op, k, ins, outs, comps, ops>>

ReadDone ==
  /\ pc[main] = "read"
  /\ V(sem_regs)
  /\ Finish(main) /\ val' = 0
  /\ UNCHANGED <<regs, ddr, sync_counter, sem_sync, sem_done, sem_outs, destroyed, signalled,
                 k, ins, outs, comps, ops>>

-----------------------------------------------------------------------------
(* A change of a register, by main or by a handler.                        *)

\* The program cannot write to an input, but set_bit can; a component is only
\* warned.  A value that is there already is not sent.
Changes(p) ==
  LET o == op[p] IN
  IF o.cmnd = "T" THEN ddr[o.port] # o.val
  ELSE regs[o.port] # o.val /\ (p = main /\ o.cmnd = "W" => ddr[DdrOf(o.port)] # 0)

\* Mutant: the registers are free again before the components are told.
UpdateUnlocked(p) ==
  /\ pc[p] = "regs"
  /\ ~ destroyed /\ sem_regs > 0 /\ UNCHANGED sem_regs
  /\ LET o == op[p] IN
     /\ regs' = IF Changes(p) /\ o.cmnd # "T" THEN [regs EXCEPT ![o.port] = o.val] ELSE regs
     /\ ddr'  = IF Changes(p) /\ o.cmnd = "T" THEN [ddr EXCEPT ![o.port] = o.val] ELSE ddr
  /\ Goto(p, IF Changes(p) THEN "outs" ELSE "idle")
  /\ UNCHANGED <<sync_counter, sem_sync, sem_done, sem_outs, destroyed, signalled,
                 op, k, ins, outs, comps, val, ops>>

Update(p) ==
  /\ pc[p] = "regs"
  /\ P(sem_regs)
  /\ LET o == op[p] IN
     /\ regs' = IF Changes(p) /\ o.cmnd # "T" THEN [regs EXCEPT ![o.port] = o.val] ELSE regs
     /\ ddr'  = IF Changes(p) /\ o.cmnd = "T" THEN [ddr EXCEPT ![o.port] = o.val] ELSE ddr
  /\ Goto(p, IF Changes(p) THEN "outs" ELSE "free_regs")
  /\ UNCHANGED <<sync_counter, sem_sync, sem_done, sem_outs, destroyed, signalled,
                 op, k, ins, outs, comps, val, ops>>

FreeRegs(p) ==
  /\ pc[p] = "free_regs"
  /\ V(sem_regs)
  /\ Finish(p)
  /\ UNCHANGED <<regs, ddr, sync_counter, sem_sync, sem_done, sem_outs, destroyed, signalled,
                 k, ins, outs, comps, val, ops>>

-----------------------------------------------------------------------------
(* send_all_proc: the line goes to every component, its author included.   *)

LockOuts(p) ==
  /\ pc[p] = "outs"
  /\ P(sem_outs)
  /\ Goto(p, "send")
  /\ UNCHANGED <<regs, ddr, sync_counter, sem_regs, sem_sync, sem_done, destroyed, signalled,
                 op, k, ins, outs, comps, val, ops>>

Line(o) ==
  IF o.cmnd = "READ" THEN SYNC ELSE IF o.cmnd = "SET" THEN W(o.port, o.val) ELSE o

\* write blocks on a full pipe.  Every process keeps the pipe open for reading, so
\* it does not fail when the component is gone.
Send(p) ==
  /\ pc[p] = "send" /\ k[p] <= NbProc
  /\ Len(ins[k[p]]) < PipeSize
  /\ ins' = [ins EXCEPT ![k[p]] = Append(@, Line(op[p]))]
  /\ k' = [k EXCEPT ![p] = @ + 1]
  /\ UNCHANGED <<shared, pc, op, outs, comps, val, ops>>

FreeOuts(p) ==
  /\ pc[p] = "send" /\ k[p] > NbProc
  /\ V(sem_outs) /\ k' = [k EXCEPT ![p] = 1]
  /\ Goto(p, IF p = parent THEN "destroy" ELSE IF op[p].cmnd = "READ" THEN "await" ELSE "free_regs")
  /\ UNCHANGED <<regs, ddr, sync_counter, sem_regs, sem_sync, sem_done, destroyed, signalled,
                 op, ins, outs, comps, val, ops>>

-----------------------------------------------------------------------------
(* A handler: instr_loop and exec_instr.                                   *)

ReadLine(c) ==
  /\ pc[Handler(c)] = "idle" /\ outs[c] # <<>>
  /\ op' = [op EXCEPT ![Handler(c)] = Head(outs[c])]
  /\ outs' = [outs EXCEPT ![c] = Tail(@)]
  /\ Goto(Handler(c), IF Head(outs[c]).cmnd = "DONE" THEN "sync" ELSE "regs")
  /\ UNCHANGED <<shared, k, ins, comps, val, ops>>

\* Mutant: the last DONE does not wake main.
CountDownSilently(c) ==
  /\ pc[Handler(c)] = "count"
  /\ ~ destroyed
  /\ sync_counter' = sync_counter - 1
  /\ sem_done' = IF sync_counter = 0 THEN sem_done + 1 ELSE sem_done
  /\ sem_sync' = sem_sync + 1
  /\ Goto(Handler(c), "idle")
  /\ UNCHANGED <<regs, ddr, sem_regs, sem_outs, destroyed, signalled,
                 op, k, ins, outs, comps, val, ops>>

\* Mutant: every DONE wakes main.
CountDownAlways(c) ==
  /\ pc[Handler(c)] = "count"
  /\ ~ destroyed
  /\ sync_counter' = sync_counter - 1
  /\ sem_done' = sem_done + 1
  /\ sem_sync' = sem_sync + 1
  /\ Goto(Handler(c), "idle")
  /\ UNCHANGED <<regs, ddr, sem_regs, sem_outs, destroyed, signalled,
                 op, k, ins, outs, comps, val, ops>>

CountDown(c) ==
  /\ pc[Handler(c)] = "count"
  /\ ~ destroyed
  /\ sync_counter' = sync_counter - 1
  /\ sem_done' = IF sync_counter' = 0 THEN sem_done + 1 ELSE sem_done
  /\ sem_sync' = sem_sync + 1
  /\ Goto(Handler(c), "idle")
  /\ UNCHANGED <<regs, ddr, sem_regs, sem_outs, destroyed, signalled,
                 op, k, ins, outs, comps, val, ops>>

\* The component is gone.  parent_pid is 0 in a handler, so the signal goes to the
\* whole process group.
EndOfFile(c) ==
  /\ pc[Handler(c)] = "idle" /\ outs[c] = <<>> /\ ~ alive[c]
  /\ signalled' = TRUE
  /\ Goto(Handler(c), "exit")
  /\ UNCHANGED <<regs, ddr, sync_counter, sem_regs, sem_sync, sem_done, sem_outs, destroyed,
                 op, k, ins, outs, comps, val, ops>>

\* signal_handler: the process exits, wherever it is.
Killed(c) ==
  /\ signalled /\ pc[Handler(c)] # "exit"
  /\ Exit(Handler(c))
  /\ UNCHANGED <<shared, ins, outs, comps, val, ops>>

-----------------------------------------------------------------------------
(* A component (external).                                                 *)

Take(c) ==
  /\ alive[c] /\ todo[c] = <<>> /\ ins[c] # <<>>
  /\ LET line == Head(ins[c]) IN
     /\ view' = IF line.cmnd = "W" THEN [view EXCEPT ![c][line.port] = line.val] ELSE view
     /\ todo' = [todo EXCEPT ![c] =
                   IF line.cmnd = "SYNC" THEN <<DONE>>
                   ELSE IF line.cmnd = "W" /\ line.port = Wire[c][1] THEN <<W(Wire[c][2], line.val)>>
                   ELSE <<>>]
     /\ alive' = [alive EXCEPT ![c] = line.cmnd # "STOP"]
  /\ ins' = [ins EXCEPT ![c] = Tail(@)]
  /\ UNCHANGED <<shared, pc, op, k, outs, val, ops>>

\* It prints a line; or it is killed by it when its handler has exited.
Put(c) ==
  /\ alive[c] /\ todo[c] # <<>>
  /\ \/ /\ pc[Handler(c)] # "exit" /\ Len(outs[c]) < PipeSize
        /\ outs' = [outs EXCEPT ![c] = @ \o todo[c]]
        /\ UNCHANGED alive
     \/ /\ pc[Handler(c)] = "exit"
        /\ alive' = [alive EXCEPT ![c] = FALSE]
        /\ UNCHANGED outs
  /\ todo' = [todo EXCEPT ![c] = <<>>]
  /\ UNCHANGED <<shared, pc, op, k, ins, view, val, ops>>

-----------------------------------------------------------------------------
(* The parent: init_simulator after wait, and destroy.                     *)

\* Mutant: the components are not told.
WaitSilently ==
  /\ pc[parent] = "wait" /\ pc[main] = "exit"
  /\ V(sem_outs)
  /\ op' = [op EXCEPT ![parent] = STOP]
  /\ Goto(parent, "destroy")
  /\ UNCHANGED <<regs, ddr, sync_counter, sem_regs, sem_sync, sem_done, destroyed, signalled,
                 k, ins, outs, comps, val, ops>>

\* V(sem_outs), in case main ended with it, and then STOP to all.
Wait ==
  /\ pc[parent] = "wait" /\ pc[main] = "exit"
  /\ V(sem_outs)
  /\ op' = [op EXCEPT ![parent] = STOP]
  /\ Goto(parent, "outs")
  /\ UNCHANGED <<regs, ddr, sync_counter, sem_regs, sem_sync, sem_done, destroyed, signalled,
                 k, ins, outs, comps, val, ops>>

Destroy ==
  /\ pc[parent] = "destroy"
  /\ destroyed' = TRUE
  /\ Goto(parent, "exit")
  /\ UNCHANGED <<regs, ddr, sync_counter, sem_regs, sem_sync, sem_done, sem_outs, signalled,
                 op, k, ins, outs, comps, val, ops>>

Over == (\A p \in Procs : pc[p] = "exit") /\ (\A c \in Components : ~ alive[c])

MainStep ==
  \/ Fork \/ Started \/ SetCounter \/ Await \/ ReadRegs \/ ReadDone
ProcStep(p) ==
  \/ LockSync(p) \/ Update(p) \/ FreeRegs(p)
  \/ LockOuts(p) \/ Send(p) \/ FreeOuts(p) \/ SemopFails(p)
HandlerStep(c) == ReadLine(c) \/ CountDown(c) \/ EndOfFile(c) \/ Killed(c)
ComponentStep(c) == Take(c) \/ Put(c)

Operations ==
  {W(p, v) : p \in Outputs, v \in Values}
    \cup {DDR(DdrOf(p), 1) : p \in Outputs}
    \cup {SET(p) : p \in Outputs}
    \cup {READ(p) : p \in Ports} \cup {BIT(p) : p \in Inputs}

Next ==
  \/ MainStep \/ \E o \in Operations : Access(o)
  \/ ProgramEnds
  \/ \E p \in Procs : ProcStep(p)
  \/ \E c \in Components : HandlerStep(c) \/ ComponentStep(c)
  \/ Wait \/ Destroy

\* Every process runs.  (The program does a bounded number of accesses, so weak
\* fairness is enough: nobody can take a semaphore again and again.)
Fairness ==
  /\ WF_vars(MainStep) /\ WF_vars(Wait \/ Destroy)
  /\ \A p \in Procs : WF_vars(ProcStep(p))
  /\ \A c \in Components : WF_vars(HandlerStep(c)) /\ WF_vars(ComponentStep(c))

Spec == Init /\ [][Next]_vars /\ Fairness

-----------------------------------------------------------------------------
TypeOK ==
  /\ regs \in [Ports -> Values] /\ ddr \in [DOMAIN ddr -> {0, 1}]
  /\ {sem_regs, sem_sync, sem_done} \subseteq {0, 1}
  /\ sem_outs \in 0 .. 2
  /\ sync_counter \in 0 .. NbProc
  /\ \A c \in Components : Len(ins[c]) <= PipeSize /\ Len(outs[c]) <= PipeSize

\* What a component will know of port p when it has read all its lines.
Writes(p, lines) == {i \in DOMAIN lines : lines[i].cmnd = "W" /\ lines[i].port = p}
Known(v, p, lines) == IF Writes(p, lines) = {} THEN v ELSE lines[Max(Writes(p, lines))].val

\* Main and the handlers write ports and send what they wrote in any order between
\* them, but every component ends up with the ports as they are: the lines arrive in
\* the order of the writes (indep-sf-regs.c:219-257, 398-463).
ComponentsAgree ==
  (sem_regs > 0 /\ ~ signalled /\ ~ destroyed) =>
    \A c \in Components, p \in Ports : alive[c] => Known(view[c][p], p, ins[c]) = regs[p]

\* What main reads of a port that a component drives is the reaction to what main
\* wrote before: all components have answered SYNC, so all they said before that is
\* executed (synchronize, indep-sf-regs.c:205-212, and exec_instr, 487-495).
Drivers(p)    == {c \in Components : Wire[c][2] = p}
ReadSeesReaction ==
  pc[main] = "read" /\ op[main].cmnd = "READ" =>
    \A c \in Drivers(op[main].port) :
      Wire[c][1] \in Outputs => val = regs[Wire[c][1]]

\* The program never waits for ever for a register.
AccessReturns == pc[main] \notin {"idle", "exit"} ~> pc[main] = "idle"

\* When the program has ended, every process and every component ends.
EverythingStops == pc[main] = "exit" ~> Over
=============================================================================
