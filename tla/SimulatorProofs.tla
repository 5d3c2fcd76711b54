-------------------------- MODULE SimulatorProofs --------------------------
(***************************************************************************)
(* The safety of Simulator, for every number of components and any wiring. *)
(* The inductive invariant is built in layers, each proved with those      *)
(* before it:                                                              *)
(*   - Types: what every process may be doing, and with which line;        *)
(*   - Locks: who is between P and V of a semaphore;                       *)
(*   - Life: nothing dies before main has ended;                           *)
(*   - Agree: the lines on the way to a component make up for what it does *)
(*     not know yet;                                                       *)
(*   - Tokens: the SYNC and DONE on their way, which sync_counter counts;  *)
(*   - Clean, Follows: what a component has printed, and what is on its    *)
(*     way to it, make up for what its output port does not show yet.      *)
(***************************************************************************)
EXTENDS Simulator, SequenceTheorems, FiniteSetTheorems, WellFoundedInduction, TLAPS

-----------------------------------------------------------------------------
(* Types.                                                                  *)

InLine ==
  {l \in [cmnd : {"W", "T", "SYNC", "STOP"}, port : Int, val : Values] :
     l.cmnd = "W" => l.port \in Ports}
OutLine(c) == {W(Wire[c][2], v) : v \in Values} \cup {DONE}
DdrPorts   == Ports \cup {DdrOf(q) : q \in Ports}
MainOps    ==
  {o \in [cmnd : {"W", "T", "SET", "READ", "BIT", "DONE"}, port : Int, val : Values] :
     /\ o.cmnd \in {"W", "SET"} => o.port \in Outputs
     /\ o.cmnd \in {"READ", "BIT"} => o.port \in Ports
     /\ o.cmnd = "T" => o.port \in DdrPorts /\ o.val = 1}

MainAt ==
  /\ pc[main] \in {"fork", "idle", "sync", "count", "outs", "send", "await",
                   "read_regs", "read", "regs", "free_regs", "exit"}
  /\ op[main] \in MainOps
  /\ pc[main] \in {"sync", "count", "await"} => op[main].cmnd = "READ"
  /\ pc[main] \in {"read_regs", "read"} => op[main].cmnd \in {"READ", "BIT"}
  /\ pc[main] \in {"regs", "free_regs"} => op[main].cmnd \in {"W", "T", "SET"}
  /\ pc[main] \in {"outs", "send"} => op[main].cmnd \in {"W", "T", "SET", "READ"}

ParentAt ==
  /\ pc[parent] \in {"wait", "outs", "send", "destroy", "exit"}
  /\ op[parent] \in {DONE, STOP}
  /\ pc[parent] \in {"outs", "send"} => op[parent] = STOP

HandlerAt(c) ==
  LET h == Handler(c) IN
  /\ pc[h] \in {"unborn", "idle", "regs", "outs", "send", "free_regs", "sync", "count", "exit"}
  /\ op[h] \in OutLine(c)
  /\ pc[h] \in {"regs", "outs", "send", "free_regs"} => op[h].cmnd = "W"

DataTypes ==
  /\ regs \in [Ports -> Values]
  /\ ddr \in [DdrPorts -> {0, 1}]
  /\ sync_counter \in Int
  /\ sem_regs \in Int /\ sem_sync \in Int /\ sem_done \in Int /\ sem_outs \in Int
  /\ destroyed \in BOOLEAN /\ signalled \in BOOLEAN
ControlTypes ==
  /\ DOMAIN pc = Procs /\ DOMAIN op = Procs
  /\ k \in [Procs -> Nat \ {0}]
  /\ \A p \in Procs : pc[p] \notin {"send", "fork"} => k[p] = 1
  /\ pc[main] = "fork" =>
       \A c \in Components : c >= k[main] => pc[Handler(c)] \in {"unborn", "exit"}
  /\ MainAt /\ ParentAt /\ \A c \in Components : HandlerAt(c)
PipeTypes ==
  /\ ins \in [Components -> Seq(InLine)]
  /\ \A c \in Components : Len(ins[c]) <= PipeSize
  /\ DOMAIN outs = Components /\ DOMAIN todo = Components
  /\ \A c \in Components :
       /\ outs[c] \in Seq(OutLine(c)) /\ Len(outs[c]) <= PipeSize
       /\ todo[c] = <<>> \/ \E l \in OutLine(c) : todo[c] = <<l>>
  /\ alive \in [Components -> BOOLEAN]
  /\ view \in [Components -> [Ports -> Values]]
Types == DataTypes /\ ControlTypes /\ PipeTypes

-----------------------------------------------------------------------------
(* Locks.                                                                  *)

HoldsRegs(p) ==
  \/ pc[p] \in {"free_regs", "read"}
  \/ pc[p] \in {"outs", "send"} /\ op[p].cmnd \notin {"READ", "STOP"}
HoldsSync(p) == pc[p] = "count"
HoldsOuts(p) == pc[p] \in {"send", "fork"}

RegsLock ==
  /\ sem_regs \in {0, 1}
  /\ \A p \in Procs : HoldsRegs(p) => sem_regs = 0 /\ \A q \in Procs : HoldsRegs(q) => q = p
SyncLock ==
  /\ sem_sync \in {0, 1}
  /\ \A p \in Procs : HoldsSync(p) => sem_sync = 0 /\ \A q \in Procs : HoldsSync(q) => q = p
\* One process at a time, until the parent releases sem_outs once too often: then
\* there may be two.
OutsLock ==
  /\ sem_outs \in 0 .. 2
  /\ \A p \in Procs : HoldsOuts(p) => sem_outs <= 1
  /\ \A p, q \in Procs : HoldsOuts(p) /\ HoldsOuts(q) /\ p # q => sem_outs = 0
  /\ \A p, q, r \in Procs :
       HoldsOuts(p) /\ HoldsOuts(q) /\ HoldsOuts(r) => p = q \/ q = r \/ p = r
  /\ pc[parent] = "wait" =>
       /\ sem_outs <= 1
       /\ \A p \in Procs : HoldsOuts(p) => sem_outs = 0 /\ \A q \in Procs : HoldsOuts(q) => q = p
Locks == RegsLock /\ SyncLock /\ OutsLock

-----------------------------------------------------------------------------
(* Life.                                                                   *)

Life ==
  pc[main] # "exit" =>
    /\ ~ signalled /\ ~ destroyed /\ pc[parent] = "wait"
    /\ \A c \in Components :
         /\ pc[Handler(c)] # "exit"
         /\ pc[Handler(c)] # "unborn" => alive[c]
         /\ pc[main] = "fork" /\ c >= k[main] => pc[Handler(c)] = "unborn"
         /\ \A i \in DOMAIN ins[c] : ins[c][i].cmnd # "STOP"

-----------------------------------------------------------------------------
(* Agreement.                                                              *)

\* p has written port q and not told component c yet.
Pending(p, c, q) ==
  /\ op[p].cmnd \in {"W", "SET"} /\ op[p].port = q
  /\ pc[p] = "outs" \/ (pc[p] = "send" /\ k[p] <= c)

Learns(c, q) == Known(view[c][q], q, ins[c])
Agree ==
  ~ signalled /\ ~ destroyed =>
    \A c \in Components, q \in Ports :
      /\ (\A p \in Procs : ~ Pending(p, c, q)) => Learns(c, q) = regs[q]
      /\ \A p \in Procs : Pending(p, c, q) => regs[q] = op[p].val

-----------------------------------------------------------------------------
(* Synchronization.                                                        *)

\* The lines component c has printed or is about to print, oldest first.
Printed(c) == outs[c] \o todo[c]

Reading    == op[main].cmnd = "READ" /\ pc[main] \in {"outs", "send", "await"}
NotSent(c) == Reading /\ (pc[main] = "outs" \/ (pc[main] = "send" /\ k[main] <= c))
At(kind, lines) == {i \in DOMAIN lines : lines[i].cmnd = kind}
SyncIn(c)  == At("SYNC", ins[c]) # {}
DoneIn(c)  == At("DONE", Printed(c)) # {}
Handled(c) == pc[Handler(c)] \in {"sync", "count"}
Token(c)   == SyncIn(c) \/ DoneIn(c) \/ Handled(c)
Owing      == {c \in Components : NotSent(c) \/ Token(c)}

OneToken(c) ==
  /\ \A i, j \in At("SYNC", ins[c]) : i = j
  /\ \A i, j \in At("DONE", Printed(c)) : i = j
  /\ ~ (SyncIn(c) /\ DoneIn(c)) /\ ~ (SyncIn(c) /\ Handled(c)) /\ ~ (DoneIn(c) /\ Handled(c))

Tokens ==
  /\ \A c \in Components : Token(c) => Reading /\ ~ NotSent(c)
  /\ \A c \in Components : OneToken(c)
  /\ sync_counter = Cardinality(Owing)
  /\ sem_done = IF Reading /\ sync_counter = 0 THEN 1 ELSE 0

-----------------------------------------------------------------------------
(* What a component has printed.                                           *)

\* Main has sent SYNC to c and not finished its read.
Sent(c) ==
  /\ op[main].cmnd = "READ"
  /\ (pc[main] = "send" /\ k[main] > c) \/ pc[main] \in {"await", "read_regs", "read"}

\* Nothing that c has to pass on comes after the SYNC or the DONE.
Clean(c) ==
  Sent(c) =>
    /\ \A i \in Writes(Wire[c][1], ins[c]) : \E j \in At("SYNC", ins[c]) : j > i
    /\ \A i \in Writes(Wire[c][2], Printed(c)) :
         SyncIn(c) \/ \E j \in At("DONE", Printed(c)) : j > i
    /\ pc[Handler(c)] = "regs" => SyncIn(c) \/ DoneIn(c)

\* What the port c drives will hold once all is executed that c has printed; and then
\* all that is on its way to it.
Arriving(c) ==
  Known(IF pc[Handler(c)] = "regs" THEN op[Handler(c)].val ELSE regs[Wire[c][2]],
        Wire[c][2], Printed(c))
Settled(c) == Known(Arriving(c), Wire[c][1], ins[c])

Follows(c) ==
  pc[main] # "exit" /\ ~ Pending(main, c, Wire[c][1]) => Settled(c) = regs[Wire[c][1]]

\* Of the components on a port that the program writes.
PassOn == \A c \in Components : Wire[c][1] \in Outputs => Clean(c) /\ Follows(c)

\* No two components drive the same port.
OneDriver == \A c, d \in Components : Wire[c][2] = Wire[d][2] => c = d
-----------------------------------------------------------------------------
(* The processes.                                                          *)

LEMMA ProcsAre ==
  /\ main \in Procs /\ parent \in Procs /\ \A c \in Components : Handler(c) \in Procs
  /\ \A p \in Procs : p = main \/ p = parent \/ \E c \in Components : p = Handler(c)
  /\ main # parent
  /\ \A c \in Components : Handler(c) # main /\ Handler(c) # parent
  /\ \A c, d \in Components : Handler(c) = Handler(d) => c = d
BY DEF Procs, main, parent, Handler

LEMMA Basics == NbProc \in Nat /\ PipeSize \in Nat /\ 0 \in Values /\ 1 \in Values
BY WireAssumption

LEMMA WireTypes ==
  \A c \in Components :
    /\ Wire[c][1] \in Ports /\ Wire[c][2] \in Ports /\ Wire[c][2] \notin Outputs
    /\ Wire[c][1] \in Nat /\ Wire[c][2] \in Nat /\ c \in Nat /\ c >= 1 /\ c <= NbProc
BY WireAssumption DEF Components, Ports, Inputs, Outputs

LEMMA PortsAreNaturals == Ports \subseteq Nat /\ Outputs \subseteq Ports
BY WireAssumption DEF Ports, Outputs

-----------------------------------------------------------------------------
(* The last of the lines that write a port.                                *)

\* A bounded set of naturals has a greatest element.
LEMMA GreatestElement ==
  ASSUME NEW n \in Nat, NEW S \in SUBSET (1 .. n), S # {}
  PROVE  Max(S) \in S /\ \A y \in S : Max(S) >= y
<1> DEFINE Below == {ss \in Nat \X Nat : ss[1] < ss[2]}
           T == {n - y : y \in S}
<1>1. IsWellFoundedOn(Below, Nat)  BY NatLessThanWellFounded DEF OpToRel
<1>2. \A x, y \in Nat : x < y => <<x, y>> \in Below  OBVIOUS
<1>3. T \subseteq Nat /\ T # {}
  <2>1. PICK e \in S : TRUE  OBVIOUS
  <2>2. n - e \in T  BY <2>1
  <2>3. \A y \in S : n - y \in Nat  OBVIOUS
  <2> QED  BY <2>2, <2>3
<1> HIDE DEF Below
<1>4. PICK x \in T : \A y \in T : ~ (<<y, x>> \in Below)  BY <1>1, <1>3, WFMin
<1>5. PICK s \in S : x = n - s  BY <1>4
<1>6. \A y \in S : s >= y
  <2> TAKE y \in S
  <2>1. n - y \in T /\ n - y \in Nat /\ x \in Nat  BY <1>3, <1>4
  <2>2. ~ (n - y < x)  BY <2>1, <1>2, <1>4
  <2> QED  BY <2>2, <2>1, <1>5
<1> QED  BY <1>5, <1>6 DEF Max

LEMMA WritesTypes ==
  ASSUME NEW X, NEW lines \in Seq(X), NEW p
  PROVE  Writes(p, lines) \in SUBSET (1 .. Len(lines))
BY DEF Writes

LEMMA KnownLast ==
  ASSUME NEW X, NEW lines \in Seq(X), NEW p, NEW v, NEW i \in Writes(p, lines),
         \A j \in Writes(p, lines) : j <= i
  PROVE  Known(v, p, lines) = lines[i].val
<1>1. Writes(p, lines) \in SUBSET (1 .. Len(lines)) /\ Len(lines) \in Nat
  BY WritesTypes
<1>2. Max(Writes(p, lines)) \in Writes(p, lines) /\ Max(Writes(p, lines)) >= i
  BY <1>1, GreatestElement
<1>3. Max(Writes(p, lines)) = i  BY <1>1, <1>2
<1> QED  BY <1>3 DEF Known

LEMMA KnownAppend ==
  ASSUME NEW X, NEW lines \in Seq(X), NEW l \in X, NEW p, NEW v
  PROVE  Known(v, p, Append(lines, l)) =
           IF l.cmnd = "W" /\ l.port = p THEN l.val ELSE Known(v, p, lines)
<1> DEFINE L == Append(lines, l)
<1>1. /\ L \in Seq(X) /\ Len(L) = Len(lines) + 1 /\ L[Len(L)] = l
      /\ \A i \in 1 .. Len(lines) : L[i] = lines[i]
      /\ Len(lines) \in Nat /\ DOMAIN L = 1 .. Len(lines) + 1 /\ DOMAIN lines = 1 .. Len(lines)
  OBVIOUS
<1> HIDE DEF L
<1>2. CASE l.cmnd = "W" /\ l.port = p
  <2>1. Len(L) \in Writes(p, L) /\ \A j \in Writes(p, L) : j <= Len(L)
    BY <1>1, <1>2 DEF Writes
  <2>2. Known(v, p, L) = L[Len(L)].val  BY <1>1, <2>1, KnownLast
  <2> QED  BY <2>2, <1>1, <1>2 DEF L
<1>3. CASE ~ (l.cmnd = "W" /\ l.port = p)
  <2>1. Writes(p, L) = Writes(p, lines)  BY <1>1, <1>3 DEF Writes
  <2>2. CASE Writes(p, lines) = {}  BY <2>1, <2>2, <1>3 DEF Known, L
  <2>3. CASE Writes(p, lines) # {}
    <3> DEFINE m == Max(Writes(p, lines))
    <3>1. m \in 1 .. Len(lines)  BY <2>3, <1>1, WritesTypes, GreatestElement
    <3>2. L[m] = lines[m]  BY <3>1, <1>1
    <3> QED  BY <3>2, <2>1, <2>3, <1>3 DEF Known, L
  <2> QED  BY <2>2, <2>3
<1> QED  BY <1>2, <1>3

LEMMA KnownTail ==
  ASSUME NEW X, NEW lines \in Seq(X), lines # <<>>, NEW p, NEW v
  PROVE  LET l == Head(lines) IN
         Known(IF l.cmnd = "W" /\ l.port = p THEN l.val ELSE v, p, Tail(lines)) = Known(v, p, lines)
<1> DEFINE l == Head(lines)
           T == Tail(lines)
           w == IF l.cmnd = "W" /\ l.port = p THEN l.val ELSE v
<1>1. /\ T \in Seq(X) /\ Len(T) = Len(lines) - 1 /\ Len(lines) \in Nat /\ Len(lines) >= 1
      /\ l = lines[1] /\ \A i \in 1 .. Len(T) : T[i] = lines[i + 1]
      /\ DOMAIN T = 1 .. Len(T) /\ DOMAIN lines = 1 .. Len(lines)
  OBVIOUS
<1> HIDE DEF l, T
<1>2. \A i \in 1 .. Len(T) : i \in Writes(p, T) <=> i + 1 \in Writes(p, lines)
  BY <1>1 DEF Writes
<1>3. CASE Writes(p, T) = {}
  <2>1. Writes(p, lines) \subseteq {1}
    <3> SUFFICES ASSUME NEW i \in Writes(p, lines), i # 1 PROVE FALSE  OBVIOUS
    <3>1. i - 1 \in 1 .. Len(T) /\ (i - 1) + 1 = i  BY <1>1 DEF Writes
    <3>2. i - 1 \in Writes(p, T)  BY <3>1, <1>2
    <3> QED  BY <3>2, <1>3
  <2>2. CASE l.cmnd = "W" /\ l.port = p
    <3>1. 1 \in Writes(p, lines)  BY <2>2, <1>1 DEF Writes
    <3>2. \A j \in Writes(p, lines) : j <= 1  BY <2>1
    <3>3. Known(v, p, lines) = lines[1].val  BY <3>1, <3>2, KnownLast
    <3> QED  BY <3>3, <2>2, <1>3, <1>1 DEF Known, l, T
  <2>3. CASE ~ (l.cmnd = "W" /\ l.port = p)
    <3>1. Writes(p, lines) = {}  BY <2>1, <2>3, <1>1 DEF Writes
    <3> QED  BY <3>1, <2>3, <1>3 DEF Known, l, T
  <2> QED  BY <2>2, <2>3
<1>4. CASE Writes(p, T) # {}
  <2> DEFINE m == Max(Writes(p, T))
  <2>1. m \in Writes(p, T) /\ m \in 1 .. Len(T) /\ \A j \in Writes(p, T) : m >= j
    <3>1. Writes(p, T) \in SUBSET (1 .. Len(T)) /\ Len(T) \in Nat
      BY <1>1, WritesTypes
    <3> QED  BY <3>1, <1>4, GreatestElement
  <2> HIDE DEF m
  <2>2. m + 1 \in Writes(p, lines)  BY <2>1, <1>2
  <2>3. ASSUME NEW j \in Writes(p, lines) PROVE j <= m + 1
    <3>1. j \in 1 .. Len(lines)  BY <1>1 DEF Writes
    <3>2. CASE j = 1  BY <3>2, <2>1
    <3>3. CASE j # 1
      <4>1. j - 1 \in 1 .. Len(T) /\ (j - 1) + 1 = j  BY <3>1, <3>3, <1>1
      <4>2. j - 1 \in Writes(p, T)  BY <4>1, <1>2, <2>3
      <4> QED  BY <4>2, <2>1, <3>1
    <3> QED  BY <3>2, <3>3
  <2>4. Known(v, p, lines) = lines[m + 1].val  BY <2>2, <2>3, KnownLast
  <2>5. Known(w, p, T) = T[m].val  BY <1>4 DEF Known, m
  <2>6. T[m] = lines[m + 1]  BY <2>1, <1>1
  <2> QED  BY <2>4, <2>5, <2>6 DEF l, T
<1> QED  BY <1>3, <1>4

-----------------------------------------------------------------------------
(* Types is an invariant.                                                  *)

LEMMA Lines ==
  /\ DONE \in MainOps /\ Operations \subseteq MainOps
  /\ \A o \in Operations : o.cmnd \in {"W", "T", "SET", "READ", "BIT"}
  /\ SYNC \in InLine /\ STOP \in InLine
  /\ \A o \in MainOps : o.cmnd \in {"W", "T", "SET", "READ"} => Line(o) \in InLine
  /\ \A c \in Components : \A l \in OutLine(c) :
       /\ l.cmnd \in {"W", "DONE"}
       /\ l.cmnd = "W" => l.port = Wire[c][2] /\ l.val \in Values /\ Line(l) = l /\ l \in InLine
  /\ Line(STOP) = STOP
  /\ \A p \in Outputs : DdrOf(p) \in DdrPorts
<1> USE WireAssumption, WireTypes, PortsAreNaturals
<1>1. \A p \in Outputs : DdrOf(p) \in DdrPorts /\ DdrOf(p) \in Int
  BY DEF DdrPorts, DdrOf
<1>2. DONE \in MainOps /\ SYNC \in InLine /\ STOP \in InLine /\ Line(STOP) = STOP
  BY DEF MainOps, InLine, DONE, SYNC, STOP, Line
<1>3. ASSUME NEW o \in Operations
      PROVE  o \in MainOps /\ o.cmnd \in {"W", "T", "SET", "READ", "BIT"}
  <2> USE <1>1 DEF MainOps
  <2>1. CASE o \in {W(p, v) : p \in Outputs, v \in Values}  BY <2>1 DEF W
  <2>2. CASE o \in {DDR(DdrOf(p), 1) : p \in Outputs}  BY <2>2 DEF DDR
  <2>3. CASE o \in {SET(p) : p \in Outputs}  BY <2>3 DEF SET
  <2>4. CASE o \in {READ(p) : p \in Ports}  BY <2>4 DEF READ
  <2>5. CASE o \in {BIT(p) : p \in Inputs}
    <3>1. Inputs \subseteq Ports  BY DEF Ports, Inputs
    <3> QED  BY <2>5, <3>1 DEF BIT
  <2> QED  BY <2>1, <2>2, <2>3, <2>4, <2>5 DEF Operations
<1>4. ASSUME NEW o \in MainOps, o.cmnd \in {"W", "T", "SET", "READ"}
      PROVE  Line(o) \in InLine
  BY <1>2, <1>4 DEF MainOps, InLine, Line, SYNC, W
<1>5. ASSUME NEW c \in Components, NEW l \in OutLine(c)
      PROVE  /\ l.cmnd \in {"W", "DONE"}
             /\ l.cmnd = "W" =>
                  l.port = Wire[c][2] /\ l.val \in Values /\ Line(l) = l /\ l \in InLine
  BY DEF OutLine, W, DONE, Line, InLine
<1> QED  BY <1>1, <1>2, <1>3, <1>4, <1>5

LEMMA TypesInit == Init => Types
<1> SUFFICES ASSUME Init PROVE Types  OBVIOUS
<1> USE ProcsAre
<1>1. MainAt /\ ParentAt  BY Lines DEF Init, MainAt, ParentAt
<1>2. \A c \in Components : HandlerAt(c)  BY DEF Init, HandlerAt, OutLine
<1>3. ControlTypes  BY <1>1, <1>2 DEF Init, ControlTypes
<1>4. DataTypes
  <2>1. 0 \in Values  BY WireAssumption
  <2>2. regs \in [Ports -> Values] /\ ddr \in [DdrPorts -> {0, 1}]
    BY <2>1 DEF Init, DdrPorts
  <2>3. destroyed \in BOOLEAN /\ signalled \in BOOLEAN  BY DEF Init
  <2>4. sync_counter \in Int /\ sem_regs \in Int /\ sem_sync \in Int /\ sem_done \in Int
        /\ sem_outs \in Int
    BY DEF Init
  <2> QED  BY <2>2, <2>3, <2>4 DEF DataTypes
<1>5. PipeTypes
  <2>1. ins = [c \in Components |-> <<>>] /\ \A c \in Components : ins[c] \in Seq(InLine)
    BY DEF Init
  <2>2. \A c \in Components : outs[c] = <<>> /\ outs[c] \in Seq(OutLine(c)) /\ todo[c] = <<>>
    BY DEF Init
  <2>3. PipeSize \in Nat /\ 0 \in Values  BY WireAssumption
  <2>4. alive \in [Components -> BOOLEAN] /\ view \in [Components -> [Ports -> Values]]
    BY <2>3 DEF Init
  <2>5. \A c \in Components : Len(ins[c]) <= PipeSize /\ Len(outs[c]) <= PipeSize
    BY <2>3, <2>2 DEF Init
  <2> QED  BY <2>1, <2>2, <2>4, <2>5 DEF Init, PipeTypes
<1> QED  BY <1>3, <1>4, <1>5 DEF Types

LEMMA DataNext == Types /\ [Next]_vars => DataTypes'
<1> SUFFICES ASSUME Types, [Next]_vars PROVE DataTypes'  OBVIOUS
<1> USE DEF Types, DataTypes
<1>1. CASE Fork
  BY <1>1 DEF Fork, shared, P, V
<1>2. CASE Started
  BY <1>2 DEF Started, shared, P, V
<1>3. CASE SetCounter
  BY <1>3, Basics DEF SetCounter, P, V
<1>4. CASE Await
  BY <1>4 DEF Await, shared, P, V
<1>5. CASE ReadRegs
  BY <1>5 DEF ReadRegs, shared, P, V
<1>6. CASE ReadDone
  BY <1>6 DEF ReadDone, shared, P, V
<1>7. ASSUME NEW o \in Operations, Access(o) PROVE DataTypes'
  BY <1>7 DEF Access, shared, P, V
<1>8. CASE ProgramEnds
  BY <1>8 DEF ProgramEnds, shared, P, V
<1>9. ASSUME NEW p \in Procs, LockSync(p) PROVE DataTypes'
  BY <1>9 DEF LockSync, shared, P, V
<1>10. ASSUME NEW p \in Procs, Update(p) PROVE DataTypes'
  <2>1. p # parent /\ op[p].val \in Values /\ (op[p].cmnd = "T" => op[p].val = 1)
    BY <1>10, ProcsAre, Lines
    DEF Update, ControlTypes, MainAt, ParentAt, HandlerAt, MainOps
  <2>2. regs' \in [Ports -> Values]  BY <1>10, <2>1 DEF Update
  <2>3. ddr' \in [DdrPorts -> {0, 1}]  BY <1>10, <2>1 DEF Update
  <2> QED  BY <1>10, <2>2, <2>3 DEF Update, P
<1>11. ASSUME NEW p \in Procs, FreeRegs(p) PROVE DataTypes'
  BY <1>11 DEF FreeRegs, shared, P, V
<1>12. ASSUME NEW p \in Procs, LockOuts(p) PROVE DataTypes'
  BY <1>12 DEF LockOuts, shared, P, V
<1>13. ASSUME NEW p \in Procs, Send(p) PROVE DataTypes'
  BY <1>13 DEF Send, shared, P, V
<1>14. ASSUME NEW p \in Procs, FreeOuts(p) PROVE DataTypes'
  BY <1>14 DEF FreeOuts, shared, P, V
<1>15. ASSUME NEW p \in Procs, SemopFails(p) PROVE DataTypes'
  BY <1>15 DEF SemopFails, shared, P, V
<1>16. ASSUME NEW c \in Components, ReadLine(c) PROVE DataTypes'
  BY <1>16 DEF ReadLine, shared, P, V
<1>17. ASSUME NEW c \in Components, CountDown(c) PROVE DataTypes'
  BY <1>17 DEF CountDown, shared, P, V
<1>18. ASSUME NEW c \in Components, EndOfFile(c) PROVE DataTypes'
  BY <1>18 DEF EndOfFile, shared, P, V
<1>19. ASSUME NEW c \in Components, Killed(c) PROVE DataTypes'
  BY <1>19 DEF Killed, shared, P, V
<1>20. ASSUME NEW c \in Components, Take(c) PROVE DataTypes'
  BY <1>20 DEF Take, shared, P, V
<1>21. ASSUME NEW c \in Components, Put(c) PROVE DataTypes'
  BY <1>21 DEF Put, shared, P, V
<1>22. CASE Wait
  BY <1>22 DEF Wait, shared, P, V
<1>23. CASE Destroy
  BY <1>23 DEF Destroy, shared, P, V
<1>24. CASE UNCHANGED vars  BY <1>24 DEF vars, shared
<1> QED
  BY <1>1, <1>2, <1>3, <1>4, <1>5, <1>6, <1>7, <1>8, <1>9, <1>10, <1>11, <1>12, <1>13,
     <1>14, <1>15, <1>16, <1>17, <1>18, <1>19, <1>20, <1>21, <1>22, <1>23, <1>24
  DEF Next, MainStep, ProcStep, HandlerStep, ComponentStep

LEMMA ControlNext == Types /\ [Next]_vars => ControlTypes'
<1> SUFFICES ASSUME Types, [Next]_vars PROVE ControlTypes'  OBVIOUS
<1> USE ProcsAre, Lines DEF Types, ControlTypes, MainAt, ParentAt, HandlerAt, Goto
<1>1. CASE Fork
  <2>1. k[main] \in Components  BY <1>1, Basics DEF Fork, Components
  <2>2. k' \in [Procs -> Nat \ {0}] /\ \A p \in Procs : p # main => k'[p] = k[p]
    BY <1>1, <2>1 DEF Fork, Components
  <2>3. pc' = [pc EXCEPT ![Handler(k[main])] = "idle"] /\ op' = op
    BY <1>1 DEF Fork
  <2>4. pc'[main] = pc[main] /\ pc'[parent] = pc[parent]
        /\ \A c \in Components : pc'[Handler(c)] = "idle" \/ pc'[Handler(c)] = pc[Handler(c)]
    BY <2>1, <2>3
  <2>5. MainAt' /\ ParentAt' /\ \A c \in Components : HandlerAt(c)'  BY <2>3, <2>4
  <2>6. \A p \in Procs : pc'[p] \notin {"send", "fork"} => k'[p] = 1
    BY <1>1, <2>1, <2>2, <2>3 DEF Fork
  <2>7. \A c \in Components : c >= k'[main] => pc'[Handler(c)] \in {"unborn", "exit"}
    BY <1>1, <2>1, <2>3 DEF Fork, Components
  <2> QED  BY <2>2, <2>3, <2>5, <2>6, <2>7
<1>2. CASE Started
  BY <1>2 DEF Started
<1>3. CASE SetCounter
  BY <1>3 DEF SetCounter
<1>4. CASE Await
  BY <1>4 DEF Await
<1>5. CASE ReadRegs
  BY <1>5 DEF ReadRegs
<1>6. CASE ReadDone
  BY <1>6 DEF ReadDone, Finish
<1>7. ASSUME NEW o \in Operations, Access(o) PROVE ControlTypes'
  BY <1>7 DEF Access
<1>8. CASE ProgramEnds
  BY <1>8 DEF ProgramEnds
<1>9. ASSUME NEW p \in Procs, LockSync(p) PROVE ControlTypes'
  BY <1>9 DEF LockSync
<1>10. ASSUME NEW p \in Procs, Update(p) PROVE ControlTypes'
  BY <1>10 DEF Update
<1>11. ASSUME NEW p \in Procs, FreeRegs(p) PROVE ControlTypes'
  <2>1. \A c \in Components : DONE \in OutLine(c)  BY DEF OutLine
  <2> QED  BY <1>11, <2>1 DEF FreeRegs, Finish
<1>12. ASSUME NEW p \in Procs, LockOuts(p) PROVE ControlTypes'
  BY <1>12 DEF LockOuts
<1>13. ASSUME NEW p \in Procs, Send(p) PROVE ControlTypes'
  BY <1>13 DEF Send
<1>14. ASSUME NEW p \in Procs, FreeOuts(p) PROVE ControlTypes'
  BY <1>14 DEF FreeOuts
<1>15. ASSUME NEW p \in Procs, SemopFails(p) PROVE ControlTypes'
  <2>1. \A c \in Components : DONE \in OutLine(c)  BY DEF OutLine
  <2> QED  BY <1>15, <2>1 DEF SemopFails, Exit
<1>16. ASSUME NEW c \in Components, ReadLine(c) PROVE ControlTypes'
  <2>1. Head(outs[c]) \in OutLine(c)  BY <1>16 DEF ReadLine, PipeTypes
  <2>2. Head(outs[c]).cmnd \in {"W", "DONE"}  BY <2>1
  <2> QED  BY <1>16, <2>1, <2>2 DEF ReadLine
<1>17. ASSUME NEW c \in Components, CountDown(c) PROVE ControlTypes'
  BY <1>17 DEF CountDown
<1>18. ASSUME NEW c \in Components, EndOfFile(c) PROVE ControlTypes'
  BY <1>18 DEF EndOfFile
<1>19. ASSUME NEW c \in Components, Killed(c) PROVE ControlTypes'
  <2>1. DONE \in OutLine(c)  BY DEF OutLine
  <2> QED  BY <1>19, <2>1 DEF Killed, Exit
<1>20. ASSUME NEW c \in Components, Take(c) PROVE ControlTypes'
  BY <1>20 DEF Take
<1>21. ASSUME NEW c \in Components, Put(c) PROVE ControlTypes'
  BY <1>21 DEF Put
<1>22. CASE Wait
  BY <1>22 DEF Wait
<1>23. CASE Destroy
  BY <1>23 DEF Destroy
<1>24. CASE UNCHANGED vars  BY <1>24 DEF vars
<1> QED
  BY <1>1, <1>2, <1>3, <1>4, <1>5, <1>6, <1>7, <1>8, <1>9, <1>10, <1>11, <1>12, <1>13,
     <1>14, <1>15, <1>16, <1>17, <1>18, <1>19, <1>20, <1>21, <1>22, <1>23, <1>24
  DEF Next, MainStep, ProcStep, HandlerStep, ComponentStep

LEMMA PipesNext == Types /\ [Next]_vars => PipeTypes'
<1> SUFFICES ASSUME Types, [Next]_vars PROVE PipeTypes'  OBVIOUS
<1> USE DEF Types, PipeTypes
<1>1. CASE Fork
  BY <1>1 DEF Fork, comps
<1>2. CASE Started
  BY <1>2 DEF Started, comps
<1>3. CASE SetCounter
  BY <1>3 DEF SetCounter, comps
<1>4. CASE Await
  BY <1>4 DEF Await, comps
<1>5. CASE ReadRegs
  BY <1>5 DEF ReadRegs, comps
<1>6. CASE ReadDone
  BY <1>6 DEF ReadDone, comps
<1>7. ASSUME NEW o \in Operations, Access(o) PROVE PipeTypes'
  BY <1>7 DEF Access, comps
<1>8. CASE ProgramEnds
  BY <1>8 DEF ProgramEnds, comps
<1>9. ASSUME NEW p \in Procs, LockSync(p) PROVE PipeTypes'
  BY <1>9 DEF LockSync, comps
<1>10. ASSUME NEW p \in Procs, Update(p) PROVE PipeTypes'
  BY <1>10 DEF Update, comps
<1>11. ASSUME NEW p \in Procs, FreeRegs(p) PROVE PipeTypes'
  BY <1>11 DEF FreeRegs, comps
<1>12. ASSUME NEW p \in Procs, LockOuts(p) PROVE PipeTypes'
  BY <1>12 DEF LockOuts, comps
<1>13. ASSUME NEW p \in Procs, Send(p) PROVE PipeTypes'
  <2>1. k[p] \in Components  BY <1>13, Basics DEF Send, Components, ControlTypes
  <2>2. Line(op[p]) \in InLine
    <3>1. CASE p = main  BY <1>13, <3>1, Lines DEF Send, ControlTypes, MainAt
    <3>2. CASE p = parent  BY <1>13, <3>2, Lines DEF Send, ControlTypes, ParentAt
    <3>3. ASSUME NEW c \in Components, p = Handler(c) PROVE Line(op[p]) \in InLine
      BY <1>13, <3>3, Lines DEF Send, ControlTypes, HandlerAt
    <3> QED  BY <3>1, <3>2, <3>3, ProcsAre
  <2>3. Append(ins[k[p]], Line(op[p])) \in Seq(InLine)
        /\ Len(Append(ins[k[p]], Line(op[p]))) = Len(ins[k[p]]) + 1
    BY <2>1, <2>2
  <2>4. Len(ins[k[p]]) \in Nat  BY <2>1
  <2>5. \A c \in Components : ins'[c] =
          IF c = k[p] THEN Append(ins[k[p]], Line(op[p])) ELSE ins[c]
    BY <1>13, <2>1 DEF Send
  <2>6. ins' \in [Components -> Seq(InLine)]  BY <1>13, <2>3 DEF Send
  <2>7. \A c \in Components : Len(ins'[c]) <= PipeSize
    BY <2>5, <2>3, <2>4, <1>13, Basics DEF Send
  <2> QED  BY <1>13, <2>6, <2>7 DEF Send, comps
<1>14. ASSUME NEW p \in Procs, FreeOuts(p) PROVE PipeTypes'
  BY <1>14 DEF FreeOuts, comps
<1>15. ASSUME NEW p \in Procs, SemopFails(p) PROVE PipeTypes'
  BY <1>15 DEF SemopFails, comps
<1>16. ASSUME NEW c \in Components, ReadLine(c) PROVE PipeTypes'
  <2>1. Tail(outs[c]) \in Seq(OutLine(c)) /\ Len(Tail(outs[c])) = Len(outs[c]) - 1
        /\ Len(outs[c]) \in Nat
    BY <1>16 DEF ReadLine
  <2>2. Len(Tail(outs[c])) <= PipeSize  BY <2>1, Basics
  <2> QED  BY <1>16, <2>1, <2>2 DEF ReadLine, comps
<1>17. ASSUME NEW c \in Components, CountDown(c) PROVE PipeTypes'
  BY <1>17 DEF CountDown, comps
<1>18. ASSUME NEW c \in Components, EndOfFile(c) PROVE PipeTypes'
  BY <1>18 DEF EndOfFile, comps
<1>19. ASSUME NEW c \in Components, Killed(c) PROVE PipeTypes'
  BY <1>19 DEF Killed, comps
<1>20. ASSUME NEW c \in Components, Take(c) PROVE PipeTypes'
  <2> DEFINE line == Head(ins[c])
  <2>1. line \in InLine /\ Tail(ins[c]) \in Seq(InLine) /\ Len(Tail(ins[c])) = Len(ins[c]) - 1
        /\ Len(ins[c]) \in Nat
    BY <1>20 DEF Take
  <2>2. Len(Tail(ins[c])) <= PipeSize  BY <2>1, Basics
  <2>3. line.val \in Values  BY <2>1 DEF InLine
  <2>4. todo'[c] = <<>> \/ \E l \in OutLine(c) : todo'[c] = <<l>>
    BY <1>20, <2>3 DEF Take, OutLine
  <2>5. view' \in [Components -> [Ports -> Values]]  BY <1>20, <2>3 DEF Take
  <2>6. ins' \in [Components -> Seq(InLine)] /\ \A d \in Components : Len(ins'[d]) <= PipeSize
    BY <1>20, <2>1, <2>2 DEF Take
  <2>7. alive' \in [Components -> BOOLEAN]  BY <1>20 DEF Take
  <2>8. outs' = outs /\ DOMAIN todo' = Components
        /\ \A d \in Components \ {c} : todo'[d] = todo[d]
    BY <1>20 DEF Take
  <2> QED  BY <2>4, <2>5, <2>6, <2>7, <2>8
<1>21. ASSUME NEW c \in Components, Put(c) PROVE PipeTypes'
  <2>1. PICK l \in OutLine(c) : todo[c] = <<l>>  BY <1>21 DEF Put
  <2>2. outs[c] \o <<l>> \in Seq(OutLine(c)) /\ Len(outs[c] \o <<l>>) = Len(outs[c]) + 1
        /\ Len(outs[c]) \in Nat
    OBVIOUS
  <2>3. outs' = outs \/ (Len(outs[c]) < PipeSize /\ outs' = [outs EXCEPT ![c] = outs[c] \o <<l>>])
    BY <1>21, <2>1 DEF Put
  <2>4. DOMAIN outs' = Components
        /\ \A d \in Components : outs'[d] \in Seq(OutLine(d)) /\ Len(outs'[d]) <= PipeSize
    <3>1. CASE outs' = outs  BY <3>1
    <3>2. CASE Len(outs[c]) < PipeSize /\ outs' = [outs EXCEPT ![c] = outs[c] \o <<l>>]
      <4>1. outs'[c] = outs[c] \o <<l>> /\ Len(outs[c] \o <<l>>) <= PipeSize
        BY <2>2, <3>2, Basics
      <4>2. \A d \in Components \ {c} : outs'[d] = outs[d]  BY <3>2
      <4> QED  BY <3>2, <4>1, <4>2, <2>2
    <3> QED  BY <2>3, <3>1, <3>2
  <2>5. alive' \in [Components -> BOOLEAN]  BY <1>21 DEF Put
  <2>6. ins' = ins /\ view' = view /\ DOMAIN todo' = Components
        /\ todo'[c] = <<>> /\ \A d \in Components \ {c} : todo'[d] = todo[d]
    BY <1>21 DEF Put
  <2> QED  BY <2>4, <2>5, <2>6
<1>22. CASE Wait
  BY <1>22 DEF Wait, comps
<1>23. CASE Destroy
  BY <1>23 DEF Destroy, comps
<1>24. CASE UNCHANGED vars  BY <1>24 DEF vars, comps
<1> QED
  BY <1>1, <1>2, <1>3, <1>4, <1>5, <1>6, <1>7, <1>8, <1>9, <1>10, <1>11, <1>12, <1>13,
     <1>14, <1>15, <1>16, <1>17, <1>18, <1>19, <1>20, <1>21, <1>22, <1>23, <1>24
  DEF Next, MainStep, ProcStep, HandlerStep, ComponentStep

LEMMA TypesNext == Types /\ [Next]_vars => Types'
BY DataNext, ControlNext, PipesNext DEF Types

LEMMA TypesCorrect == Spec => []Types
BY TypesInit, TypesNext, PTL DEF Spec

-----------------------------------------------------------------------------
(* Locks is an invariant.                                                  *)

LEMMA RegsLockNext == Types /\ RegsLock /\ [Next]_vars => RegsLock'
<1> SUFFICES ASSUME Types, RegsLock, [Next]_vars PROVE RegsLock'  OBVIOUS
<1> USE ProcsAre, Lines DEF Types, ControlTypes, MainAt, ParentAt, HandlerAt, Goto, RegsLock, HoldsRegs
<1>1. CASE Fork
  BY <1>1 DEF Fork, shared, P, V
<1>2. CASE Started
  BY <1>2 DEF Started, shared, P, V
<1>3. CASE SetCounter
  BY <1>3 DEF SetCounter, shared, P, V
<1>4. CASE Await
  BY <1>4 DEF Await, shared, P, V
<1>5. CASE ReadRegs
  BY <1>5 DEF ReadRegs, shared, P, V
<1>6. CASE ReadDone
  BY <1>6 DEF ReadDone, Finish, shared, P, V
<1>7. ASSUME NEW o \in Operations, Access(o) PROVE RegsLock'
  BY <1>7 DEF Access, shared, P, V
<1>8. CASE ProgramEnds
  BY <1>8 DEF ProgramEnds, shared, P, V
<1>9. ASSUME NEW p \in Procs, LockSync(p) PROVE RegsLock'
  BY <1>9 DEF LockSync, shared, P, V
<1>10. ASSUME NEW p \in Procs, Update(p) PROVE RegsLock'
  BY <1>10 DEF Update, shared, P, V
<1>11. ASSUME NEW p \in Procs, FreeRegs(p) PROVE RegsLock'
  BY <1>11 DEF FreeRegs, Finish, shared, P, V
<1>12. ASSUME NEW p \in Procs, LockOuts(p) PROVE RegsLock'
  BY <1>12 DEF LockOuts, shared, P, V
<1>13. ASSUME NEW p \in Procs, Send(p) PROVE RegsLock'
  BY <1>13 DEF Send, shared, P, V
<1>14. ASSUME NEW p \in Procs, FreeOuts(p) PROVE RegsLock'
  BY <1>14 DEF FreeOuts, shared, P, V
<1>15. ASSUME NEW p \in Procs, SemopFails(p) PROVE RegsLock'
  BY <1>15 DEF SemopFails, Exit, shared, P, V
<1>16. ASSUME NEW c \in Components, ReadLine(c) PROVE RegsLock'
  BY <1>16 DEF ReadLine, shared, P, V
<1>17. ASSUME NEW c \in Components, CountDown(c) PROVE RegsLock'
  BY <1>17 DEF CountDown, shared, P, V
<1>18. ASSUME NEW c \in Components, EndOfFile(c) PROVE RegsLock'
  BY <1>18 DEF EndOfFile, shared, P, V
<1>19. ASSUME NEW c \in Components, Killed(c) PROVE RegsLock'
  BY <1>19 DEF Killed, Exit, shared, P, V
<1>20. ASSUME NEW c \in Components, Take(c) PROVE RegsLock'
  BY <1>20 DEF Take, shared, P, V
<1>21. ASSUME NEW c \in Components, Put(c) PROVE RegsLock'
  BY <1>21 DEF Put, shared, P, V
<1>22. CASE Wait
  BY <1>22 DEF Wait, STOP
<1>23. CASE Destroy
  BY <1>23 DEF Destroy, shared, P, V
<1>24. CASE UNCHANGED vars  BY <1>24 DEF vars, shared
<1> QED
  BY <1>1, <1>2, <1>3, <1>4, <1>5, <1>6, <1>7, <1>8, <1>9, <1>10, <1>11, <1>12, <1>13,
     <1>14, <1>15, <1>16, <1>17, <1>18, <1>19, <1>20, <1>21, <1>22, <1>23, <1>24
  DEF Next, MainStep, ProcStep, HandlerStep, ComponentStep

LEMMA SyncLockNext == Types /\ SyncLock /\ [Next]_vars => SyncLock'
<1> SUFFICES ASSUME Types, SyncLock, [Next]_vars PROVE SyncLock'  OBVIOUS
<1> USE ProcsAre DEF Types, ControlTypes, MainAt, ParentAt, HandlerAt, Goto, SyncLock, HoldsSync
<1>1. CASE Fork
  BY <1>1 DEF Fork, shared, P, V
<1>2. CASE Started
  BY <1>2 DEF Started, shared, P, V
<1>3. CASE SetCounter
  BY <1>3 DEF SetCounter, shared, P, V
<1>4. CASE Await
  BY <1>4 DEF Await, shared, P, V
<1>5. CASE ReadRegs
  BY <1>5 DEF ReadRegs, shared, P, V
<1>6. CASE ReadDone
  BY <1>6 DEF ReadDone, Finish, shared, P, V
<1>7. ASSUME NEW o \in Operations, Access(o) PROVE SyncLock'
  BY <1>7 DEF Access, shared, P, V
<1>8. CASE ProgramEnds
  BY <1>8 DEF ProgramEnds, shared, P, V
<1>9. ASSUME NEW p \in Procs, LockSync(p) PROVE SyncLock'
  BY <1>9 DEF LockSync, shared, P, V
<1>10. ASSUME NEW p \in Procs, Update(p) PROVE SyncLock'
  BY <1>10 DEF Update, shared, P, V
<1>11. ASSUME NEW p \in Procs, FreeRegs(p) PROVE SyncLock'
  BY <1>11 DEF FreeRegs, Finish, shared, P, V
<1>12. ASSUME NEW p \in Procs, LockOuts(p) PROVE SyncLock'
  BY <1>12 DEF LockOuts, shared, P, V
<1>13. ASSUME NEW p \in Procs, Send(p) PROVE SyncLock'
  BY <1>13 DEF Send, shared, P, V
<1>14. ASSUME NEW p \in Procs, FreeOuts(p) PROVE SyncLock'
  BY <1>14 DEF FreeOuts, shared, P, V
<1>15. ASSUME NEW p \in Procs, SemopFails(p) PROVE SyncLock'
  BY <1>15 DEF SemopFails, Exit, shared, P, V
<1>16. ASSUME NEW c \in Components, ReadLine(c) PROVE SyncLock'
  BY <1>16 DEF ReadLine, shared, P, V
<1>17. ASSUME NEW c \in Components, CountDown(c) PROVE SyncLock'
  BY <1>17 DEF CountDown, shared, P, V
<1>18. ASSUME NEW c \in Components, EndOfFile(c) PROVE SyncLock'
  BY <1>18 DEF EndOfFile, shared, P, V
<1>19. ASSUME NEW c \in Components, Killed(c) PROVE SyncLock'
  BY <1>19 DEF Killed, Exit, shared, P, V
<1>20. ASSUME NEW c \in Components, Take(c) PROVE SyncLock'
  BY <1>20 DEF Take, shared, P, V
<1>21. ASSUME NEW c \in Components, Put(c) PROVE SyncLock'
  BY <1>21 DEF Put, shared, P, V
<1>22. CASE Wait
  BY <1>22 DEF Wait, shared, P, V
<1>23. CASE Destroy
  BY <1>23 DEF Destroy, shared, P, V
<1>24. CASE UNCHANGED vars  BY <1>24 DEF vars, shared
<1> QED
  BY <1>1, <1>2, <1>3, <1>4, <1>5, <1>6, <1>7, <1>8, <1>9, <1>10, <1>11, <1>12, <1>13,
     <1>14, <1>15, <1>16, <1>17, <1>18, <1>19, <1>20, <1>21, <1>22, <1>23, <1>24
  DEF Next, MainStep, ProcStep, HandlerStep, ComponentStep

LEMMA OutsLockNext == Types /\ OutsLock /\ [Next]_vars => OutsLock'
<1> SUFFICES ASSUME Types, OutsLock, [Next]_vars PROVE OutsLock'  OBVIOUS
<1> USE ProcsAre DEF Types, ControlTypes, MainAt, ParentAt, HandlerAt, Goto, OutsLock, HoldsOuts
<1>1. CASE Fork
  BY <1>1 DEF Fork, shared, P, V
<1>2. CASE Started
  BY <1>2 DEF Started, shared, P, V
<1>3. CASE SetCounter
  BY <1>3 DEF SetCounter, shared, P, V
<1>4. CASE Await
  BY <1>4 DEF Await, shared, P, V
<1>5. CASE ReadRegs
  BY <1>5 DEF ReadRegs, shared, P, V
<1>6. CASE ReadDone
  BY <1>6 DEF ReadDone, Finish, shared, P, V
<1>7. ASSUME NEW o \in Operations, Access(o) PROVE OutsLock'
  BY <1>7 DEF Access, shared, P, V
<1>8. CASE ProgramEnds
  BY <1>8 DEF ProgramEnds, shared, P, V
<1>9. ASSUME NEW p \in Procs, LockSync(p) PROVE OutsLock'
  BY <1>9 DEF LockSync, shared, P, V
<1>10. ASSUME NEW p \in Procs, Update(p) PROVE OutsLock'
  BY <1>10 DEF Update, shared, P, V
<1>11. ASSUME NEW p \in Procs, FreeRegs(p) PROVE OutsLock'
  BY <1>11 DEF FreeRegs, Finish, shared, P, V
<1>12. ASSUME NEW p \in Procs, LockOuts(p) PROVE OutsLock'
  BY <1>12 DEF LockOuts, shared, P, V
<1>13. ASSUME NEW p \in Procs, Send(p) PROVE OutsLock'
  BY <1>13 DEF Send, shared, P, V
<1>14. ASSUME NEW p \in Procs, FreeOuts(p) PROVE OutsLock'
  BY <1>14 DEF FreeOuts, shared, P, V
<1>15. ASSUME NEW p \in Procs, SemopFails(p) PROVE OutsLock'
  BY <1>15 DEF SemopFails, Exit, shared, P, V
<1>16. ASSUME NEW c \in Components, ReadLine(c) PROVE OutsLock'
  BY <1>16 DEF ReadLine, shared, P, V
<1>17. ASSUME NEW c \in Components, CountDown(c) PROVE OutsLock'
  BY <1>17 DEF CountDown, shared, P, V
<1>18. ASSUME NEW c \in Components, EndOfFile(c) PROVE OutsLock'
  BY <1>18 DEF EndOfFile, shared, P, V
<1>19. ASSUME NEW c \in Components, Killed(c) PROVE OutsLock'
  BY <1>19 DEF Killed, Exit, shared, P, V
<1>20. ASSUME NEW c \in Components, Take(c) PROVE OutsLock'
  BY <1>20 DEF Take, shared, P, V
<1>21. ASSUME NEW c \in Components, Put(c) PROVE OutsLock'
  BY <1>21 DEF Put, shared, P, V
<1>22. CASE Wait
  BY <1>22 DEF Wait, shared, P, V
<1>23. CASE Destroy
  BY <1>23 DEF Destroy, shared, P, V
<1>24. CASE UNCHANGED vars  BY <1>24 DEF vars, shared
<1> QED
  BY <1>1, <1>2, <1>3, <1>4, <1>5, <1>6, <1>7, <1>8, <1>9, <1>10, <1>11, <1>12, <1>13,
     <1>14, <1>15, <1>16, <1>17, <1>18, <1>19, <1>20, <1>21, <1>22, <1>23, <1>24
  DEF Next, MainStep, ProcStep, HandlerStep, ComponentStep

LEMMA LocksCorrect == Spec => []Locks
<1>1. Init => Locks
  BY ProcsAre DEF Init, Locks, RegsLock, SyncLock, OutsLock, HoldsRegs, HoldsSync, HoldsOuts
<1>2. Types /\ Locks /\ [Next]_vars => Locks'
  BY RegsLockNext, SyncLockNext, OutsLockNext DEF Locks
<1> QED  BY <1>1, <1>2, TypesCorrect, PTL DEF Spec

-----------------------------------------------------------------------------
(* Life is an invariant.                                                   *)

LEMMA LifeNext == Types /\ Life /\ [Next]_vars => Life'
<1> SUFFICES ASSUME Types, Life, [Next]_vars PROVE Life'  OBVIOUS
<1> USE ProcsAre DEF Types, ControlTypes, PipeTypes, MainAt, ParentAt, HandlerAt, Goto, Life
<1>1. CASE Fork
  <2>1. k[main] \in Components  BY <1>1, Basics DEF Fork, Components
  <2>2. pc[main] = "fork" /\ pc'[main] = "fork" /\ pc'[parent] = pc[parent] /\ ins' = ins
        /\ signalled' = signalled /\ destroyed' = destroyed
    BY <1>1, <2>1 DEF Fork, shared
  <2>3. ASSUME NEW c \in Components
        PROVE  /\ pc'[Handler(c)] # "exit"
               /\ pc'[Handler(c)] # "unborn" => alive'[c]
    BY <1>1, <2>1 DEF Fork
  <2>4. ASSUME NEW c \in Components, c >= k'[main] PROVE pc'[Handler(c)] = "unborn"
    BY <1>1, <2>1, <2>4 DEF Fork, Components
  <2> QED  BY <2>2, <2>3, <2>4
<1>2. CASE Started
  BY <1>2 DEF Started, shared, comps
<1>3. CASE SetCounter
  BY <1>3 DEF SetCounter, shared, comps
<1>4. CASE Await
  BY <1>4 DEF Await, shared, comps
<1>5. CASE ReadRegs
  BY <1>5 DEF ReadRegs, shared, comps
<1>6. CASE ReadDone
  BY <1>6 DEF ReadDone, Finish, shared, comps
<1>7. ASSUME NEW o \in Operations, Access(o) PROVE Life'
  BY <1>7 DEF Access, shared, comps
<1>8. CASE ProgramEnds
  BY <1>8 DEF ProgramEnds, shared, comps
<1>9. ASSUME NEW p \in Procs, LockSync(p) PROVE Life'
  BY <1>9 DEF LockSync, shared, comps
<1>10. ASSUME NEW p \in Procs, Update(p) PROVE Life'
  BY <1>10 DEF Update, shared, comps
<1>11. ASSUME NEW p \in Procs, FreeRegs(p) PROVE Life'
  BY <1>11 DEF FreeRegs, Finish, shared, comps
<1>12. ASSUME NEW p \in Procs, LockOuts(p) PROVE Life'
  BY <1>12 DEF LockOuts, shared, comps
<1>13. ASSUME NEW p \in Procs, Send(p) PROVE Life'
  <2>1. k[p] \in Components  BY <1>13, Basics DEF Send, Components
  <2>2. pc[main] # "exit" => Line(op[p]).cmnd # "STOP"
    <3>1. CASE p = main
      BY <1>13, <3>1 DEF Send, Line, SYNC, W
    <3>2. CASE p = parent  BY <1>13, <3>2 DEF Send
    <3>3. ASSUME NEW c \in Components, p = Handler(c) PROVE Line(op[p]).cmnd # "STOP"
      BY <1>13, <3>3, Lines DEF Send
    <3> QED  BY <3>1, <3>2, <3>3
  <2>3. \A c \in Components \ {k[p]} : ins'[c] = ins[c]  BY <1>13, <2>1 DEF Send
  <2>4. ins'[k[p]] = Append(ins[k[p]], Line(op[p]))  BY <1>13, <2>1 DEF Send
  <2>5. ins[k[p]] \in Seq(InLine)  BY <2>1
  <2>6. \A i \in DOMAIN ins'[k[p]] :
          ins'[k[p]][i] = Line(op[p]) \/ (i \in DOMAIN ins[k[p]] /\ ins'[k[p]][i] = ins[k[p]][i])
    BY <2>4, <2>5
  <2>7. pc[main] # "exit" =>
          \A c \in Components : \A i \in DOMAIN ins'[c] : ins'[c][i].cmnd # "STOP"
    <3> SUFFICES ASSUME pc[main] # "exit", NEW c \in Components, NEW i \in DOMAIN ins'[c]
                 PROVE  ins'[c][i].cmnd # "STOP"
      OBVIOUS
    <3>1. \A d \in Components : \A j \in DOMAIN ins[d] : ins[d][j].cmnd # "STOP"  OBVIOUS
    <3> HIDE DEF Types, ControlTypes, PipeTypes, MainAt, ParentAt, HandlerAt, Life
    <3>2. CASE c = k[p]
      <4>1. ins'[c][i] = Line(op[p]) \/ (i \in DOMAIN ins[c] /\ ins'[c][i] = ins[c][i])
        BY <3>2, <2>6
      <4> QED  BY <4>1, <3>1, <2>2
    <3>3. CASE c # k[p]  BY <3>1, <3>3, <2>3
    <3> QED  BY <3>2, <3>3
  <2>8. /\ pc' = pc /\ alive' = alive /\ signalled' = signalled /\ destroyed' = destroyed
        /\ pc[main] = "fork" => k'[main] = k[main]
    BY <1>13 DEF Send, shared, comps
  <2> QED  BY <2>7, <2>8
<1>14. ASSUME NEW p \in Procs, FreeOuts(p) PROVE Life'
  BY <1>14 DEF FreeOuts, shared, comps
<1>15. ASSUME NEW p \in Procs, SemopFails(p) PROVE Life'
  BY <1>15 DEF SemopFails, Exit, shared, comps
<1>16. ASSUME NEW c \in Components, ReadLine(c) PROVE Life'
  BY <1>16 DEF ReadLine, shared, comps
<1>17. ASSUME NEW c \in Components, CountDown(c) PROVE Life'
  BY <1>17 DEF CountDown, shared, comps
<1>18. ASSUME NEW c \in Components, EndOfFile(c) PROVE Life'
  BY <1>18 DEF EndOfFile, shared, comps
<1>19. ASSUME NEW c \in Components, Killed(c) PROVE Life'
  BY <1>19 DEF Killed, Exit, shared, comps
<1>20. ASSUME NEW c \in Components, Take(c) PROVE Life'
  BY <1>20 DEF Take, shared, comps
<1>21. ASSUME NEW c \in Components, Put(c) PROVE Life'
  BY <1>21 DEF Put, shared, comps
<1>22. CASE Wait
  BY <1>22 DEF Wait, shared, comps
<1>23. CASE Destroy
  BY <1>23 DEF Destroy, shared, comps
<1>24. CASE UNCHANGED vars  BY <1>24 DEF vars, shared, comps
<1> QED
  BY <1>1, <1>2, <1>3, <1>4, <1>5, <1>6, <1>7, <1>8, <1>9, <1>10, <1>11, <1>12, <1>13,
     <1>14, <1>15, <1>16, <1>17, <1>18, <1>19, <1>20, <1>21, <1>22, <1>23, <1>24
  DEF Next, MainStep, ProcStep, HandlerStep, ComponentStep

LEMMA LifeCorrect == Spec => []Life
<1>1. Init => Life
  BY ProcsAre DEF Init, Life
<1> QED  BY <1>1, LifeNext, TypesCorrect, PTL DEF Spec

-----------------------------------------------------------------------------
(* Agree is an invariant.                                                  *)

LEMMA PendingHolds ==
  ASSUME Types, NEW p \in Procs, NEW c \in Components, NEW q, Pending(p, c, q)
  PROVE  HoldsRegs(p)
BY DEF Pending, HoldsRegs

LEMMA AgreeFrame ==
  ASSUME Agree, UNCHANGED <<regs, view, ins>>, signalled' = signalled, destroyed' = destroyed,
         \A p \in Procs, c \in Components, q \in Ports :
           /\ Pending(p, c, q)' <=> Pending(p, c, q)
           /\ Pending(p, c, q) => op'[p].val = op[p].val
  PROVE  Agree'
BY DEF Agree, Learns

LEMMA AgreeNext == Types /\ Locks /\ Agree /\ [Next]_vars => Agree'
<1> SUFFICES ASSUME Types, Locks, Agree, [Next]_vars PROVE Agree'  OBVIOUS
<1> USE ProcsAre DEF Types, ControlTypes, MainAt, ParentAt, HandlerAt
<1>1. CASE Fork
  <2>1. k[main] \in Components  BY <1>1, Basics DEF Fork, Components
  <2>2. pc[Handler(k[main])] \in {"unborn", "exit"}  BY <1>1, <2>1, WireTypes DEF Fork
  <2>3. \A p \in Procs : op'[p] = op[p] /\ (p # main => k'[p] = k[p])
                         /\ (p # Handler(k[main]) => pc'[p] = pc[p])
    BY <1>1, <2>1 DEF Fork, Goto
  <2>4. pc'[Handler(k[main])] = "idle"  BY <1>1, <2>1 DEF Fork, Goto
  <2>5. \A p \in Procs, c \in Components, q \in Ports : Pending(p, c, q)' <=> Pending(p, c, q)
    BY <1>1, <2>1, <2>2, <2>3, <2>4 DEF Fork, Pending
  <2> QED  BY <1>1, <2>3, <2>5, AgreeFrame DEF Fork, shared
<1>2. CASE Started
  BY <1>2, AgreeFrame, Basics, WireTypes DEF Started, Goto, Pending, shared, comps
<1>3. CASE SetCounter
  BY <1>3, AgreeFrame, Basics, WireTypes DEF SetCounter, Goto, Pending, shared, comps
<1>4. CASE Await
  BY <1>4, AgreeFrame, Basics, WireTypes DEF Await, Goto, Pending, shared, comps
<1>5. CASE ReadRegs
  BY <1>5, AgreeFrame, Basics, WireTypes DEF ReadRegs, Goto, Pending, shared, comps
<1>6. CASE ReadDone
  BY <1>6, AgreeFrame, Basics, WireTypes DEF ReadDone, Finish, Goto, Pending, shared, comps
<1>7. ASSUME NEW o \in Operations, Access(o) PROVE Agree'
  BY <1>7, AgreeFrame, Basics, WireTypes DEF Access, Goto, Pending, shared, comps
<1>8. CASE ProgramEnds
  BY <1>8, AgreeFrame, Basics, WireTypes DEF ProgramEnds, Goto, Pending, shared, comps
<1>9. ASSUME NEW p \in Procs, LockSync(p) PROVE Agree'
  BY <1>9, AgreeFrame, Basics, WireTypes DEF LockSync, Goto, Pending, shared, comps
<1>10. ASSUME NEW p \in Procs, Update(p) PROVE Agree'
  <2> SUFFICES ASSUME ~ signalled', ~ destroyed', NEW c \in Components, NEW q \in Ports
               PROVE  /\ (\A r \in Procs : ~ Pending(r, c, q)') => Learns(c, q)' = regs'[q]
                      /\ \A r \in Procs : Pending(r, c, q)' => regs'[q] = op'[r].val
    BY DEF Agree
  <2>1. \A r \in Procs : ~ HoldsRegs(r)  BY <1>10 DEF Update, P, Locks, RegsLock
  <2>2. \A r \in Procs : ~ Pending(r, c, q)  BY <2>1, PendingHolds
  <2>3. Learns(c, q) = regs[q]  BY <2>2, <1>10 DEF Agree, Update
  <2>4. Learns(c, q)' = Learns(c, q)  BY <1>10 DEF Update, Learns, comps
  <2>5. \A r \in Procs : op'[r] = op[r] /\ (r # p => ~ Pending(r, c, q)')
    BY <2>2, <1>10 DEF Update, Goto, Pending
  <2>6. CASE Changes(p) /\ op[p].cmnd # "T" /\ op[p].port = q
    <3>1. regs'[q] = op[p].val  BY <1>10, <2>6 DEF Update, DataTypes
    <3>2. Pending(p, c, q)'
      <4>1. op[p].cmnd \in {"W", "SET"}  BY <1>10, <2>6, Lines DEF Update
      <4>2. pc'[p] = "outs"  BY <1>10, <2>6 DEF Update, Goto
      <4> QED  BY <4>1, <4>2, <2>5, <2>6 DEF Pending
    <3> QED  BY <3>1, <3>2, <2>5
  <2>7. CASE ~ (Changes(p) /\ op[p].cmnd # "T" /\ op[p].port = q)
    <3>1. regs'[q] = regs[q]  BY <1>10, <2>7 DEF Update, DataTypes
    <3>2. ~ Pending(p, c, q)'
      <4>1. CASE ~ Changes(p)
        <5>1. pc'[p] = "free_regs"  BY <1>10, <4>1 DEF Update, Goto
        <5> QED  BY <5>1 DEF Pending
      <4>2. CASE Changes(p) /\ (op[p].cmnd = "T" \/ op[p].port # q)
        BY <4>2, <2>5 DEF Pending
      <4> QED  BY <4>1, <4>2, <2>7
    <3> QED  BY <3>1, <3>2, <2>3, <2>4, <2>5
  <2> QED  BY <2>6, <2>7
<1>11. ASSUME NEW p \in Procs, FreeRegs(p) PROVE Agree'
  BY <1>11, AgreeFrame, Basics, WireTypes DEF FreeRegs, Finish, Goto, Pending, shared, comps
<1>12. ASSUME NEW p \in Procs, LockOuts(p) PROVE Agree'
  BY <1>12, AgreeFrame, Basics, WireTypes DEF LockOuts, Goto, Pending, shared, comps
<1>13. ASSUME NEW p \in Procs, Send(p) PROVE Agree'
  <2> SUFFICES ASSUME ~ signalled', ~ destroyed', NEW c \in Components, NEW q \in Ports
               PROVE  /\ (\A r \in Procs : ~ Pending(r, c, q)') => Learns(c, q)' = regs'[q]
                      /\ \A r \in Procs : Pending(r, c, q)' => regs'[q] = op'[r].val
    BY DEF Agree
  <2>1. /\ (\A r \in Procs : ~ Pending(r, c, q)) => Learns(c, q) = regs[q]
        /\ \A r \in Procs : Pending(r, c, q) => regs[q] = op[r].val
    BY <1>13 DEF Agree, Send, shared
  <2>2. \A r \in Procs : r # p => (Pending(r, c, q)' <=> Pending(r, c, q))
    BY <1>13 DEF Send, Pending
  <2>3. regs' = regs /\ op' = op /\ view' = view  BY <1>13 DEF Send, shared, comps
  <2>4. k[p] \in Nat /\ k'[p] = k[p] + 1  BY <1>13 DEF Send
  <2>5. Pending(p, c, q)' => Pending(p, c, q)
    BY <1>13, <2>4, WireTypes DEF Send, Pending
  <2>6. CASE c # k[p]
    <3>1. Pending(p, c, q)' <=> Pending(p, c, q)
      BY <1>13, <2>4, <2>6, WireTypes DEF Send, Pending
    <3>2. Learns(c, q)' = Learns(c, q)  BY <1>13, <2>6 DEF Send, Learns, comps
    <3> QED  BY <3>1, <3>2, <2>1, <2>2, <2>3
  <2>7. CASE c = k[p]
    <3>1. ~ Pending(p, c, q)'  BY <1>13, <2>4, <2>7 DEF Send, Pending
    <3>2. Line(op[p]) \in InLine
      <4>1. CASE p = main  BY <1>13, <4>1, Lines DEF Send
      <4>2. CASE p = parent  BY <1>13, <4>2, Lines DEF Send
      <4>3. ASSUME NEW d \in Components, p = Handler(d) PROVE Line(op[p]) \in InLine
        BY <1>13, <4>3, Lines DEF Send
      <4> QED  BY <4>1, <4>2, <4>3
    <3>3. ins'[c] = Append(ins[c], Line(op[p])) /\ ins[c] \in Seq(InLine)
      BY <1>13, <2>7 DEF Send, PipeTypes
    <3>4. Learns(c, q)' = IF Line(op[p]).cmnd = "W" /\ Line(op[p]).port = q
                          THEN Line(op[p]).val ELSE Learns(c, q)
      BY <3>2, <3>3, <2>3, KnownAppend DEF Learns
    <3>5. CASE op[p].cmnd \in {"W", "SET"} /\ op[p].port = q
      <4>1. Pending(p, c, q)  BY <1>13, <3>5, <2>7, <2>4, WireTypes DEF Pending, Send
      <4>2. Line(op[p]).cmnd = "W" /\ Line(op[p]).port = q /\ Line(op[p]).val = op[p].val
        BY <3>5 DEF Line, W
      <4>3. Learns(c, q)' = regs[q]  BY <4>1, <4>2, <3>4, <2>1
      <4> QED  BY <4>3, <3>1, <2>1, <2>2, <2>3
    <3>6. CASE ~ (op[p].cmnd \in {"W", "SET"} /\ op[p].port = q)
      <4>1. ~ Pending(p, c, q)  BY <3>6 DEF Pending
      <4>2. ~ (Line(op[p]).cmnd = "W" /\ Line(op[p]).port = q)
        BY <3>6 DEF Line, SYNC, W
      <4> QED  BY <4>1, <4>2, <3>1, <3>4, <2>1, <2>2, <2>3
    <3> QED  BY <3>5, <3>6
  <2> QED  BY <2>6, <2>7
<1>14. ASSUME NEW p \in Procs, FreeOuts(p) PROVE Agree'
  BY <1>14, AgreeFrame, Basics, WireTypes DEF FreeOuts, Goto, Pending, shared, comps
<1>15. ASSUME NEW p \in Procs, SemopFails(p) PROVE Agree'
  BY <1>15 DEF SemopFails, shared, Agree
<1>16. ASSUME NEW c \in Components, ReadLine(c) PROVE Agree'
  BY <1>16, AgreeFrame, Basics, WireTypes DEF ReadLine, Goto, Pending, shared, comps
<1>17. ASSUME NEW c \in Components, CountDown(c) PROVE Agree'
  BY <1>17, AgreeFrame, Basics, WireTypes DEF CountDown, Goto, Pending, shared, comps
<1>18. ASSUME NEW c \in Components, EndOfFile(c) PROVE Agree'
  BY <1>18 DEF EndOfFile, Agree
<1>19. ASSUME NEW c \in Components, Killed(c) PROVE Agree'
  BY <1>19 DEF Killed, shared, Agree
<1>20. ASSUME NEW c \in Components, Take(c) PROVE Agree'
  <2>1. \A d \in Components, q \in Ports : Learns(d, q)' = Learns(d, q)
    <3> SUFFICES ASSUME NEW d \in Components, NEW q \in Ports
                 PROVE  Learns(d, q)' = Learns(d, q)
      OBVIOUS
    <3>1. CASE d # c  BY <1>20, <3>1 DEF Take, Learns
    <3>2. CASE d = c
      <4>1. ins[c] \in Seq(InLine) /\ ins[c] # <<>> /\ ins'[c] = Tail(ins[c])
        BY <1>20 DEF Take, PipeTypes
      <4>2. view'[c][q] = IF Head(ins[c]).cmnd = "W" /\ Head(ins[c]).port = q
                          THEN Head(ins[c]).val ELSE view[c][q]
        BY <1>20 DEF Take, PipeTypes
      <4> QED  BY <3>2, <4>1, <4>2, KnownTail DEF Learns
    <3> QED  BY <3>1, <3>2
  <2>2. \A r \in Procs, d \in Components, q \in Ports : Pending(r, d, q)' <=> Pending(r, d, q)
    BY <1>20 DEF Take, Pending
  <2> QED  BY <1>20, <2>1, <2>2 DEF Agree, Take, shared
<1>21. ASSUME NEW c \in Components, Put(c) PROVE Agree'
  BY <1>21, AgreeFrame, Basics, WireTypes DEF Put, Goto, Pending, shared, comps
<1>22. CASE Wait
  BY <1>22, AgreeFrame, Basics, WireTypes DEF Wait, STOP, Goto, Pending, shared, comps
<1>23. CASE Destroy
  BY <1>23 DEF Destroy, Agree
<1>24. CASE UNCHANGED vars  BY <1>24, AgreeFrame DEF vars, shared, comps, Pending
<1> QED
  BY <1>1, <1>2, <1>3, <1>4, <1>5, <1>6, <1>7, <1>8, <1>9, <1>10, <1>11, <1>12, <1>13,
     <1>14, <1>15, <1>16, <1>17, <1>18, <1>19, <1>20, <1>21, <1>22, <1>23, <1>24
  DEF Next, MainStep, ProcStep, HandlerStep, ComponentStep

LEMMA AgreeCorrect == Spec => []Agree
<1>1. Init => Agree
  <2> SUFFICES ASSUME Init, NEW c \in Components, NEW q \in Ports
               PROVE  Learns(c, q) = regs[q] /\ \A p \in Procs : ~ Pending(p, c, q)
    BY DEF Agree
  <2>1. ins[c] = <<>> /\ view[c][q] = 0 /\ regs[q] = 0  BY DEF Init
  <2>2. Learns(c, q) = 0  BY <2>1 DEF Learns, Known, Writes
  <2> QED  BY <2>1, <2>2 DEF Init, Pending
<1> QED  BY <1>1, AgreeNext, TypesCorrect, LocksCorrect, PTL DEF Spec

\* Main and the handlers write ports and send what they wrote, and a component that
\* has read all its lines knows the ports as they are, whatever the number of
\* components, their wiring, and the size of the pipes (indep-sf-regs.c:219-257,
\* 398-463): nobody who holds sem_regs is between the write and the send.
THEOREM AgreementCorrect == Spec => []ComponentsAgree
<1>1. Types /\ Locks /\ Agree => ComponentsAgree
  <2> SUFFICES ASSUME Types, Locks, Agree, sem_regs > 0, ~ signalled, ~ destroyed,
                      NEW c \in Components, NEW q \in Ports
               PROVE  Known(view[c][q], q, ins[c]) = regs[q]
    BY DEF ComponentsAgree
  <2>1. \A p \in Procs : ~ Pending(p, c, q)  BY PendingHolds DEF Locks, RegsLock
  <2> QED  BY <2>1 DEF Agree, Learns
<1> QED  BY <1>1, TypesCorrect, LocksCorrect, AgreeCorrect, PTL

-----------------------------------------------------------------------------
(* Tokens is an invariant.                                                 *)

LEMMA AtAppend ==
  ASSUME NEW X, NEW lines \in Seq(X), NEW l \in X, NEW kind
  PROVE  At(kind, Append(lines, l)) =
           IF l.cmnd = kind THEN At(kind, lines) \cup {Len(lines) + 1} ELSE At(kind, lines)
<1> DEFINE L == Append(lines, l)
<1>1. /\ L[Len(lines) + 1] = l /\ \A i \in 1 .. Len(lines) : L[i] = lines[i]
      /\ Len(lines) \in Nat /\ DOMAIN L = 1 .. Len(lines) + 1 /\ DOMAIN lines = 1 .. Len(lines)
  OBVIOUS
<1> HIDE DEF L
<1>2. CASE l.cmnd = kind
  <2>1. At(kind, L) = At(kind, lines) \cup {Len(lines) + 1}  BY <1>1, <1>2 DEF At
  <2> QED  BY <2>1, <1>2 DEF L
<1>3. CASE l.cmnd # kind
  <2>1. At(kind, L) = At(kind, lines)  BY <1>1, <1>3 DEF At
  <2> QED  BY <2>1, <1>3 DEF L
<1> QED  BY <1>2, <1>3

LEMMA AtTail ==
  ASSUME NEW X, NEW lines \in Seq(X), lines # <<>>, NEW kind
  PROVE  /\ \A i \in At(kind, Tail(lines)) : i \in Nat \ {0} /\ i + 1 \in At(kind, lines)
         /\ \A i \in At(kind, lines) : i \in Nat \ {0} /\ (i # 1 => i - 1 \in At(kind, Tail(lines)))
         /\ 1 \in At(kind, lines) <=> Head(lines).cmnd = kind
<1> DEFINE T == Tail(lines)
<1>1. /\ Len(lines) \in Nat \ {0} /\ Head(lines) = lines[1]
      /\ \A i \in 1 .. Len(lines) - 1 : T[i] = lines[i + 1]
      /\ DOMAIN T = 1 .. Len(lines) - 1 /\ DOMAIN lines = 1 .. Len(lines)
  OBVIOUS
<1> HIDE DEF T
<1>2. \A i \in At(kind, T) : i \in Nat \ {0} /\ i + 1 \in At(kind, lines)  BY <1>1 DEF At
<1>3. ASSUME NEW i \in At(kind, lines)
      PROVE  i \in Nat \ {0} /\ (i # 1 => i - 1 \in At(kind, T))
  <2>1. i \in 1 .. Len(lines) /\ lines[i].cmnd = kind  BY <1>1 DEF At
  <2>2. i # 1 => i - 1 \in 1 .. Len(lines) - 1 /\ (i - 1) + 1 = i  BY <2>1, <1>1
  <2> QED  BY <1>1, <2>1, <2>2 DEF At
<1>4. 1 \in At(kind, lines) <=> Head(lines).cmnd = kind  BY <1>1 DEF At
<1> QED  BY <1>2, <1>3, <1>4 DEF T

LEMMA PrintedTypes ==
  ASSUME Types, NEW c \in Components
  PROVE  /\ Printed(c) \in Seq(OutLine(c))
         /\ todo[c] = <<>> => Printed(c) = outs[c]
         /\ \A l \in OutLine(c) : outs[c] \o <<l>> = Append(outs[c], l)
         /\ outs[c] # <<>> =>
              /\ Printed(c) # <<>> /\ Head(Printed(c)) = Head(outs[c])
              /\ Tail(Printed(c)) = Tail(outs[c]) \o todo[c]
<1> DEFINE X == OutLine(c)
<1>1. outs[c] \in Seq(X) /\ (todo[c] = <<>> \/ \E l \in X : todo[c] = <<l>>)
  BY DEF Types, PipeTypes
<1> HIDE DEF X
<1>2. Printed(c) \in Seq(X)
  <2>1. <<>> \in Seq(X) /\ \A l \in X : <<l>> \in Seq(X)  OBVIOUS
  <2>2. todo[c] \in Seq(X)  BY <1>1, <2>1
  <2> QED  BY <1>1, <2>2 DEF Printed
<1>3. todo[c] = <<>> => Printed(c) = outs[c]  BY <1>1 DEF Printed
<1>4. \A l \in X : outs[c] \o <<l>> = Append(outs[c], l)  BY <1>1
<1>5. ASSUME outs[c] # <<>>
      PROVE  /\ Printed(c) # <<>> /\ Head(Printed(c)) = Head(outs[c])
             /\ Tail(Printed(c)) = Tail(outs[c]) \o todo[c]
  <2>1. CASE todo[c] = <<>>
    <3>1. Printed(c) = outs[c] /\ Tail(outs[c]) \o <<>> = Tail(outs[c])
      BY <1>1, <1>5, <2>1 DEF Printed
    <3> QED  BY <3>1, <1>5, <2>1
  <2>2. ASSUME NEW l \in X, todo[c] = <<l>>
        PROVE  /\ Printed(c) # <<>> /\ Head(Printed(c)) = Head(outs[c])
               /\ Tail(Printed(c)) = Tail(outs[c]) \o todo[c]
    <3>1. Printed(c) = Append(outs[c], l)  BY <1>4, <2>2 DEF Printed
    <3>2. Tail(outs[c]) \in Seq(X) /\ Tail(outs[c]) \o <<l>> = Append(Tail(outs[c]), l)
      BY <1>1, <1>5
    <3>4. outs[c] \in Seq(X) /\ outs[c] # <<>>  BY <1>1, <1>5
    <3>3. Head(Append(outs[c], l)) = Head(outs[c])
          /\ Tail(Append(outs[c], l)) = Append(Tail(outs[c]), l)
          /\ Append(outs[c], l) # <<>>
      <4>1. Append(outs[c], l) # <<>>  BY <3>4
      <4> QED  BY <3>4, <4>1, HeadTailAppend
    <3> QED  BY <3>1, <3>2, <3>3, <2>2
  <2> QED  BY <1>1, <2>1, <2>2
<1> QED  BY <1>2, <1>3, <1>4, <1>5 DEF X

LEMMA OwingFinite == IsFiniteSet(Owing) /\ Cardinality(Owing) \in Nat
<1>1. IsFiniteSet(Components)  BY Basics, FS_Interval DEF Components
<1>2. Owing \subseteq Components  BY DEF Owing
<1> QED  BY <1>1, <1>2, FS_Subset, FS_CardinalityType

LEMMA TokensFrame ==
  ASSUME Tokens, UNCHANGED <<ins, outs, todo, sync_counter, sem_done>>,
         Reading' <=> Reading,
         \A c \in Components : (Handled(c)' <=> Handled(c)) /\ (NotSent(c)' <=> NotSent(c))
  PROVE  Tokens'
<1>1. \A c \in Components :
        /\ SyncIn(c)' <=> SyncIn(c)
        /\ DoneIn(c)' <=> DoneIn(c)
        /\ OneToken(c)' <=> OneToken(c)
        /\ Token(c)' <=> Token(c)
  BY DEF SyncIn, DoneIn, OneToken, Token, Printed
<1>2. Owing' = Owing  BY <1>1 DEF Owing
<1> QED  BY <1>1, <1>2 DEF Tokens

\* Only component c changes, and it owes what it owed.
LEMMA TokensMove ==
  ASSUME Tokens, NEW c \in Components, UNCHANGED <<sync_counter, sem_done>>,
         Reading' <=> Reading,
         \A d \in Components \ {c} :
           /\ ins'[d] = ins[d] /\ outs'[d] = outs[d] /\ todo'[d] = todo[d]
           /\ (Handled(d)' <=> Handled(d)) /\ (NotSent(d)' <=> NotSent(d)),
         (NotSent(c) \/ Token(c))' <=> (NotSent(c) \/ Token(c)),
         Token(c)' => ~ NotSent(c)',
         OneToken(c)'
  PROVE  Tokens'
<1>1. \A d \in Components \ {c} :
        /\ SyncIn(d)' <=> SyncIn(d)
        /\ DoneIn(d)' <=> DoneIn(d)
        /\ OneToken(d)' <=> OneToken(d)
        /\ Token(d)' <=> Token(d)
  BY DEF SyncIn, DoneIn, OneToken, Token, Printed
<1>2. Owing' = Owing  BY <1>1 DEF Owing
<1>3. Token(c)' => Reading'
  <2>1. NotSent(c) => Reading  BY DEF NotSent
  <2> QED  BY <2>1 DEF Tokens
<1> QED  BY <1>1, <1>2, <1>3 DEF Tokens

LEMMA AtHead ==
  ASSUME NEW X, NEW lines \in Seq(X), lines # <<>>, NEW kind,
         \A i, j \in At(kind, lines) : i = j
  PROVE  /\ \A i, j \in At(kind, Tail(lines)) : i = j
         /\ Head(lines).cmnd = kind => At(kind, Tail(lines)) = {} /\ At(kind, lines) # {}
         /\ Head(lines).cmnd # kind => (At(kind, Tail(lines)) = {} <=> At(kind, lines) = {})
<1>1. /\ \A i \in At(kind, Tail(lines)) : i \in Nat \ {0} /\ i + 1 \in At(kind, lines)
      /\ \A i \in At(kind, lines) : i # 1 => i - 1 \in At(kind, Tail(lines))
      /\ 1 \in At(kind, lines) <=> Head(lines).cmnd = kind
  BY AtTail
<1>2. \A i, j \in At(kind, Tail(lines)) : i = j
  <2> TAKE i, j \in At(kind, Tail(lines))
  <2>1. i + 1 = j + 1 /\ i \in Nat /\ j \in Nat  BY <1>1
  <2> QED  BY <2>1
<1>3. ASSUME Head(lines).cmnd = kind PROVE At(kind, Tail(lines)) = {}
  <2> SUFFICES ASSUME NEW i \in At(kind, Tail(lines)) PROVE FALSE  OBVIOUS
  <2>1. i + 1 = 1 /\ i \in Nat \ {0}  BY <1>1, <1>3
  <2> QED  BY <2>1
<1> QED  BY <1>1, <1>2, <1>3

\* Before main has ended nothing dies; afterwards no token is left.
LEMMA NoTokens ==
  ASSUME Tokens, ~ Reading
  PROVE  sync_counter = 0 /\ sem_done = 0 /\ \A c \in Components : ~ Token(c) /\ ~ NotSent(c)
<1>1. \A c \in Components : ~ Token(c) /\ ~ NotSent(c)  BY DEF Tokens, NotSent
<1>2. Owing = {}  BY <1>1 DEF Owing
<1> QED  BY <1>1, <1>2, FS_EmptySet DEF Tokens

LEMMA TokensNext == Types /\ Life /\ Tokens /\ [Next]_vars => Tokens'
<1> SUFFICES ASSUME Types, Life, Tokens, [Next]_vars PROVE Tokens'  OBVIOUS
<1> USE ProcsAre DEF Types, ControlTypes, MainAt, ParentAt, HandlerAt
<1>1. CASE Fork
  <2>1. k[main] \in Components  BY <1>1, Basics DEF Fork, Components
  <2>2. pc[Handler(k[main])] \in {"unborn", "exit"}  BY <1>1, <2>1, WireTypes DEF Fork
  <2>3. pc'[Handler(k[main])] = "idle" /\ pc'[main] = "fork" /\ pc[main] = "fork"
        /\ \A d \in Components : d # k[main] => pc'[Handler(d)] = pc[Handler(d)]
    BY <1>1, <2>1 DEF Fork, Goto
  <2>4. ~ Reading /\ ~ Reading' /\ \A d \in Components : Handled(d)' <=> Handled(d)
    BY <2>2, <2>3 DEF Reading, Handled
  <2>5. \A d \in Components : ~ NotSent(d) /\ ~ NotSent(d)'  BY <2>4 DEF NotSent
  <2> QED  BY <1>1, <2>4, <2>5, TokensFrame DEF Fork, shared
<1>2. CASE Started
  BY <1>2, TokensFrame, WireTypes, Basics DEF Started, Goto, P, V, Reading, NotSent, Handled, shared, comps
<1>3. CASE SetCounter
  <2>1. ~ Reading /\ Reading'  BY <1>3 DEF SetCounter, Goto, Reading
  <2>2. \A c \in Components : ~ Token(c)  BY <2>1, NoTokens
  <2>3. \A c \in Components : NotSent(c)' /\ ~ Token(c)' /\ OneToken(c)'
    BY <1>3, <2>1, <2>2
    DEF SetCounter, Goto, NotSent, Token, SyncIn, DoneIn, Handled, OneToken, Printed, comps
  <2>4. Owing' = Components  BY <2>3 DEF Owing
  <2>5. sync_counter' = Cardinality(Owing')  BY <1>3, <2>4, Basics, FS_Interval DEF SetCounter, Components
  <2>6. NbProc # 0
    <3>1. op[main].port \in Ports  BY <1>3 DEF SetCounter, MainOps
    <3> QED  BY <3>1, Basics DEF Ports, Components
  <2>7. sem_done' = 0  BY <1>3, <2>1, NoTokens DEF SetCounter
  <2> QED  BY <1>3, <2>1, <2>3, <2>5, <2>6, <2>7 DEF SetCounter, Tokens
<1>4. CASE Await
  <2>1. Reading /\ sync_counter = 0 /\ sem_done = 1  BY <1>4 DEF Await, P, Tokens
  <2>2. Owing = {}  BY <2>1, OwingFinite, FS_EmptySet DEF Tokens
  <2>3. ~ Reading'  BY <1>4 DEF Await, Goto, Reading
  <2>4. \A c \in Components : ~ Token(c)' /\ OneToken(c)' /\ ~ NotSent(c)'
    BY <1>4, <2>2, <2>3
    DEF Await, Goto, Owing, NotSent, Token, SyncIn, DoneIn, Handled, OneToken, Printed, Tokens, comps
  <2>5. Owing' = {}  BY <2>4 DEF Owing
  <2>6. sync_counter' = Cardinality(Owing') /\ sem_done' = 0
    BY <1>4, <2>1, <2>5, FS_EmptySet DEF Await, P
  <2> QED  BY <2>3, <2>4, <2>6 DEF Tokens
<1>5. CASE ReadRegs
  BY <1>5, TokensFrame, WireTypes, Basics DEF ReadRegs, Goto, P, V, Reading, NotSent, Handled, shared, comps
<1>6. CASE ReadDone
  BY <1>6, TokensFrame, WireTypes, Basics DEF ReadDone, Finish, Goto, P, V, Reading, NotSent, Handled, shared, comps
<1>7. ASSUME NEW o \in Operations, Access(o) PROVE Tokens'
  BY <1>7, TokensFrame, WireTypes, Basics DEF Access, Goto, P, V, Reading, NotSent, Handled, shared, comps
<1>8. CASE ProgramEnds
  BY <1>8, TokensFrame, WireTypes, Basics DEF ProgramEnds, Goto, P, V, Reading, NotSent, Handled, shared, comps
<1>9. ASSUME NEW p \in Procs, LockSync(p) PROVE Tokens'
  BY <1>9, TokensFrame, WireTypes, Basics DEF LockSync, Goto, P, V, Reading, NotSent, Handled, shared, comps
<1>10. ASSUME NEW p \in Procs, Update(p) PROVE Tokens'
  BY <1>10, TokensFrame, WireTypes, Basics DEF Update, Goto, P, V, Reading, NotSent, Handled, shared, comps
<1>11. ASSUME NEW p \in Procs, FreeRegs(p) PROVE Tokens'
  BY <1>11, TokensFrame, WireTypes, Basics DEF FreeRegs, Finish, Goto, P, V, Reading, NotSent, Handled, shared, comps
<1>12. ASSUME NEW p \in Procs, LockOuts(p) PROVE Tokens'
  BY <1>12, TokensFrame, WireTypes, Basics DEF LockOuts, Goto, P, V, Reading, NotSent, Handled, shared, comps
<1>13. ASSUME NEW p \in Procs, Send(p) PROVE Tokens'
  <2>0. k[p] \in Components  BY <1>13, Basics DEF Send, Components
  <2>1. PICK c \in Components : c = k[p]  BY <2>0
  <2> DEFINE l == Line(op[p])
  <2>2. l \in InLine
    <3>1. CASE p = main  BY <1>13, <3>1, Lines DEF Send
    <3>2. CASE p = parent  BY <1>13, <3>2, Lines DEF Send
    <3>3. ASSUME NEW d \in Components, p = Handler(d) PROVE l \in InLine
      BY <1>13, <3>3, Lines DEF Send
    <3> QED  BY <3>1, <3>2, <3>3
  <2>3. ins'[c] = Append(ins[c], l) /\ ins[c] \in Seq(InLine)
        /\ \A d \in Components \ {c} : ins'[d] = ins[d]
    BY <1>13, <2>1 DEF Send, PipeTypes
  <2>4. /\ outs' = outs /\ todo' = todo /\ op' = op /\ pc' = pc
        /\ sync_counter' = sync_counter /\ sem_done' = sem_done
        /\ k' = [k EXCEPT ![p] = k[p] + 1] /\ k[p] \in Nat /\ pc[p] = "send"
    BY <1>13 DEF Send, shared, comps
  <2>5. Reading' <=> Reading  BY <2>4 DEF Reading
  <2>6. \A d \in Components : (Handled(d)' <=> Handled(d)) /\ (DoneIn(d)' <=> DoneIn(d))
                            /\ Printed(d)' = Printed(d)
    BY <2>4 DEF Handled, DoneIn, Printed
  <2>7. \A d \in Components \ {c} : NotSent(d)' <=> NotSent(d)
    BY <2>1, <2>4, <2>5, WireTypes DEF NotSent
  <2> HIDE DEF l
  <2>8. CASE p = main /\ op[main].cmnd = "READ"
    <3>1. NotSent(c) /\ ~ NotSent(c)'
      BY <2>1, <2>4, <2>5, <2>8, WireTypes DEF NotSent, Reading
    <3>2. ~ Token(c) /\ OneToken(c)  BY <2>1, <3>1 DEF Tokens
    <3>3. l.cmnd = "SYNC"  BY <2>8 DEF l, Line, SYNC
    <3>4. At("SYNC", ins'[c]) = At("SYNC", ins[c]) \cup {Len(ins[c]) + 1}
      BY <2>2, <2>3, <3>3, AtAppend
    <3>5. SyncIn(c)' /\ \A i, j \in At("SYNC", ins'[c]) : i = j
      BY <3>2, <3>4 DEF SyncIn, Token
    <3>6. Token(c)' /\ OneToken(c)'
      BY <3>2, <3>5, <2>1, <2>6 DEF Token, OneToken, DoneIn
    <3> QED  BY <3>1, <3>6, <2>1, <2>3, <2>4, <2>5, <2>6, <2>7, TokensMove
  <2>9. CASE ~ (p = main /\ op[main].cmnd = "READ")
    <3>1. NotSent(c)' <=> NotSent(c)
      <4>1. CASE p = main  BY <2>9, <4>1, <2>5 DEF NotSent, Reading
      <4>2. CASE p # main  BY <2>4, <4>2, <2>5 DEF NotSent
      <4> QED  BY <4>1, <4>2
    <3>2. l.cmnd # "SYNC"
      <4>1. CASE p = main  BY <2>9, <4>1, <1>13 DEF Send, l, Line, W
      <4>2. CASE p = parent  BY <4>2, <1>13, Lines DEF Send, l, STOP
      <4>3. ASSUME NEW d \in Components, p = Handler(d) PROVE l.cmnd # "SYNC"
        BY <4>3, <1>13, Lines DEF Send, l
      <4> QED  BY <4>1, <4>2, <4>3
    <3>3. At("SYNC", ins'[c]) = At("SYNC", ins[c])  BY <2>2, <2>3, <3>2, AtAppend
    <3>4. Token(c)' <=> Token(c)  BY <3>3, <2>1, <2>6 DEF Token, SyncIn
    <3>5. OneToken(c)'  BY <3>3, <2>1, <2>6 DEF Tokens, OneToken, SyncIn
    <3>6. Token(c)' => ~ NotSent(c)'  BY <3>1, <3>4, <2>1 DEF Tokens
    <3> QED  BY <3>1, <3>4, <3>5, <3>6, <2>1, <2>3, <2>4, <2>5, <2>6, <2>7, TokensMove
  <2> QED  BY <2>8, <2>9
<1>14. ASSUME NEW p \in Procs, FreeOuts(p) PROVE Tokens'
  BY <1>14, TokensFrame, WireTypes, Basics DEF FreeOuts, Goto, P, V, Reading, NotSent, Handled, shared, comps
<1>15. ASSUME NEW p \in Procs, SemopFails(p) PROVE Tokens'
  <2>1. ~ Reading /\ ~ Reading'
    BY <1>15 DEF SemopFails, Life, shared, Exit, Goto, Reading
  <2>2. \A d \in Components : ~ NotSent(d) /\ ~ NotSent(d)' /\ ~ Handled(d)
    BY <2>1, NoTokens DEF NotSent, Token
  <2>3. \A d \in Components : ~ Handled(d)'  BY <1>15, <2>2 DEF SemopFails, Exit, Goto, Handled
  <2> QED  BY <1>15, <2>1, <2>2, <2>3, TokensFrame DEF SemopFails, shared, comps
<1>16. ASSUME NEW c \in Components, ReadLine(c) PROVE Tokens'
  <2> DEFINE h == Handler(c)
  <2>1. /\ pc[h] = "idle" /\ outs[c] # <<>> /\ outs'[c] = Tail(outs[c])
        /\ pc'[h] = IF Head(outs[c]).cmnd = "DONE" THEN "sync" ELSE "regs"
        /\ \A d \in Components \ {c} : outs'[d] = outs[d] /\ pc'[Handler(d)] = pc[Handler(d)]
        /\ pc'[main] = pc[main] /\ op'[main] = op[main] /\ k' = k
        /\ ins' = ins /\ todo' = todo /\ sync_counter' = sync_counter /\ sem_done' = sem_done
    BY <1>16 DEF ReadLine, Goto, PipeTypes, shared, comps
  <2>2. (Reading' <=> Reading) /\ \A d \in Components : NotSent(d)' <=> NotSent(d)
    BY <2>1 DEF Reading, NotSent
  <2>3. \A d \in Components \ {c} : Handled(d)' <=> Handled(d)  BY <2>1 DEF Handled
  <2>4. /\ Printed(c) \in Seq(OutLine(c)) /\ Printed(c) # <<>>
        /\ Head(Printed(c)) = Head(outs[c]) /\ Printed(c)' = Tail(Printed(c))
    BY <2>1, PrintedTypes DEF Printed
  <2>5. OneToken(c)  BY DEF Tokens
  <2>6. /\ \A i, j \in At("DONE", Printed(c)') : i = j
        /\ Head(outs[c]).cmnd = "DONE" => At("DONE", Printed(c)') = {} /\ At("DONE", Printed(c)) # {}
        /\ Head(outs[c]).cmnd # "DONE" =>
             (At("DONE", Printed(c)') = {} <=> At("DONE", Printed(c)) = {})
    <3>1. \A i, j \in At("DONE", Printed(c)) : i = j  BY <2>5 DEF OneToken
    <3> QED  BY <2>4, <3>1, AtHead
  <2>7. ~ Handled(c) /\ (Handled(c)' <=> Head(outs[c]).cmnd = "DONE") /\ (SyncIn(c)' <=> SyncIn(c))
    BY <2>1 DEF Handled, SyncIn
  <2>8. (Token(c)' <=> Token(c)) /\ OneToken(c)'
    BY <2>1, <2>5, <2>6, <2>7 DEF Token, OneToken, DoneIn
  <2>9. Token(c) => ~ NotSent(c)  BY DEF Tokens
  <2> QED  BY <2>1, <2>2, <2>3, <2>8, <2>9, TokensMove
<1>17. ASSUME NEW c \in Components, CountDown(c) PROVE Tokens'
  <2> DEFINE h == Handler(c)
  <2>1. /\ pc[h] = "count" /\ pc'[h] = "idle" /\ sync_counter' = sync_counter - 1
        /\ sem_done' = IF sync_counter' = 0 THEN sem_done + 1 ELSE sem_done
        /\ \A d \in Components \ {c} : pc'[Handler(d)] = pc[Handler(d)]
        /\ pc'[main] = pc[main] /\ op' = op /\ k' = k /\ ins' = ins /\ todo' = todo /\ outs' = outs
    BY <1>17 DEF CountDown, Goto, comps
  <2>2. (Reading' <=> Reading) /\ \A d \in Components : NotSent(d)' <=> NotSent(d)
    BY <2>1 DEF Reading, NotSent
  <2>3. \A d \in Components :
          /\ (SyncIn(d)' <=> SyncIn(d)) /\ (DoneIn(d)' <=> DoneIn(d))
          /\ d # c => (Handled(d)' <=> Handled(d))
    BY <2>1 DEF SyncIn, DoneIn, Printed, Handled
  <2>4. Token(c) /\ ~ Token(c)' /\ ~ NotSent(c) /\ Reading
    <3>1. Handled(c) /\ ~ Handled(c)'  BY <2>1 DEF Handled
    <3>2. ~ SyncIn(c) /\ ~ DoneIn(c)  BY <3>1 DEF Tokens, OneToken
    <3> QED  BY <3>1, <3>2, <2>3 DEF Token, Tokens
  <2>5. Owing' = Owing \ {c} /\ c \in Owing  BY <2>2, <2>3, <2>4 DEF Owing, Token
  <2>6. Cardinality(Owing') = Cardinality(Owing) - 1  BY <2>5, OwingFinite, FS_RemoveElement
  <2>7. \A d \in Components : OneToken(d)'
    BY <2>1, <2>3, <2>4 DEF Tokens, OneToken, Token, Printed
  <2>8. \A d \in Components : Token(d)' => Reading' /\ ~ NotSent(d)'
    BY <2>2, <2>3, <2>4 DEF Tokens, Token
  <2>9. sync_counter = Cardinality(Owing) /\ sync_counter # 0
    BY <2>5, OwingFinite, FS_EmptySet DEF Tokens
  <2>10. sync_counter' = Cardinality(Owing')  BY <2>1, <2>6, <2>9
  <2>11. sem_done' = IF Reading' /\ sync_counter' = 0 THEN 1 ELSE 0
    <3>1. sem_done = 0  BY <2>4, <2>9 DEF Tokens
    <3> QED  BY <3>1, <2>1, <2>2, <2>4
  <2> QED  BY <2>7, <2>8, <2>10, <2>11 DEF Tokens
<1>18. ASSUME NEW c \in Components, EndOfFile(c) PROVE Tokens'
  BY <1>18, TokensFrame, WireTypes, Basics DEF EndOfFile, Goto, P, V, Reading, NotSent, Handled, shared, comps
<1>19. ASSUME NEW c \in Components, Killed(c) PROVE Tokens'
  <2>1. ~ Reading /\ ~ Reading'
    BY <1>19 DEF Killed, Life, shared, Exit, Goto, Reading
  <2>2. \A d \in Components : ~ NotSent(d) /\ ~ NotSent(d)' /\ ~ Handled(d)
    BY <2>1, NoTokens DEF NotSent, Token
  <2>3. \A d \in Components : ~ Handled(d)'  BY <1>19, <2>2 DEF Killed, Exit, Goto, Handled
  <2> QED  BY <1>19, <2>1, <2>2, <2>3, TokensFrame DEF Killed, shared, comps
<1>20. ASSUME NEW c \in Components, Take(c) PROVE Tokens'
  <2> DEFINE line == Head(ins[c])
  <2>1. /\ ins[c] # <<>> /\ ins'[c] = Tail(ins[c]) /\ todo[c] = <<>>
        /\ todo'[c] = IF line.cmnd = "SYNC" THEN <<DONE>>
                      ELSE IF line.cmnd = "W" /\ line.port = Wire[c][1]
                           THEN <<W(Wire[c][2], line.val)>> ELSE <<>>
        /\ \A d \in Components \ {c} : ins'[d] = ins[d] /\ todo'[d] = todo[d]
        /\ pc' = pc /\ op' = op /\ k' = k /\ outs' = outs
        /\ sync_counter' = sync_counter /\ sem_done' = sem_done
    BY <1>20 DEF Take, PipeTypes, shared
  <2>2. (Reading' <=> Reading)
        /\ \A d \in Components : (NotSent(d)' <=> NotSent(d)) /\ (Handled(d)' <=> Handled(d))
    BY <2>1 DEF Reading, NotSent, Handled
  <2>3. OneToken(c) /\ (Token(c) => ~ NotSent(c))  BY DEF Tokens
  <2>4. ins[c] \in Seq(InLine) /\ line.val \in Values
    <3>1. ins[c] \in Seq(InLine)  BY DEF PipeTypes
    <3>2. line \in InLine  BY <3>1, <2>1
    <3> QED  BY <3>1, <3>2 DEF InLine
  <2> HIDE DEF line
  <2>5. /\ \A i, j \in At("SYNC", ins'[c]) : i = j
        /\ line.cmnd = "SYNC" => At("SYNC", ins'[c]) = {} /\ At("SYNC", ins[c]) # {}
        /\ line.cmnd # "SYNC" => (At("SYNC", ins'[c]) = {} <=> At("SYNC", ins[c]) = {})
    <3>1. \A i, j \in At("SYNC", ins[c]) : i = j  BY <2>3 DEF OneToken
    <3>2. ins[c] # <<>> /\ ins'[c] = Tail(ins[c]) /\ ins[c] \in Seq(InLine)  BY <2>1, <2>4
    <3> HIDE DEF Types, ControlTypes, MainAt, ParentAt, HandlerAt
    <3> QED  BY <3>1, <3>2, AtHead DEF line
  <2>6. Printed(c) = outs[c] /\ outs[c] \in Seq(OutLine(c)) /\ Printed(c)' = outs[c] \o todo'[c]
    BY <2>1, PrintedTypes DEF Printed
  <2>7. CASE line.cmnd = "SYNC"
    <3>1. DONE \in OutLine(c) /\ DONE.cmnd = "DONE"  BY DEF OutLine, DONE
    <3>2. Printed(c)' = Append(outs[c], DONE)  BY <2>1, <2>6, <2>7, <3>1, PrintedTypes
    <3>3. At("DONE", Printed(c)') = At("DONE", Printed(c)) \cup {Len(outs[c]) + 1}
      BY <2>6, <3>1, <3>2, AtAppend
    <3>4. SyncIn(c) /\ ~ SyncIn(c)' /\ ~ DoneIn(c) /\ ~ Handled(c)
      BY <2>3, <2>5, <2>7 DEF SyncIn, OneToken
    <3>5. DoneIn(c)' /\ \A i, j \in At("DONE", Printed(c)') : i = j
      BY <3>3, <3>4 DEF DoneIn
    <3>6. Token(c) /\ Token(c)' /\ OneToken(c)'
      BY <2>2, <2>5, <3>4, <3>5 DEF Token, OneToken
    <3> QED  BY <3>6, <2>1, <2>2, <2>3, TokensMove
  <2>8. CASE line.cmnd # "SYNC"
    <3>1. At("DONE", Printed(c)') = At("DONE", Printed(c))
      <4>1. CASE todo'[c] = <<>>  BY <2>6, <4>1
      <4>2. CASE todo'[c] = <<W(Wire[c][2], line.val)>>
        <5>1. W(Wire[c][2], line.val) \in OutLine(c) /\ W(Wire[c][2], line.val).cmnd = "W"
          BY <2>4 DEF OutLine, W
        <5>2. Printed(c)' = Append(outs[c], W(Wire[c][2], line.val))
          BY <2>6, <4>2, <5>1, PrintedTypes
        <5> QED  BY <2>6, <5>1, <5>2, AtAppend
      <4> QED  BY <2>1, <2>8, <4>1, <4>2
    <3>2. (SyncIn(c)' <=> SyncIn(c)) /\ (DoneIn(c)' <=> DoneIn(c))
      BY <3>1, <2>5, <2>8 DEF SyncIn, DoneIn
    <3>3. (Token(c)' <=> Token(c)) /\ OneToken(c)'
      BY <3>1, <3>2, <2>2, <2>3, <2>5 DEF Token, OneToken
    <3> QED  BY <3>3, <2>1, <2>2, <2>3, TokensMove
  <2> QED  BY <2>7, <2>8
<1>21. ASSUME NEW c \in Components, Put(c) PROVE Tokens'
  <2>1. /\ \A d \in Components \ {c} : outs'[d] = outs[d] /\ todo'[d] = todo[d]
        /\ pc' = pc /\ op' = op /\ k' = k /\ ins' = ins
        /\ sync_counter' = sync_counter /\ sem_done' = sem_done
    BY <1>21 DEF Put, PipeTypes, shared
  <2>2. (Reading' <=> Reading) /\ \A d \in Components : (NotSent(d)' <=> NotSent(d))
          /\ (Handled(d)' <=> Handled(d)) /\ (SyncIn(d)' <=> SyncIn(d))
    BY <2>1 DEF Reading, NotSent, Handled, SyncIn
  <2>3. OneToken(c) /\ (Token(c) => ~ NotSent(c))  BY DEF Tokens
  <2>4. CASE pc[Handler(c)] # "exit"
    <3>1. outs'[c] = outs[c] \o todo[c] /\ todo'[c] = <<>>  BY <1>21, <2>4 DEF Put, PipeTypes
    <3>2. Printed(c)' = Printed(c)
      <4>1. Printed(c) \in Seq(OutLine(c))  BY PrintedTypes
      <4> QED  BY <3>1, <4>1 DEF Printed
    <3>3. (DoneIn(c)' <=> DoneIn(c)) /\ OneToken(c)' /\ (Token(c)' <=> Token(c))
      BY <3>2, <2>1, <2>2, <2>3 DEF DoneIn, OneToken, Token
    <3> QED  BY <3>3, <2>1, <2>2, <2>3, TokensMove
  <2>5. CASE pc[Handler(c)] = "exit"
    <3>1. ~ Reading  BY <2>5 DEF Life, Reading
    <3>2. ~ Token(c) /\ ~ NotSent(c)  BY <3>1, NoTokens
    <3>3. outs'[c] = outs[c] /\ todo'[c] = <<>>  BY <1>21, <2>5 DEF Put, PipeTypes
    <3>4. PICK l \in OutLine(c) : todo[c] = <<l>>  BY <1>21 DEF Put, PipeTypes
    <3>5. outs[c] \in Seq(OutLine(c)) /\ Printed(c) = Append(outs[c], l) /\ Printed(c)' = outs[c]
      BY <3>3, <3>4, PrintedTypes DEF Printed, PipeTypes
    <3>6. At("DONE", Printed(c)') = {}
      BY <3>2, <3>5, AtAppend DEF Token, DoneIn
    <3>7. ~ Token(c)' /\ OneToken(c)'
      BY <3>2, <3>6, <2>1, <2>2, <2>3 DEF Token, DoneIn, OneToken
    <3> QED  BY <3>2, <3>7, <2>1, <2>2, TokensMove
  <2> QED  BY <2>4, <2>5
<1>22. CASE Wait
  BY <1>22, TokensFrame, WireTypes, Basics DEF Wait, STOP, Goto, P, V, Reading, NotSent, Handled, shared, comps
<1>23. CASE Destroy
  BY <1>23, TokensFrame, WireTypes, Basics DEF Destroy, Goto, P, V, Reading, NotSent, Handled, shared, comps
<1>24. CASE UNCHANGED vars  BY <1>24, TokensFrame DEF vars, shared, comps, Reading, NotSent, Handled
<1> QED
  BY <1>1, <1>2, <1>3, <1>4, <1>5, <1>6, <1>7, <1>8, <1>9, <1>10, <1>11, <1>12, <1>13,
     <1>14, <1>15, <1>16, <1>17, <1>18, <1>19, <1>20, <1>21, <1>22, <1>23, <1>24
  DEF Next, MainStep, ProcStep, HandlerStep, ComponentStep

LEMMA TokensCorrect == Spec => []Tokens
<1>1. Init => Tokens
  <2> SUFFICES ASSUME Init PROVE Tokens  OBVIOUS
  <2>1. ~ Reading  BY ProcsAre DEF Init, Reading
  <2>2. ASSUME NEW c \in Components PROVE ~ NotSent(c) /\ ~ Token(c) /\ OneToken(c)
    <3>1. ins[c] = <<>> /\ outs[c] = <<>> /\ todo[c] = <<>>  BY DEF Init
    <3>2. Printed(c) = <<>>  BY <3>1 DEF Printed
    <3>3. At("SYNC", ins[c]) = {} /\ At("DONE", Printed(c)) = {}  BY <3>1, <3>2 DEF At
    <3>4. ~ Handled(c)  BY ProcsAre DEF Init, Handled
    <3> QED  BY <2>1, <3>3, <3>4 DEF NotSent, Token, SyncIn, DoneIn, OneToken
  <2>3. Owing = {}  BY <2>2 DEF Owing
  <2> QED  BY <2>1, <2>2, <2>3, FS_EmptySet DEF Init, Tokens
<1> QED  BY <1>1, TokensNext, TypesCorrect, LifeCorrect, PTL DEF Spec

\* The semaphores stay between 0 and their greatest value, and the counter between 0
\* and the number of components, however the handlers count down, the processes are
\* killed, and the parent releases sem_outs once more (simul.c:23-45,
\* indep-sf-regs.c:205-212, 487-495): a semaphore is released by who holds it, and
\* every DONE answers a SYNC.
THEOREM TypeCorrect == Spec => []TypeOK
<1>1. Types /\ Locks /\ Tokens => TypeOK
  <2> SUFFICES ASSUME Types, Locks, Tokens PROVE TypeOK  OBVIOUS
  <2>1. sync_counter \in 0 .. NbProc
    <3>1. IsFiniteSet(Components) /\ Cardinality(Components) = NbProc
      BY Basics, FS_Interval DEF Components
    <3>2. Owing \in SUBSET Components  BY DEF Owing
    <3>3. Cardinality(Owing) <= NbProc  BY <3>1, <3>2, FS_Subset
    <3> QED  BY <3>3, OwingFinite, Basics DEF Tokens
  <2>2. sem_done \in {0, 1}  BY DEF Tokens
  <2>3. sem_regs \in {0, 1} /\ sem_sync \in {0, 1} /\ sem_outs \in 0 .. 2
    BY DEF Locks, RegsLock, SyncLock, OutsLock
  <2>4. regs \in [Ports -> Values] /\ ddr \in [DOMAIN ddr -> {0, 1}]
    BY DEF Types, DataTypes
  <2>5. \A c \in Components : Len(ins[c]) <= PipeSize /\ Len(outs[c]) <= PipeSize
    BY DEF Types, PipeTypes
  <2> QED  BY <2>1, <2>2, <2>3, <2>4, <2>5 DEF TypeOK
<1> QED  BY <1>1, TypesCorrect, LocksCorrect, TokensCorrect, PTL

-----------------------------------------------------------------------------
(* Clean is an invariant.                                                  *)

LEMMA WritesAppend ==
  ASSUME NEW X, NEW lines \in Seq(X), NEW l \in X, NEW q
  PROVE  Writes(q, Append(lines, l)) =
           IF l.cmnd = "W" /\ l.port = q THEN Writes(q, lines) \cup {Len(lines) + 1}
           ELSE Writes(q, lines)
<1> DEFINE L == Append(lines, l)
<1>1. /\ L[Len(lines) + 1] = l /\ \A i \in 1 .. Len(lines) : L[i] = lines[i]
      /\ Len(lines) \in Nat /\ DOMAIN L = 1 .. Len(lines) + 1 /\ DOMAIN lines = 1 .. Len(lines)
  OBVIOUS
<1> HIDE DEF L
<1>2. CASE l.cmnd = "W" /\ l.port = q
  <2>1. Writes(q, L) = Writes(q, lines) \cup {Len(lines) + 1}  BY <1>1, <1>2 DEF Writes
  <2> QED  BY <2>1, <1>2 DEF L
<1>3. CASE ~ (l.cmnd = "W" /\ l.port = q)
  <2>1. Writes(q, L) = Writes(q, lines)  BY <1>1, <1>3 DEF Writes
  <2> QED  BY <2>1, <1>3 DEF L
<1> QED  BY <1>2, <1>3

LEMMA WritesTail ==
  ASSUME NEW X, NEW lines \in Seq(X), lines # <<>>, NEW q
  PROVE  /\ \A i \in Writes(q, Tail(lines)) : i \in Nat \ {0} /\ i + 1 \in Writes(q, lines)
         /\ Head(lines).cmnd = "W" /\ Head(lines).port = q => 1 \in Writes(q, lines)
<1> DEFINE T == Tail(lines)
<1>1. /\ Len(lines) \in Nat \ {0} /\ Head(lines) = lines[1]
      /\ \A i \in 1 .. Len(lines) - 1 : T[i] = lines[i + 1]
      /\ DOMAIN T = 1 .. Len(lines) - 1 /\ DOMAIN lines = 1 .. Len(lines)
  OBVIOUS
<1> HIDE DEF T
<1>2. \A i \in Writes(q, T) : i \in Nat \ {0} /\ i + 1 \in Writes(q, lines)  BY <1>1 DEF Writes
<1>3. Head(lines).cmnd = "W" /\ Head(lines).port = q => 1 \in Writes(q, lines)
  BY <1>1 DEF Writes
<1> QED  BY <1>2, <1>3 DEF T

LEMMA CleanFrame ==
  ASSUME NEW c \in Components, Clean(c),
         ins'[c] = ins[c], Printed(c)' = Printed(c), Sent(c)' => Sent(c),
         pc'[Handler(c)] = "regs" => pc[Handler(c)] = "regs"
  PROVE  Clean(c)'
BY DEF Clean, SyncIn, DoneIn

\* What is after the token stays after it when the first line goes.
LEMMA AfterTail ==
  ASSUME NEW X, NEW lines \in Seq(X), lines # <<>>, NEW q, NEW kind, NEW i \in Writes(q, Tail(lines)),
         \E j \in At(kind, lines) : j > i + 1
  PROVE  \E j \in At(kind, Tail(lines)) : j > i
<1>1. i \in Nat  BY WritesTail
<1>2. PICK j \in At(kind, lines) : j > i + 1  OBVIOUS
<1>3. j \in Nat /\ j - 1 \in At(kind, Tail(lines))  BY <1>1, <1>2, AtTail
<1>4. j - 1 > i  BY <1>1, <1>2, <1>3
<1> QED  BY <1>3, <1>4

LEMMA CleanNext ==
  ASSUME NEW c \in Components, Wire[c][1] \in Outputs,
         Types, Life, Tokens, Clean(c), [Next]_vars
  PROVE  Clean(c)'
<1> USE ProcsAre DEF Types, ControlTypes, MainAt, ParentAt, HandlerAt
<1> DEFINE h == Handler(c)
           s == Wire[c][1]
           r == Wire[c][2]
<1>1. CASE Fork
  <2>1. ~ Sent(c)'  BY <1>1, Basics, WireTypes DEF Fork, Goto, Sent, Components
  <2> QED  BY <2>1 DEF Clean
<1>2. CASE Started
  BY <1>2, CleanFrame, WireTypes, Basics DEF Started, Goto, P, V, Sent, Printed, shared, comps
<1>3. CASE SetCounter
  BY <1>3, CleanFrame, WireTypes, Basics DEF SetCounter, Goto, P, V, Sent, Printed, shared, comps
<1>4. CASE Await
  BY <1>4, CleanFrame, WireTypes, Basics DEF Await, Goto, P, V, Sent, Printed, shared, comps
<1>5. CASE ReadRegs
  BY <1>5, CleanFrame, WireTypes, Basics DEF ReadRegs, Goto, P, V, Sent, Printed, shared, comps
<1>6. CASE ReadDone
  BY <1>6, CleanFrame, WireTypes, Basics DEF ReadDone, Finish, Goto, P, V, Sent, Printed, shared, comps
<1>7. ASSUME NEW o \in Operations, Access(o) PROVE Clean(c)'
  BY <1>7, CleanFrame, WireTypes, Basics DEF Access, Goto, P, V, Sent, Printed, shared, comps
<1>8. CASE ProgramEnds
  BY <1>8, CleanFrame, WireTypes, Basics DEF ProgramEnds, Goto, P, V, Sent, Printed, shared, comps
<1>9. ASSUME NEW p \in Procs, LockSync(p) PROVE Clean(c)'
  BY <1>9, CleanFrame, WireTypes, Basics DEF LockSync, Goto, P, V, Sent, Printed, shared, comps
<1>10. ASSUME NEW p \in Procs, Update(p) PROVE Clean(c)'
  BY <1>10, CleanFrame, WireTypes, Basics DEF Update, Goto, P, V, Sent, Printed, shared, comps
<1>11. ASSUME NEW p \in Procs, FreeRegs(p) PROVE Clean(c)'
  BY <1>11, CleanFrame, WireTypes, Basics DEF FreeRegs, Finish, Goto, P, V, Sent, Printed, shared, comps
<1>12. ASSUME NEW p \in Procs, LockOuts(p) PROVE Clean(c)'
  BY <1>12, CleanFrame, WireTypes, Basics DEF LockOuts, Goto, P, V, Sent, Printed, shared, comps
<1>13. ASSUME NEW p \in Procs, Send(p) PROVE Clean(c)'
  <2>0. k[p] \in Components  BY <1>13, Basics DEF Send, Components
  <2>1. PICK d \in Components : d = k[p]  BY <2>0
  <2>2. /\ outs' = outs /\ todo' = todo /\ op' = op /\ pc' = pc
        /\ k' = [k EXCEPT ![p] = k[p] + 1] /\ k[p] \in Nat /\ pc[p] = "send"
    BY <1>13 DEF Send, shared, comps
  <2>3. Printed(c)' = Printed(c)  BY <2>2 DEF Printed
  <2>4. CASE d # c
    <3>1. ins'[c] = ins[c]  BY <1>13, <2>1, <2>4 DEF Send
    <3>2. Sent(c)' => Sent(c)  BY <2>1, <2>2, <2>4, WireTypes DEF Sent
    <3> QED  BY <3>1, <3>2, <2>2, <2>3, CleanFrame
  <2>5. CASE d = c
    <3> DEFINE l == Line(op[p])
    <3>1. ins'[c] = Append(ins[c], l) /\ ins[c] \in Seq(InLine)
      BY <1>13, <2>1, <2>5 DEF Send, PipeTypes
    <3>2. l \in InLine
      <4>1. CASE p = main  BY <1>13, <4>1, Lines DEF Send
      <4>2. CASE p = parent  BY <1>13, <4>2, Lines DEF Send
      <4>3. ASSUME NEW e \in Components, p = Handler(e) PROVE l \in InLine
        BY <1>13, <4>3, Lines DEF Send
      <4> QED  BY <4>1, <4>2, <4>3
    <3>3. CASE p = main /\ op[main].cmnd = "READ"
      <4>1. l.cmnd = "SYNC"  BY <3>3 DEF Line, SYNC
      <4> HIDE DEF l
      <4>2. At("SYNC", ins'[c]) = At("SYNC", ins[c]) \cup {Len(ins[c]) + 1}
        BY <3>1, <3>2, <4>1, AtAppend
      <4>3. Writes(s, ins'[c]) = Writes(s, ins[c])  BY <3>1, <3>2, <4>1, WritesAppend
      <4>4. \A i \in Writes(s, ins[c]) : Len(ins[c]) + 1 > i
        <5>1. Writes(s, ins[c]) \in SUBSET (1 .. Len(ins[c])) /\ Len(ins[c]) \in Nat
          BY <3>1, WritesTypes
        <5> QED  BY <5>1
      <4> QED  BY <4>2, <4>3, <4>4 DEF Clean, SyncIn
    <3>4. CASE p = main /\ op[main].cmnd # "READ"
      <4>1. ~ Sent(c)'  BY <3>4, <2>2 DEF Sent
      <4> QED  BY <4>1 DEF Clean
    <3>5. CASE p # main
      <4>1. Sent(c)' <=> Sent(c)  BY <3>5, <2>2 DEF Sent
      <4>2. l.cmnd # "SYNC" /\ ~ (l.cmnd = "W" /\ l.port = s)
        <5>1. CASE p = parent  BY <1>13, <5>1, Lines DEF Send, STOP
        <5>2. ASSUME NEW e \in Components, p = Handler(e)
              PROVE  l.cmnd # "SYNC" /\ ~ (l.cmnd = "W" /\ l.port = s)
          <6>1. op[p] \in OutLine(e) /\ op[p].cmnd = "W"  BY <1>13, <5>2 DEF Send
          <6>2. l = op[p] /\ l.port = Wire[e][2]  BY <6>1, Lines
          <6> QED  BY <6>1, <6>2, WireTypes
        <5> QED  BY <3>5, <5>1, <5>2
      <4> HIDE DEF l
      <4>3. Writes(s, ins'[c]) = Writes(s, ins[c]) /\ At("SYNC", ins'[c]) = At("SYNC", ins[c])
        BY <3>1, <3>2, <4>2, WritesAppend, AtAppend
      <4> QED  BY <4>1, <4>3, <2>2, <2>3 DEF Clean, SyncIn, DoneIn
    <3> QED  BY <3>3, <3>4, <3>5
  <2> QED  BY <2>4, <2>5
<1>14. ASSUME NEW p \in Procs, FreeOuts(p) PROVE Clean(c)'
  BY <1>14, CleanFrame, WireTypes, Basics DEF FreeOuts, Goto, P, V, Sent, Printed, shared, comps
<1>15. ASSUME NEW p \in Procs, SemopFails(p) PROVE Clean(c)'
  BY <1>15, CleanFrame, WireTypes, Basics DEF SemopFails, Exit, Goto, P, V, Sent, Printed, shared, comps
<1>16. ASSUME NEW d \in Components, ReadLine(d) PROVE Clean(c)'
  <2>1. /\ d # c => outs'[c] = outs[c] /\ pc'[h] = pc[h]
        /\ pc'[main] = pc[main] /\ op'[main] = op[main] /\ k' = k /\ ins' = ins /\ todo' = todo
    BY <1>16 DEF ReadLine, Goto, PipeTypes, shared, comps
  <2>2. Sent(c)' <=> Sent(c)  BY <2>1 DEF Sent
  <2>3. CASE d # c  BY <2>1, <2>2, <2>3, CleanFrame DEF Printed
  <2>4. CASE d = c
    <3>1. /\ outs[c] # <<>> /\ outs'[c] = Tail(outs[c])
          /\ pc'[h] = IF Head(outs[c]).cmnd = "DONE" THEN "sync" ELSE "regs"
      BY <1>16, <2>4 DEF ReadLine, Goto, PipeTypes
    <3>2. /\ Printed(c) \in Seq(OutLine(c)) /\ Printed(c) # <<>>
          /\ Head(Printed(c)) = Head(outs[c]) /\ Printed(c)' = Tail(Printed(c))
      BY <3>1, <2>1, PrintedTypes DEF Printed
    <3>3. SUFFICES ASSUME Sent(c), ~ SyncIn(c)
                   PROVE  /\ \A i \in Writes(r, Printed(c)') : \E j \in At("DONE", Printed(c)') : j > i
                          /\ pc'[h] = "regs" => DoneIn(c)'
      BY <2>1, <2>2 DEF Clean, SyncIn
    <3>4. \A i \in Writes(r, Printed(c)) : \E j \in At("DONE", Printed(c)) : j > i
      BY <3>3 DEF Clean
    <3>5. ASSUME NEW i \in Writes(r, Printed(c)')
          PROVE  \E j \in At("DONE", Printed(c)') : j > i
      <4>1. i + 1 \in Writes(r, Printed(c))  BY <3>2, <3>5, WritesTail
      <4>2. \E j \in At("DONE", Printed(c)) : j > i + 1  BY <4>1, <3>4
      <4>3. i \in Writes(r, Tail(Printed(c)))  BY <3>2, <3>5
      <4> QED  BY <4>2, <4>3, <3>2, AfterTail
    <3>6. ASSUME pc'[h] = "regs" PROVE DoneIn(c)'
      <4>1. Head(Printed(c)) \in OutLine(c) /\ Head(Printed(c)).cmnd # "DONE"
        BY <3>1, <3>2, <3>6
      <4>2. Head(Printed(c)).cmnd = "W" /\ Head(Printed(c)).port = r  BY <4>1, Lines
      <4>3. 1 \in Writes(r, Printed(c))  BY <3>2, <4>2, WritesTail
      <4>4. PICK j \in At("DONE", Printed(c)) : j > 1  BY <4>3, <3>4
      <4>5. j - 1 \in At("DONE", Tail(Printed(c)))  BY <3>2, <4>4, AtTail
      <4> QED  BY <4>5, <3>2 DEF DoneIn
    <3> QED  BY <3>5, <3>6
  <2> QED  BY <2>3, <2>4
<1>17. ASSUME NEW d \in Components, CountDown(d) PROVE Clean(c)'
  BY <1>17, CleanFrame, WireTypes, Basics DEF CountDown, Goto, P, V, Sent, Printed, shared, comps
<1>18. ASSUME NEW d \in Components, EndOfFile(d) PROVE Clean(c)'
  BY <1>18, CleanFrame, WireTypes, Basics DEF EndOfFile, Goto, P, V, Sent, Printed, shared, comps
<1>19. ASSUME NEW d \in Components, Killed(d) PROVE Clean(c)'
  BY <1>19, CleanFrame, WireTypes, Basics DEF Killed, Exit, Goto, P, V, Sent, Printed, shared, comps
<1>20. ASSUME NEW d \in Components, Take(d) PROVE Clean(c)'
  <2>1. /\ pc' = pc /\ op' = op /\ k' = k /\ outs' = outs
        /\ d # c => ins'[c] = ins[c] /\ todo'[c] = todo[c]
    BY <1>20 DEF Take, PipeTypes
  <2>2. Sent(c)' <=> Sent(c)  BY <2>1 DEF Sent
  <2>3. CASE d # c  BY <2>1, <2>2, <2>3, CleanFrame DEF Printed
  <2>4. CASE d = c
    <3> DEFINE line == Head(ins[c])
    <3>1. /\ ins[c] # <<>> /\ ins'[c] = Tail(ins[c]) /\ todo[c] = <<>> /\ ins[c] \in Seq(InLine)
          /\ todo'[c] = IF line.cmnd = "SYNC" THEN <<DONE>>
                        ELSE IF line.cmnd = "W" /\ line.port = s THEN <<W(r, line.val)>> ELSE <<>>
      BY <1>20, <2>4 DEF Take, PipeTypes
    <3> HIDE DEF line
    <3>2. SUFFICES ASSUME Sent(c) PROVE Clean(c)'  BY <2>2 DEF Clean
    <3>3. \A i \in Writes(s, ins[c]) : \E j \in At("SYNC", ins[c]) : j > i  BY <3>2 DEF Clean
    <3>4. \A i \in Writes(s, ins'[c]) : \E j \in At("SYNC", ins'[c]) : j > i
      <4> TAKE i \in Writes(s, ins'[c])
      <4>1. i + 1 \in Writes(s, ins[c])  BY <3>1, WritesTail
      <4>2. \E j \in At("SYNC", ins[c]) : j > i + 1  BY <4>1, <3>3
      <4>3. i \in Writes(s, Tail(ins[c]))  BY <3>1
      <4> QED  BY <4>2, <4>3, <3>1, AfterTail
    <3>5. CASE SyncIn(c)'  BY <3>4, <3>5 DEF Clean
    <3>6. CASE ~ SyncIn(c)' /\ line.cmnd = "SYNC"
      <4>1. DONE \in OutLine(c) /\ DONE.cmnd = "DONE"  BY DEF OutLine, DONE
      <4>2. Printed(c) = outs[c] /\ outs[c] \in Seq(OutLine(c)) /\ Printed(c)' = Append(outs[c], DONE)
        BY <3>1, <3>6, <2>1, <4>1, PrintedTypes DEF Printed
      <4>3. At("DONE", Printed(c)') = At("DONE", outs[c]) \cup {Len(outs[c]) + 1}
            /\ Writes(r, Printed(c)') = Writes(r, outs[c])
        BY <4>1, <4>2, AtAppend, WritesAppend
      <4>4. Writes(r, outs[c]) \in SUBSET (1 .. Len(outs[c])) /\ Len(outs[c]) \in Nat
        BY <4>2, WritesTypes
      <4>5. \A i \in Writes(r, Printed(c)') : \E j \in At("DONE", Printed(c)') : j > i
        <5> TAKE i \in Writes(r, Printed(c)')
        <5>1. i \in 1 .. Len(outs[c])  BY <4>3, <4>4
        <5>2. Len(outs[c]) + 1 \in At("DONE", Printed(c)')  BY <4>3
        <5>3. Len(outs[c]) + 1 > i  BY <4>4, <5>1
        <5> QED  BY <5>2, <5>3
      <4>6. DoneIn(c)'  BY <4>3 DEF DoneIn
      <4> QED  BY <3>4, <4>5, <4>6 DEF Clean
    <3>7. CASE ~ SyncIn(c)' /\ line.cmnd # "SYNC"
      <4>1. ~ SyncIn(c)
        <5> SUFFICES ASSUME NEW i \in At("SYNC", ins[c]) PROVE FALSE  BY DEF SyncIn
        <5>1. i = 1  BY <3>1, <3>7, AtTail DEF SyncIn
        <5> QED  BY <5>1, <3>1, <3>7, AtTail DEF line
      <4>2. ~ (line.cmnd = "W" /\ line.port = s)
        <5> SUFFICES ASSUME line.cmnd = "W", line.port = s PROVE FALSE  OBVIOUS
        <5>1. 1 \in Writes(s, ins[c])  BY <3>1, WritesTail DEF line
        <5> QED  BY <5>1, <3>3, <4>1 DEF SyncIn
      <4>3. todo'[c] = todo[c]  BY <3>1, <3>7, <4>2
      <4>4. Printed(c)' = Printed(c)  BY <4>3, <2>1 DEF Printed
      <4> QED  BY <4>1, <4>4, <3>2, <3>4, <2>1 DEF Clean, DoneIn
    <3> QED  BY <3>5, <3>6, <3>7
  <2> QED  BY <2>3, <2>4
<1>21. ASSUME NEW d \in Components, Put(d) PROVE Clean(c)'
  <2>1. /\ pc' = pc /\ op' = op /\ k' = k /\ ins' = ins
        /\ d # c => outs'[c] = outs[c] /\ todo'[c] = todo[c]
    BY <1>21 DEF Put, PipeTypes
  <2>2. Sent(c)' <=> Sent(c)  BY <2>1 DEF Sent
  <2>3. CASE d # c  BY <2>1, <2>2, <2>3, CleanFrame DEF Printed
  <2>4. CASE d = c /\ pc[h] = "exit"
    <3>1. ~ Sent(c)  BY <2>4 DEF Life, Sent
    <3> QED  BY <3>1, <2>2 DEF Clean
  <2>5. CASE d = c /\ pc[h] # "exit"
    <3>1. outs'[c] = outs[c] \o todo[c] /\ todo'[c] = <<>>  BY <1>21, <2>5 DEF Put, PipeTypes
    <3>2. Printed(c) \in Seq(OutLine(c))  BY PrintedTypes
    <3>3. Printed(c)' = Printed(c)  BY <3>1, <3>2 DEF Printed
    <3> QED  BY <3>3, <2>1, <2>2, CleanFrame
  <2> QED  BY <2>3, <2>4, <2>5
<1>22. CASE Wait
  BY <1>22, CleanFrame, WireTypes, Basics DEF Wait, STOP, Goto, P, V, Sent, Printed, shared, comps
<1>23. CASE Destroy
  BY <1>23, CleanFrame, WireTypes, Basics DEF Destroy, Goto, P, V, Sent, Printed, shared, comps
<1>24. CASE UNCHANGED vars  BY <1>24, CleanFrame DEF vars, shared, comps, Sent, Printed
<1> QED
  BY <1>1, <1>2, <1>3, <1>4, <1>5, <1>6, <1>7, <1>8, <1>9, <1>10, <1>11, <1>12, <1>13,
     <1>14, <1>15, <1>16, <1>17, <1>18, <1>19, <1>20, <1>21, <1>22, <1>23, <1>24
  DEF Next, MainStep, ProcStep, HandlerStep, ComponentStep

-----------------------------------------------------------------------------
(* Follows is an invariant, when every port has one driver.                *)

LEMMA FollowsFrame ==
  ASSUME NEW c \in Components, Follows(c),
         pc'[main] # "exit" => pc[main] # "exit",
         ~ Pending(main, c, Wire[c][1])' => ~ Pending(main, c, Wire[c][1]),
         regs' = regs, ins'[c] = ins[c], Printed(c)' = Printed(c),
         pc'[Handler(c)] = "regs" <=> pc[Handler(c)] = "regs",
         pc[Handler(c)] = "regs" => op'[Handler(c)] = op[Handler(c)]
  PROVE  Follows(c)'
<1>1. Arriving(c)' = Arriving(c)  BY DEF Arriving
<1>2. Settled(c)' = Settled(c)  BY <1>1 DEF Settled
<1> QED  BY <1>2 DEF Follows

LEMMA FollowsNext ==
  ASSUME OneDriver, NEW c \in Components, Wire[c][1] \in Outputs,
         Types, Locks, Life, Agree, Follows(c), [Next]_vars
  PROVE  Follows(c)'
<1> USE ProcsAre DEF Types, ControlTypes, MainAt, ParentAt, HandlerAt
<1> DEFINE h == Handler(c)
           s == Wire[c][1]
           r == Wire[c][2]
<1>1. CASE Fork
  <2>1. k[main] \in Components  BY <1>1, Basics DEF Fork, Components
  <2>2. pc[Handler(k[main])] \in {"unborn", "exit"}  BY <1>1, <2>1, WireTypes DEF Fork
  <2>3. pc'[Handler(k[main])] = "idle" /\ pc'[main] = "fork" /\ pc[main] = "fork"
        /\ \A d \in Components : d # k[main] => pc'[Handler(d)] = pc[Handler(d)]
    BY <1>1, <2>1 DEF Fork, Goto
  <2>4. pc'[h] = "regs" <=> pc[h] = "regs"  BY <2>2, <2>3
  <2>5. ~ Pending(main, c, s)  BY <2>3 DEF Pending
  <2> QED  BY <1>1, <2>3, <2>4, <2>5, FollowsFrame DEF Fork, shared, Printed
<1>2. CASE Started
  BY <1>2, FollowsFrame, WireTypes, Basics DEF Started, Goto, P, V, Pending, Printed, shared, comps
<1>3. CASE SetCounter
  BY <1>3, FollowsFrame, WireTypes, Basics DEF SetCounter, Goto, P, V, Pending, Printed, shared, comps
<1>4. CASE Await
  BY <1>4, FollowsFrame, WireTypes, Basics DEF Await, Goto, P, V, Pending, Printed, shared, comps
<1>5. CASE ReadRegs
  BY <1>5, FollowsFrame, WireTypes, Basics DEF ReadRegs, Goto, P, V, Pending, Printed, shared, comps
<1>6. CASE ReadDone
  BY <1>6, FollowsFrame, WireTypes, Basics DEF ReadDone, Finish, Goto, P, V, Pending, Printed, shared, comps
<1>7. ASSUME NEW o \in Operations, Access(o) PROVE Follows(c)'
  BY <1>7, FollowsFrame, WireTypes, Basics DEF Access, Goto, P, V, Pending, Printed, shared, comps
<1>8. CASE ProgramEnds
  BY <1>8, FollowsFrame, WireTypes, Basics DEF ProgramEnds, Goto, P, V, Pending, Printed, shared, comps
<1>9. ASSUME NEW p \in Procs, LockSync(p) PROVE Follows(c)'
  BY <1>9, FollowsFrame, WireTypes, Basics DEF LockSync, Goto, P, V, Pending, Printed, shared, comps
<1>10. ASSUME NEW p \in Procs, Update(p) PROVE Follows(c)'
  <2>1. /\ pc[p] = "regs" /\ op' = op /\ ins' = ins /\ Printed(c)' = Printed(c)
        /\ pc'[p] = IF Changes(p) THEN "outs" ELSE "free_regs"
        /\ \A q \in Procs : q # p => pc'[q] = pc[q]
        /\ k' = k /\ regs \in [Ports -> Values]
        /\ regs' = IF Changes(p) /\ op[p].cmnd # "T" THEN [regs EXCEPT ![op[p].port] = op[p].val]
                   ELSE regs
    BY <1>10 DEF Update, Goto, Printed, comps, DataTypes
  <2> USE <2>1
  <2>2. ~ Pending(main, c, s) \/ p # main
    <3>1. p = main => pc[main] = "regs"  OBVIOUS
    <3> QED  BY <3>1 DEF Pending
  <2>3. CASE p = main
    <3>1. regs'[r] = regs[r]
      <4>1. op[main].cmnd \in {"W", "SET"} => op[main].port # r
        BY WireTypes DEF MainOps
      <4>2. op[main].cmnd \in {"W", "SET", "T"}  BY <2>3
      <4> QED  BY <4>1, <4>2, <2>3
    <3>2. pc'[h] = pc[h]  BY <2>3
    <3>3. Arriving(c)' = Arriving(c)  BY <3>1, <3>2 DEF Arriving
    <3>4. Settled(c)' = Settled(c)  BY <3>3 DEF Settled
    <3>5. ~ Pending(main, c, s)' => regs'[s] = regs[s]
      <4> SUFFICES ASSUME regs'[s] # regs[s] PROVE Pending(main, c, s)'  OBVIOUS
      <4>1. Changes(main) /\ op[main].cmnd # "T" /\ op[main].port = s  BY <2>3
      <4>2. op[main].cmnd \in {"W", "SET"} /\ pc'[main] = "outs"  BY <2>3, <4>1
      <4> QED  BY <4>1, <4>2 DEF Pending
    <3> QED  BY <3>4, <3>5, <2>2, <2>3 DEF Follows
  <2>4. ASSUME NEW d \in Components, p = Handler(d) PROVE Follows(c)'
    <3>1. op[p] \in OutLine(d) /\ op[p].cmnd = "W"  BY <2>4
    <3>2. op[p].port = Wire[d][2]  BY <3>1, <2>4, Lines
    <3>3. Wire[d][2] # s  BY <2>4, WireTypes
    <3>4. regs'[s] = regs[s]  BY <3>2, <3>3
    <3>5. Pending(main, c, s)' <=> Pending(main, c, s)  BY <2>4 DEF Pending
    <3>6. Arriving(c)' = Arriving(c)
      <4>1. CASE d # c
        <5>1. Wire[d][2] # r  BY <4>1, <2>4 DEF OneDriver
        <5>2. regs'[r] = regs[r]  BY <5>1, <3>2
        <5>3. pc'[h] = pc[h]  BY <4>1, <2>4
        <5> QED  BY <5>2, <5>3 DEF Arriving
      <4>2. CASE d = c
        <5>1. regs'[r] = op[p].val
          <6>1. r \in Ports  BY WireTypes
          <6>2. CASE Changes(p)  BY <6>1, <6>2, <3>1, <3>2, <4>2
          <6>3. CASE ~ Changes(p)
            <7>1. regs[r] = op[p].val  BY <6>3, <3>1, <3>2, <4>2, <2>4 DEF Changes
            <7> QED  BY <7>1, <6>3
          <6> QED  BY <6>2, <6>3
        <5>2. pc[h] = "regs" /\ pc'[h] # "regs" /\ op[h] = op[p]  BY <4>2, <2>4
        <5> QED  BY <5>1, <5>2 DEF Arriving
      <4> QED  BY <4>1, <4>2
    <3>7. Settled(c)' = Settled(c)  BY <3>6 DEF Settled
    <3>8. pc'[main] = pc[main]  BY <2>4
    <3> QED  BY <3>4, <3>5, <3>7, <3>8 DEF Follows
  <2> QED  BY <2>3, <2>4
<1>11. ASSUME NEW p \in Procs, FreeRegs(p) PROVE Follows(c)'
  BY <1>11, FollowsFrame, WireTypes, Basics DEF FreeRegs, Finish, Goto, P, V, Pending, Printed, shared, comps
<1>12. ASSUME NEW p \in Procs, LockOuts(p) PROVE Follows(c)'
  BY <1>12, FollowsFrame, WireTypes, Basics DEF LockOuts, Goto, P, V, Pending, Printed, shared, comps
<1>13. ASSUME NEW p \in Procs, Send(p) PROVE Follows(c)'
  <2>0. k[p] \in Components  BY <1>13, Basics DEF Send, Components
  <2>1. PICK d \in Components : d = k[p]  BY <2>0
  <2>2. /\ outs' = outs /\ todo' = todo /\ op' = op /\ pc' = pc /\ regs' = regs
        /\ k' = [k EXCEPT ![p] = k[p] + 1] /\ k[p] \in Nat /\ pc[p] = "send"
        /\ signalled' = signalled /\ destroyed' = destroyed
    BY <1>13 DEF Send, shared, comps
  <2>3. Printed(c)' = Printed(c)  BY <2>2 DEF Printed
  <2>4. CASE d # c
    <3>1. ins'[c] = ins[c]  BY <1>13, <2>1, <2>4 DEF Send
    <3>2. Pending(main, c, s)' <=> Pending(main, c, s)
      BY <2>1, <2>2, <2>4, WireTypes DEF Pending
    <3> QED  BY <3>1, <3>2, <2>2, <2>3, FollowsFrame
  <2>5. CASE d = c
    <3> DEFINE l == Line(op[p])
    <3>1. ins'[c] = Append(ins[c], l) /\ ins[c] \in Seq(InLine)
      BY <1>13, <2>1, <2>5 DEF Send, PipeTypes
    <3>2. l \in InLine
      <4>1. CASE p = main  BY <1>13, <4>1, Lines DEF Send
      <4>2. CASE p = parent  BY <1>13, <4>2, Lines DEF Send
      <4>3. ASSUME NEW e \in Components, p = Handler(e) PROVE l \in InLine
        BY <1>13, <4>3, Lines DEF Send
      <4> QED  BY <4>1, <4>2, <4>3
    <3>3. Arriving(c)' = Arriving(c)  BY <2>2, <2>3 DEF Arriving
    <3> HIDE DEF l
    <3>4. Settled(c)' = IF l.cmnd = "W" /\ l.port = s THEN l.val ELSE Settled(c)
      BY <3>1, <3>2, <3>3, KnownAppend DEF Settled
    <3>5. CASE p = main /\ op[main].cmnd \in {"W", "SET"} /\ op[main].port = s
      <4>1. Pending(main, c, s)  BY <3>5, <2>1, <2>2, <2>5, WireTypes DEF Pending
      <4>2. l.cmnd = "W" /\ l.port = s /\ l.val = op[main].val  BY <3>5 DEF l, Line, W
      <4>3. pc[main] # "exit" /\ s \in Ports  BY <3>5, <2>2, WireTypes
      <4>4. regs[s] = op[main].val  BY <4>1, <4>3 DEF Agree, Life
      <4> QED  BY <4>2, <4>4, <3>4, <2>2 DEF Follows
    <3>6. CASE ~ (p = main /\ op[main].cmnd \in {"W", "SET"} /\ op[main].port = s)
      <4>1. ~ (l.cmnd = "W" /\ l.port = s)
        <5>1. CASE p = main  BY <5>1, <3>6 DEF l, Line, SYNC, W
        <5>2. CASE p = parent  BY <1>13, <5>2, Lines DEF l, Send, STOP
        <5>3. ASSUME NEW e \in Components, p = Handler(e)
              PROVE  ~ (l.cmnd = "W" /\ l.port = s)
          <6>1. op[p] \in OutLine(e) /\ op[p].cmnd = "W"  BY <1>13, <5>3 DEF Send
          <6>2. l.port = Wire[e][2]  BY <6>1, Lines DEF l
          <6> QED  BY <6>2, WireTypes
        <5> QED  BY <5>1, <5>2, <5>3
      <4>2. ~ Pending(main, c, s)' => ~ Pending(main, c, s)
        <5>1. CASE p = main  BY <5>1, <3>6, <2>2 DEF Pending
        <5>2. CASE p # main  BY <5>2, <2>2 DEF Pending
        <5> QED  BY <5>1, <5>2
      <4> QED  BY <4>1, <4>2, <3>4, <2>2 DEF Follows
    <3> QED  BY <3>5, <3>6
  <2> QED  BY <2>4, <2>5
<1>14. ASSUME NEW p \in Procs, FreeOuts(p) PROVE Follows(c)'
  BY <1>14, FollowsFrame, WireTypes, Basics DEF FreeOuts, Goto, P, V, Pending, Printed, shared, comps
<1>15. ASSUME NEW p \in Procs, SemopFails(p) PROVE Follows(c)'
  <2>1. pc[main] = "exit"  BY <1>15 DEF SemopFails, Life
  <2>2. pc'[main] = "exit"  BY <1>15, <2>1 DEF SemopFails, Goto, Exit, AtSemaphore, shared
  <2> QED  BY <2>2 DEF Follows
<1>16. ASSUME NEW d \in Components, ReadLine(d) PROVE Follows(c)'
  <2>1. /\ d # c => outs'[c] = outs[c] /\ pc'[h] = pc[h] /\ op'[h] = op[h]
        /\ pc'[main] = pc[main] /\ op'[main] = op[main] /\ k' = k /\ ins' = ins /\ todo' = todo
        /\ regs' = regs
    BY <1>16 DEF ReadLine, Goto, PipeTypes, shared, comps
  <2>2. Pending(main, c, s)' <=> Pending(main, c, s)  BY <2>1 DEF Pending
  <2>3. CASE d # c  BY <2>1, <2>2, <2>3, FollowsFrame DEF Printed
  <2>4. CASE d = c
    <3> DEFINE line == Head(outs[c])
    <3>1. /\ outs[c] # <<>> /\ outs'[c] = Tail(outs[c]) /\ pc[h] = "idle"
          /\ pc'[h] = IF line.cmnd = "DONE" THEN "sync" ELSE "regs"
          /\ op'[h] = line
      BY <1>16, <2>4 DEF ReadLine, Goto, PipeTypes
    <3>2. /\ Printed(c) \in Seq(OutLine(c)) /\ Printed(c) # <<>>
          /\ Head(Printed(c)) = line /\ Printed(c)' = Tail(Printed(c))
      BY <3>1, <2>1, PrintedTypes DEF Printed
    <3>3. line \in OutLine(c)  BY <3>2
    <3>4. line.cmnd # "DONE" => line.cmnd = "W" /\ line.port = r  BY <3>3, Lines
    <3> HIDE DEF line
    <3>5. (IF pc'[h] = "regs" THEN op'[h].val ELSE regs'[r]) =
            IF line.cmnd = "W" /\ line.port = r THEN line.val ELSE regs[r]
      BY <3>1, <3>4, <2>1
    <3>6. Arriving(c)' =
            Known(IF line.cmnd = "W" /\ line.port = r THEN line.val ELSE regs[r], r, Tail(Printed(c)))
      BY <3>2, <3>5 DEF Arriving
    <3>7. Arriving(c)' = Known(regs[r], r, Printed(c))  BY <3>2, <3>6, KnownTail
    <3>8. Arriving(c)' = Arriving(c)  BY <3>7, <3>1 DEF Arriving
    <3>9. Settled(c)' = Settled(c)  BY <3>8, <2>1 DEF Settled
    <3> QED  BY <3>9, <2>1, <2>2 DEF Follows
  <2> QED  BY <2>3, <2>4
<1>17. ASSUME NEW d \in Components, CountDown(d) PROVE Follows(c)'
  BY <1>17, FollowsFrame, WireTypes, Basics DEF CountDown, Goto, P, V, Pending, Printed, shared, comps
<1>18. ASSUME NEW d \in Components, EndOfFile(d) PROVE Follows(c)'
  <2>1. pc[main] = "exit"  BY <1>18 DEF EndOfFile, Life
  <2>2. pc'[main] = "exit"  BY <1>18, <2>1 DEF EndOfFile, Goto, Exit, AtSemaphore, shared
  <2> QED  BY <2>2 DEF Follows
<1>19. ASSUME NEW d \in Components, Killed(d) PROVE Follows(c)'
  <2>1. pc[main] = "exit"  BY <1>19 DEF Killed, Life
  <2>2. pc'[main] = "exit"  BY <1>19, <2>1 DEF Killed, Goto, Exit, AtSemaphore, shared
  <2> QED  BY <2>2 DEF Follows
<1>20. ASSUME NEW d \in Components, Take(d) PROVE Follows(c)'
  <2>1. /\ pc' = pc /\ op' = op /\ k' = k /\ outs' = outs /\ regs' = regs
        /\ d # c => ins'[c] = ins[c] /\ todo'[c] = todo[c]
    BY <1>20 DEF Take, PipeTypes, shared
  <2>2. Pending(main, c, s)' <=> Pending(main, c, s)  BY <2>1 DEF Pending
  <2>3. CASE d # c  BY <2>1, <2>2, <2>3, FollowsFrame DEF Printed
  <2>4. CASE d = c
    <3> DEFINE line == Head(ins[c])
               base == IF pc[h] = "regs" THEN op[h].val ELSE regs[r]
    <3>1. /\ ins[c] # <<>> /\ ins'[c] = Tail(ins[c]) /\ todo[c] = <<>> /\ ins[c] \in Seq(InLine)
          /\ todo'[c] = IF line.cmnd = "SYNC" THEN <<DONE>>
                        ELSE IF line.cmnd = "W" /\ line.port = s THEN <<W(r, line.val)>> ELSE <<>>
      BY <1>20, <2>4 DEF Take, PipeTypes
    <3>2. line.val \in Values
      <4>1. line \in InLine  BY <3>1
      <4> QED  BY <4>1 DEF InLine
    <3>3. outs[c] \in Seq(OutLine(c)) /\ Printed(c) = outs[c] /\ Printed(c)' = outs[c] \o todo'[c]
      BY <3>1, <2>1, PrintedTypes DEF Printed
    <3>4. Arriving(c) = Known(base, r, outs[c]) /\ Arriving(c)' = Known(base, r, Printed(c)')
      BY <3>3, <2>1 DEF Arriving
    <3> HIDE DEF line, base
    <3>5. Arriving(c)' = IF line.cmnd = "W" /\ line.port = s THEN line.val ELSE Arriving(c)
      <4>1. CASE line.cmnd = "SYNC"
        <5>1. DONE \in OutLine(c) /\ DONE.cmnd = "DONE"  BY DEF OutLine, DONE
        <5>2. Printed(c)' = Append(outs[c], DONE)  BY <3>1, <3>3, <4>1, <5>1, PrintedTypes
        <5>3. Arriving(c)' = Known(base, r, outs[c])  BY <3>3, <3>4, <5>1, <5>2, KnownAppend
        <5> QED  BY <4>1, <5>3, <3>4
      <4>2. CASE line.cmnd = "W" /\ line.port = s
        <5> DEFINE l == W(r, line.val)
        <5>1. l \in OutLine(c) /\ l.cmnd = "W" /\ l.port = r /\ l.val = line.val
          BY <3>2 DEF OutLine, W
        <5>2. todo'[c] = <<l>>  BY <3>1, <4>2
        <5> HIDE DEF l
        <5>3. Printed(c)' = Append(outs[c], l)  BY <3>3, <5>1, <5>2, PrintedTypes
        <5>4. Arriving(c)' = line.val  BY <3>3, <3>4, <5>1, <5>3, KnownAppend
        <5> QED  BY <4>2, <5>4
      <4>3. CASE line.cmnd # "SYNC" /\ ~ (line.cmnd = "W" /\ line.port = s)
        <5>1. todo'[c] = <<>>  BY <3>1, <4>3
        <5>2. Printed(c)' = outs[c]  BY <5>1, <3>3
        <5> QED  BY <5>2, <3>4, <4>3
      <4> QED  BY <4>1, <4>2, <4>3
    <3>6. Settled(c)' = Known(IF line.cmnd = "W" /\ line.port = s THEN line.val ELSE Arriving(c),
                              s, Tail(ins[c]))
      BY <3>5, <3>1 DEF Settled
    <3>7. Settled(c)' = Settled(c)  BY <3>6, <3>1, KnownTail DEF Settled, line
    <3> QED  BY <3>7, <2>1, <2>2 DEF Follows
  <2> QED  BY <2>3, <2>4
<1>21. ASSUME NEW d \in Components, Put(d) PROVE Follows(c)'
  <2>1. /\ pc' = pc /\ op' = op /\ k' = k /\ ins' = ins /\ regs' = regs
        /\ d # c => outs'[c] = outs[c] /\ todo'[c] = todo[c]
    BY <1>21 DEF Put, PipeTypes, shared
  <2>2. Pending(main, c, s)' <=> Pending(main, c, s)  BY <2>1 DEF Pending
  <2>3. CASE d # c  BY <2>1, <2>2, <2>3, FollowsFrame DEF Printed
  <2>4. CASE d = c /\ pc[h] = "exit"
    <3>1. pc'[main] = "exit"  BY <2>4, <2>1 DEF Life
    <3> QED  BY <3>1 DEF Follows
  <2>5. CASE d = c /\ pc[h] # "exit"
    <3>1. outs'[c] = outs[c] \o todo[c] /\ todo'[c] = <<>>  BY <1>21, <2>5 DEF Put, PipeTypes
    <3>2. Printed(c) \in Seq(OutLine(c))  BY PrintedTypes
    <3>3. Printed(c)' = Printed(c)  BY <3>1, <3>2 DEF Printed
    <3> QED  BY <3>3, <2>1, <2>2, FollowsFrame
  <2> QED  BY <2>3, <2>4, <2>5
<1>22. CASE Wait
  <2>1. pc[main] = "exit"  BY <1>22 DEF Wait, Life
  <2>2. pc'[main] = "exit"  BY <1>22, <2>1 DEF Wait, Goto, Exit, AtSemaphore, shared
  <2> QED  BY <2>2 DEF Follows
<1>23. CASE Destroy
  <2>1. pc[main] = "exit"  BY <1>23 DEF Destroy, Life
  <2>2. pc'[main] = "exit"  BY <1>23, <2>1 DEF Destroy, Goto, Exit, AtSemaphore, shared
  <2> QED  BY <2>2 DEF Follows
<1>24. CASE UNCHANGED vars  BY <1>24, FollowsFrame DEF vars, shared, comps, Pending, Printed
<1> QED
  BY <1>1, <1>2, <1>3, <1>4, <1>5, <1>6, <1>7, <1>8, <1>9, <1>10, <1>11, <1>12, <1>13,
     <1>14, <1>15, <1>16, <1>17, <1>18, <1>19, <1>20, <1>21, <1>22, <1>23, <1>24
  DEF Next, MainStep, ProcStep, HandlerStep, ComponentStep

LEMMA PassOnCorrect == ASSUME OneDriver PROVE Spec => []PassOn
<1>1. Init => PassOn
  <2> SUFFICES ASSUME Init, NEW c \in Components, Wire[c][1] \in Outputs
               PROVE  Clean(c) /\ Follows(c)
    BY DEF PassOn
  <2>1. ~ Sent(c)  BY ProcsAre DEF Init, Sent
  <2>2. /\ ins[c] = <<>> /\ outs[c] = <<>> /\ todo[c] = <<>>
        /\ regs[Wire[c][1]] = 0 /\ regs[Wire[c][2]] = 0
    BY WireTypes DEF Init
  <2>3. pc[Handler(c)] # "regs"  BY ProcsAre DEF Init
  <2>4. Printed(c) = <<>>  BY <2>2 DEF Printed
  <2>5. Writes(Wire[c][2], Printed(c)) = {} /\ Writes(Wire[c][1], ins[c]) = {}
    BY <2>2, <2>4 DEF Writes
  <2>6. Settled(c) = 0  BY <2>2, <2>3, <2>5 DEF Settled, Arriving, Known
  <2> QED  BY <2>1, <2>2, <2>6 DEF Clean, Follows
<1>2. Types /\ Locks /\ Life /\ Agree /\ Tokens /\ PassOn /\ [Next]_vars => PassOn'
  BY CleanNext, FollowsNext DEF PassOn
<1> QED
  BY <1>1, <1>2, TypesCorrect, LocksCorrect, LifeCorrect, AgreeCorrect, TokensCorrect, PTL DEF Spec

\* When all components have answered, nothing is on its way from a port to the port it
\* is copied to.
LEMMA AllArrived ==
  ASSUME Types, Life, Tokens, PassOn, pc[main] = "read_regs", op[main].cmnd = "READ",
         NEW c \in Components, Wire[c][1] \in Outputs
  PROVE  regs[Wire[c][2]] = regs[Wire[c][1]]
<1>1. ~ Token(c)  BY NoTokens DEF Reading
<1>2. Sent(c) /\ Clean(c) /\ Follows(c)  BY DEF Sent, PassOn
<1>3. Writes(Wire[c][1], ins[c]) = {}  BY <1>1, <1>2 DEF Clean, Token, SyncIn
<1>4. Writes(Wire[c][2], Printed(c)) = {}  BY <1>1, <1>2 DEF Clean, Token, SyncIn, DoneIn
<1>5. pc[Handler(c)] # "regs"  BY <1>1, <1>2 DEF Clean, Token
<1>6. Settled(c) = regs[Wire[c][2]]  BY <1>3, <1>4, <1>5 DEF Settled, Arriving, Known
<1>7. ~ Pending(main, c, Wire[c][1])  BY DEF Pending
<1> QED  BY <1>2, <1>6, <1>7 DEF Follows

\* A read of a port that one component drives returns the reaction to all the program
\* wrote before, whatever the number of components and their wiring: SYNC follows the
\* writes to each component, DONE follows what it printed, main waits until it has
\* them all, and nobody writes while it reads (indep-sf-regs.c:205-212, 487-495).
THEOREM ReadCorrect == ASSUME OneDriver PROVE Spec => []ReadSeesReaction
<1>1. Init => ReadSeesReaction  BY ProcsAre DEF Init, ReadSeesReaction
<1>2. Types /\ Locks /\ Life /\ Tokens /\ PassOn /\ ReadSeesReaction /\ [Next]_vars
        => ReadSeesReaction'
  <2> SUFFICES ASSUME Types, Locks, Life, Tokens, PassOn, ReadSeesReaction, [Next]_vars,
                      pc'[main] = "read", op'[main].cmnd = "READ",
                      NEW c \in Drivers(op'[main].port), Wire[c][1] \in Outputs
               PROVE  val' = regs'[Wire[c][1]]
    BY DEF ReadSeesReaction, Drivers
  <2>1. c \in Components  BY DEF Drivers
  <2>2. CASE ReadRegs
    <3>1. pc[main] = "read_regs" /\ val' = regs[op[main].port] /\ regs' = regs /\ op' = op
      BY <2>2 DEF ReadRegs
    <3>2. Wire[c][2] = op[main].port  BY <3>1 DEF Drivers
    <3> QED  BY <3>1, <3>2, <2>1, AllArrived
  <2>3. CASE ~ ReadRegs
    <3>1. pc[main] = "read" /\ op'[main] = op[main] /\ val' = val
      <4> USE ProcsAre DEF Types, ControlTypes, MainAt, ParentAt, HandlerAt, Goto, Finish, Exit
      <4>1. CASE MainStep
        BY <4>1, <2>3, Basics DEF MainStep, Fork, Started, SetCounter, Await, ReadDone, Components
      <4>2. CASE (\E o \in Operations : Access(o)) \/ ProgramEnds \/ Wait \/ Destroy
        BY <4>2 DEF Access, ProgramEnds, Wait, Destroy
      <4>3. ASSUME NEW p \in Procs, ProcStep(p)
            PROVE  pc[main] = "read" /\ op'[main] = op[main] /\ val' = val
        BY <4>3 DEF ProcStep, LockSync, Update, FreeRegs, LockOuts, Send, FreeOuts, SemopFails
      <4>4. ASSUME NEW d \in Components, HandlerStep(d) \/ ComponentStep(d)
            PROVE  pc[main] = "read" /\ op'[main] = op[main] /\ val' = val
        BY <4>4 DEF HandlerStep, ComponentStep, ReadLine, CountDown, EndOfFile, Killed, Take, Put
      <4>5. CASE UNCHANGED vars  BY <4>5 DEF vars
      <4> QED  BY <4>1, <4>2, <4>3, <4>4, <4>5 DEF Next
    <3>2. sem_regs = 0  BY <3>1, ProcsAre DEF Locks, RegsLock, HoldsRegs
    <3>3. regs' = regs
      <4>1. CASE MainStep
        BY <4>1 DEF MainStep, Fork, Started, SetCounter, Await, ReadRegs, ReadDone, shared
      <4>2. CASE (\E o \in Operations : Access(o)) \/ ProgramEnds \/ Wait \/ Destroy
        BY <4>2 DEF Access, ProgramEnds, Wait, Destroy, shared
      <4>3. ASSUME NEW p \in Procs, ProcStep(p) PROVE regs' = regs
        BY <4>3, <3>2
        DEF ProcStep, LockSync, Update, P, FreeRegs, LockOuts, Send, FreeOuts, SemopFails, shared
      <4>4. ASSUME NEW d \in Components, HandlerStep(d) \/ ComponentStep(d) PROVE regs' = regs
        BY <4>4
        DEF HandlerStep, ComponentStep, ReadLine, CountDown, EndOfFile, Killed, Take, Put, shared
      <4>5. CASE UNCHANGED vars  BY <4>5 DEF vars, shared
      <4> QED  BY <4>1, <4>2, <4>3, <4>4, <4>5 DEF Next
    <3> QED  BY <3>1, <3>3 DEF ReadSeesReaction, Drivers
  <2> QED  BY <2>2, <2>3
<1> QED
  BY <1>1, <1>2, PassOnCorrect, TypesCorrect, LocksCorrect, LifeCorrect, TokensCorrect, PTL
  DEF Spec
=============================================================================
